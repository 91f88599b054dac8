---------------------------- MODULE MCExecution ----------------------------
(***************************************************************************)
(* The execution of transactions: their gas in GasCharging, their frames   *)
(* in StylusFrames.  The frames hand one number to the gas, the refund     *)
(* they recorded, and GasCharging takes any of Refunds; so a behaviour     *)
(* drives one of the two.                                                  *)
(***************************************************************************)
EXTENDS GasCharging, StylusFrames

VARIABLE driven

MCInit ==
    /\ FramesInit
    /\ \/ driven = "gas" /\ GasInit
       \/ driven = "frames" /\ GasInit /\ env.version = 60 /\ env.baseFee = 0 /\ env.infra
MCNext ==
    /\ UNCHANGED driven
    /\ \/ driven = "gas" /\ GasNext /\ UNCHANGED framesVars
       \/ driven = "frames" /\ FramesNext /\ UNCHANGED gasVars

MCSpec == MCInit /\ [][MCNext]_<<gasVars, framesVars, driven>>

(***************************************************************************)
(* Values of the constants                                                 *)
(***************************************************************************)
Env(version, fee, sequenced, tips, block, limit, infra, network) ==
    [version |-> version, baseFee |-> fee, sequenced |-> sequenced, tips |-> tips,
     blockLimit |-> block, txLimit |-> limit, infra |-> infra, network |-> network,
     minBaseFee |-> 1, pricePerUnit |-> 3]

\* Versions on both sides of every gate; no limits, no tips, no network account and
\* messages of the delayed inbox apart.
MCEnvs ==
    {Env(v, f, TRUE, TRUE, 6, 9, i, TRUE) :
        v \in {1, 4, 9, 49, 50, 60}, f \in {0, 2}, i \in BOOLEAN}
      \cup {Env(v, 2, s, t, 0, 0, TRUE, s) : v \in {9, 60}, s \in BOOLEAN, t \in BOOLEAN}

Tx(kind, limit, cap, tip, floor, units, filtered) ==
    [kind |-> kind, limit |-> limit, cap |-> cap, tip |-> tip, floor |-> floor,
     intrinsic |-> IF kind = "protocol" THEN 0 ELSE 3, units |-> units, value |-> 1,
     filtered |-> filtered, auth |-> None]

\* Ample and tight limits, with and without poster gas, calldata floor and filter; then a
\* fee cap too low, a balance too low and a limit below the intrinsic gas; last, an
\* authorization list, for new accounts and for existing ones.
MCTxs ==
    {Tx("user", 24, c, 1, f, u, x) : c \in {2, 5}, f \in {3, 14}, u \in {0, 5}, x \in BOOLEAN}
      \cup {Tx("user", 6, 5, 0, 3, u, x) : u \in {0, 5}, x \in BOOLEAN}
      \cup {Tx("user", 6, 1, 0, 3, 0, FALSE), Tx("user", 60, 5, 0, 3, 0, FALSE),
            Tx("user", 2, 5, 0, 3, 0, FALSE), Tx("protocol", 0, 0, 0, 0, 0, FALSE)}
      \cup {Tx("retry", 20, 0, 0, 0, 0, x) : x \in BOOLEAN}
      \cup {[Tx("user", 24, 5, 1, 3, 5, x) EXCEPT !.auth = r] : x \in BOOLEAN, r \in {0, 2}}

\* Net refunds below zero come from slots that are set again.
MCRefunds == {-2, 2, 9}

MCDeltas == {1, -1}
=============================================================================
