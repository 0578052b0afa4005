----------------------------- MODULE MCDataPath -----------------------------
(* Instances of DataPath and E2ELink for TLC.  The data path has one       *)
(* thread whose samples are fragmented, or two threads whose samples fit   *)
(* one DATA each; E2ELink is what the frames of a protected topic meet     *)
(* above it.  The two share no state, so a behaviour moves one of them:    *)
(* MCInit picks it.                                                        *)
EXTENDS DataPath

CONSTANTS t1, t2, Modulus, ChanCap, ErrCap, Earlier, E2EWrites, E2EFaults

VARIABLES
  side,    \* "path" or "e2e"
  counter, writing, pubClosed, raw, rawClosed, hasFirst, lastCounter, ch, chClosed,
  errors, closer, pumping, got, upsets, alarmed, overflowed, disturbed

e2eVars == <<counter, writing, pubClosed, raw, rawClosed, hasFirst, lastCounter, ch, chClosed,
             errors, closer, pumping, got, upsets, alarmed, overflowed, disturbed>>

E2E == INSTANCE E2ELink WITH
         Writers <- Threads, MaxWrites <- E2EWrites, MaxFaults <- E2EFaults, faults <- upsets

MCThreads == {t1, t2}
MCShapes == {[users |-> {t1}, live |-> 2, retrans |-> 2],
             [users |-> {t1, t2}, live |-> 3, retrans |-> 3]}

(* A TSN stream caps the writer's fragments below the default. *)
MCTsnShapes == {[users |-> {t1}, live |-> 2, retrans |-> 3]}

MCInit == Init /\ E2E!Init /\ side \in {"path", "e2e"}

MCNext ==
  \/ side = "path" /\ Next /\ UNCHANGED <<side, e2eVars>>
  \/ side = "e2e" /\ E2E!Next /\ UNCHANGED <<side, vars>>

MCSpec == MCInit /\ [][MCNext]_<<vars, e2eVars, side>> /\ Fairness /\ E2E!Fairness

(* Only the data path. *)
TsnInit == MCInit /\ side = "path"

(* See E2ELink: without an alarm the samples are those of consecutive      *)
(* writes, whatever was lost, repeated, overtaken, damaged or late.        *)
SilenceMeansIntact == E2E!SilenceMeansIntact

(* See E2ELink: an alarm has a cause, also where the counter wraps.        *)
AlarmsHaveCause == E2E!AlarmsHaveCause

(* See E2ELink: close() returns though the application reads nothing.      *)
CloseReturns == E2E!CloseReturns
=============================================================================
