---------------------------- MODULE MCBridgeCalls ----------------------------
(* The calls of a bridge's clients (BridgeCalls), and the algorithms on    *)
(* data (MCCodecs), among them those that encode these calls.  They share  *)
(* no state, so a behaviour moves one of them: MCInit picks it.            *)
EXTENDS BridgeCalls

VARIABLES
  side,   \* "calls" or "data"
  algorithm, input, cut   \* of MCCodecs

dataVars == <<algorithm, input, cut>>

Data == INSTANCE MCCodecs WITH kind <- algorithm

(* What does not move starts in one state. *)
MCInit ==
  /\ Init
  /\ \/ side = "calls" /\ algorithm = "none" /\ input = <<>> /\ cut = 0
     \/ /\ side = "data" /\ kind = "grpc"
        /\ \A c \in Clients : call[c].op = "stream" /\ call[c].authorized
        /\ Data!Init

MCNext ==
  \/ side = "calls" /\ Next /\ UNCHANGED <<side, dataVars>>
  \/ side = "data" /\ Data!Next /\ UNCHANGED <<side, vars>>

MCSpec == MCInit /\ [][MCNext]_<<vars, dataVars, side>>

(* See MCCodecs: identical types have one structure, compatible types can  *)
(* read each other.                                                        *)
TypesAreStructural == Data!TypesAreStructural

(* See MCCodecs: the JSON reader accepts the grammar, nothing else, and    *)
(* stores what it has read.                                                *)
JsonIsTheGrammar == Data!JsonIsTheGrammar

(* See MCCodecs: the glob matcher decides what its patterns mean.          *)
GlobMeansPattern == Data!GlobMeansPattern

(* See MCCodecs: values, packets and announcements arrive as sent.         *)
WireIsRead == Data!WireIsRead

(* See MCCodecs: frames, requests and events arrive as sent.               *)
BridgesUnderstand == Data!BridgesUnderstand

(* See MCCodecs: stream configurations arrive, and open their gates.       *)
ConfigArrives == Data!ConfigArrives

(* See MCCodecs: modules are read, and their codecs mirror each other.     *)
IdlCompiles == Data!IdlCompiles
=============================================================================
