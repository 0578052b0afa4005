------------------------------ MODULE MCBridges ------------------------------
(* The two ends of a bridge for TLC: how a server accepts and closes       *)
(* (BridgeServer), and the client of the WAN bridge with its connection    *)
(* (WanLink).  They share no state, so a behaviour moves one of them:      *)
(* MCInit picks it.                                                        *)
EXTENDS BridgeServer

CONSTANTS Topics, Order, Tokens, NoToken, ChanCap, WanSamples

VARIABLES
  side,   \* "server" or "link"
  token, cpc, subs, undone, closedSub, subChan, given, spc, taking, lock, ending,
  conn, reads, wire, srv, want, bad, taken, published   \* of WanLink

linkVars == <<token, cpc, subs, undone, closedSub, subChan, given, spc, taking, lock, ending,
              conn, reads, wire, srv, want, bad, taken, published>>

Link == INSTANCE WanLink WITH
          MaxSamples <- WanSamples, made <- subs, chan <- subChan, item <- taking, stopping <- ending

MCOrder == <<"a", "b">>

(* What does not move starts in one state. *)
MCInit ==
  /\ side \in {"server", "link"}
  /\ Init /\ Link!Init
  /\ side # "server" => kind = "rest"
  /\ side # "link" => token = [s \in {"client", "server"} |-> NoToken]

MCNext ==
  \/ side = "server" /\ Next /\ UNCHANGED <<side, linkVars>>
  \/ side = "link" /\ Link!Next /\ UNCHANGED <<side, vars>>

MCSpec ==
  /\ MCInit /\ [][MCNext]_<<vars, linkVars, side>>
  /\ Fairness /\ Link!Fairness

(* See WanLink: from end to end each topic is a lossy queue.               *)
ImplementsFifo == Link!ImplementsFifo

(* See WanLink: the server publishes what the senders took, in order, and  *)
(* never stops for a frame it cannot read.                                 *)
FramesIntact == Link!FramesIntact

(* See WanLink: neither a connect() that fails nor a close() leaves a      *)
(* subscriber, a connection or a thread.                                   *)
NothingLeft == Link!NothingLeft

(* See WanLink: one sender that finds the connection broken ends them all, *)
(* and so does close().                                                    *)
SendersEnd == Link!SendersEnd
=============================================================================
