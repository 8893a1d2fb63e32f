-------------------------- MODULE UplinkInvariant --------------------------
(***************************************************************************)
(* The inductive invariant behind the delivery theorems: why one cursor per *)
(* agent entry, moved by whichever session is live, is enough.             *)
(***************************************************************************)
EXTENDS UplinkDelivery

Registered(c) == pump[c] \in {"reading", "ended"}
Committed(p)  == Len(admitted[p])
Base(p)       == next_seq[p] - Len(pending[p])

\* A connection not yet made, or whose Register is unread, carries nothing.
WireInv ==
  \A c \in Conn :
    /\ pump[c] = "none" <=> c > nconn
    /\ owner[c] = NoProc <=> c > nconn
    /\ pump[c] \in {"none", "unread"} =>
         up[c] = <<>> /\ down[c] = <<>> /\ hand[c] = 0
    /\ owner[c] # NoProc => proc[owner[c]] # "unborn"

\* A process serves at most one connection, its own, and only while alive.
SessionInv ==
  \A p \in Proc :
    /\ cur[p] # 0 => cur[p] <= nconn /\ owner[cur[p]] = p /\ proc[p] = "live"
    /\ p \in opened => cur[p] # 0 /\ Registered(cur[p])

\* Alive, or with a registration the controller may still read.
Active(p) == proc[p] = "live" \/ \E c \in Conn : owner[c] = p /\ pump[c] = "unread"

\* Processes of one id follow one another.
SuccessionInv == \A p, q \in Proc : Active(p) /\ Active(q) => p = q

\* Never registered: no trace of the process in the controller or on a wire.
Fresh(p) ==
  /\ admitted[p] = <<>> /\ applied[p] = <<>>
  /\ p \notin opened
  /\ cur[p] # 0 => pump[cur[p]] = "unread"
  /\ \A c \in Conn : owner[c] = p =>
       /\ pump[c] \in {"unread", "ended"}
       /\ up[c] = <<>> /\ down[c] = <<>> /\ hand[c] = 0

\* The entry describes the live session and its process's cursor; any other
\* process is either unknown to the controller or gone for good.
EntryInv ==
  /\ entry.session = 0 <=> entry.incarnation = NoProc
  /\ entry.session # 0 =>
       /\ entry.session <= nconn
       /\ owner[entry.session] = entry.incarnation
       /\ Registered(entry.session)
       /\ entry.last_seq = Committed(entry.incarnation)
  /\ \A p \in Proc : p # entry.incarnation => Fresh(p) \/ (proc[p] = "dead" /\ ~ Active(p))

\* The window holds the unacknowledged tail, contiguously; what left it has
\* been admitted.
WindowInv ==
  \A p \in Proc :
    /\ Len(pending[p]) <= next_seq[p]
    /\ \A i \in 1..Len(pending[p]) : pending[p][i] = Base(p) + i
    /\ cursor[p] <= Len(pending[p])
    /\ Base(p) <= Committed(p)
    /\ Committed(p) <= next_seq[p]

\* No acknowledgement runs ahead of its process's admissions.
AckInv ==
  \A c \in Conn : \A i \in 1..Len(down[c]) :
    down[c][i].kind = "ack" => down[c][i].seq <= Committed(owner[c])

\* What is in flight was queued; on the live session it has no gap after the
\* cursor, and neither will what the writer takes next.
FlightInv ==
  /\ \A c \in Conn : \A i \in 1..Len(up[c]) :
       up[c][i] >= 1 /\ up[c][i] <= next_seq[owner[c]]
  /\ \A c \in Conn : c = entry.session =>
       \A i \in 1..Len(up[c]) :
         \/ up[c][i] <= entry.last_seq + 1
         \/ i > 1 /\ up[c][i] <= up[c][i - 1] + 1
  /\ \A p \in Proc : (p \in opened /\ cur[p] = entry.session) =>
       \/ Base(p) + cursor[p] <= entry.last_seq
       \/ /\ up[cur[p]] # <<>>
          /\ Base(p) + cursor[p] <= up[cur[p]][Len(up[cur[p]])]

\* Every admitted message is applied or in exactly one session task's hand.
ApplyInv ==
  /\ \A c \in Conn : hand[c] # 0 =>
       /\ hand[c] <= Committed(owner[c])
       /\ ~ InSeq(hand[c], applied[owner[c]])
  /\ \A c, d \in Conn :
       (hand[c] # 0 /\ hand[c] = hand[d] /\ owner[c] = owner[d]) => c = d
  /\ \A p \in Proc :
       /\ \A i \in 1..Len(applied[p]) :
            applied[p][i] >= 1 /\ applied[p][i] <= Committed(p)
       /\ \A n \in 1..Committed(p) :
            \/ InSeq(n, applied[p])
            \/ \E c \in Conn : owner[c] = p /\ hand[c] = n

\* The inductive invariant of register_agent, admit and the uplink window.
IInv ==
  /\ TypeOK
  /\ WireInv /\ SessionInv /\ SuccessionInv /\ EntryInv
  /\ WindowInv /\ AckInv /\ FlightInv
  /\ AdmittedInOrder /\ ApplyInv /\ AppliedOnce
=============================================================================
