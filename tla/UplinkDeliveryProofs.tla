------------------------ MODULE UplinkDeliveryProofs ------------------------
(***************************************************************************)
(* The delivery properties of UplinkDelivery for any number of processes,   *)
(* messages and sessions and for any capacity of windows and streams, from  *)
(* the inductive invariant of UplinkInvariant.                             *)
(***************************************************************************)
EXTENDS UplinkInvariant, SequenceTheorems, TLAPS

-----------------------------------------------------------------------------
(***************************************************************************)
(* A conjunct is preserved by every step that leaves its variables alone.  *)
(***************************************************************************)

\* WireInv reads the wire, the session tasks and the process states.
LEMMA WireFrame ==
  ASSUME WireInv, UNCHANGED <<pump, nconn, owner, up, down, hand, proc>>
  PROVE  WireInv'
BY DEF WireInv

\* SessionInv reads the connection a process serves and that connection.
LEMMA SessionFrame ==
  ASSUME SessionInv, UNCHANGED <<cur, nconn, owner, proc, opened, pump>>
  PROVE  SessionInv'
BY DEF SessionInv, Registered

\* SuccessionInv reads process states and unread registrations.
LEMMA SuccessionFrame ==
  ASSUME SuccessionInv, UNCHANGED <<proc, owner, pump>>
  PROVE  SuccessionInv'
BY DEF SuccessionInv, Active

\* EntryInv reads neither the window nor the heartbeats.
LEMMA EntryFrame ==
  ASSUME EntryInv,
         UNCHANGED <<entry, nconn, owner, pump, admitted, applied, opened, cur,
                     up, down, hand, proc>>
  PROVE  EntryInv'
BY DEF EntryInv, Registered, Fresh, Active, Committed

\* WindowInv reads the window and how far admission went.
LEMMA WindowFrame ==
  ASSUME WindowInv, UNCHANGED <<pending, next_seq, cursor, admitted>>
  PROVE  WindowInv'
BY DEF WindowInv, Base, Committed

\* AckInv reads the downlinks and how far admission went.
LEMMA AckFrame ==
  ASSUME AckInv, UNCHANGED <<down, admitted, owner>>
  PROVE  AckInv'
BY DEF AckInv, Committed

\* FlightInv reads the uplinks, the window, the entry and who is writing.
LEMMA FlightFrame ==
  ASSUME FlightInv,
         UNCHANGED <<up, next_seq, owner, entry, opened, cur, pending, cursor>>
  PROVE  FlightInv'
BY DEF FlightInv, Base

\* AdmittedInOrder reads the admissions.
LEMMA OrderFrame ==
  ASSUME AdmittedInOrder, UNCHANGED admitted
  PROVE  AdmittedInOrder'
BY DEF AdmittedInOrder

\* ApplyInv reads admissions, applications and the session tasks' hands.
LEMMA ApplyFrame ==
  ASSUME ApplyInv, UNCHANGED <<hand, admitted, applied, owner>>
  PROVE  ApplyInv'
BY DEF ApplyInv, Committed, InSeq

\* AppliedOnce reads the applications.
LEMMA OnceFrame ==
  ASSUME AppliedOnce, UNCHANGED applied
  PROVE  AppliedOnce'
BY DEF AppliedOnce

\* The types of one process's and of one connection's state.
LEMMA PointTypes ==
  ASSUME TypeOK
  PROVE  /\ \A p \in Proc :
              /\ proc[p] \in {"unborn", "live", "dead"}
              /\ next_seq[p] \in Nat /\ cursor[p] \in Nat
              /\ pending[p] \in Seq(Nat)
              /\ cur[p] \in Conn \cup {0}
              /\ admitted[p] \in Seq(Nat) /\ applied[p] \in Seq(Nat)
         /\ \A c \in Conn :
              /\ owner[c] \in Proc \cup {NoProc}
              /\ up[c] \in Seq(Nat) /\ down[c] \in Seq(Down)
              /\ pump[c] \in {"none", "unread", "reading", "ended"}
              /\ hand[c] \in Nat
              /\ c \in Nat /\ c # 0
         /\ nconn \in Nat
         /\ entry.session \in Conn \cup {0}
         /\ entry.incarnation \in Proc \cup {NoProc}
         /\ entry.last_seq \in Nat
<1>1. \A c \in Conn : c \in Nat /\ c # 0
  BY BoundAssumption DEF Conn
<1>2. nconn \in Nat
  BY BoundAssumption DEF TypeOK
<1> QED BY <1>1, <1>2 DEF TypeOK

\* Lengths are naturals.
LEMMA LenTypes ==
  ASSUME TypeOK
  PROVE  /\ \A p \in Proc : /\ Len(pending[p]) \in Nat
                            /\ Len(admitted[p]) \in Nat
                            /\ Len(applied[p]) \in Nat
         /\ \A c \in Conn : Len(up[c]) \in Nat /\ Len(down[c]) \in Nat
BY PointTypes

\* The front of the window and the cursor are naturals.
LEMMA BaseTypes ==
  ASSUME TypeOK, WindowInv
  PROVE  \A p \in Proc : Base(p) \in Nat /\ Committed(p) \in Nat
<1> SUFFICES ASSUME NEW p \in Proc
             PROVE  Base(p) \in Nat /\ Committed(p) \in Nat
  OBVIOUS
<1>1. next_seq[p] \in Nat /\ Len(pending[p]) \in Nat /\ Len(admitted[p]) \in Nat
  BY PointTypes, LenTypes
<1>2. Len(pending[p]) <= next_seq[p]
  BY DEF WindowInv
<1> QED BY <1>1, <1>2 DEF Base, Committed

\* Dropping the first k elements of a sequence.
LEMMA SuffixSeq ==
  ASSUME NEW s \in Seq(Nat), NEW k \in 0..Len(s)
  PROVE  /\ SubSeq(s, k + 1, Len(s)) \in Seq(Nat)
         /\ Len(SubSeq(s, k + 1, Len(s))) = Len(s) - k
         /\ \A i \in 1..(Len(s) - k) : SubSeq(s, k + 1, Len(s))[i] = s[k + i]
<1>1. Len(s) \in Nat /\ k \in Nat /\ k <= Len(s)
  OBVIOUS
<1>2. \A i \in (k + 1)..Len(s) : s[i] \in Nat
  BY <1>1
<1>3. /\ SubSeq(s, k + 1, Len(s)) \in Seq(Nat)
      /\ Len(SubSeq(s, k + 1, Len(s))) = IF k + 1 <= Len(s) THEN Len(s) - (k + 1) + 1
                                                            ELSE 0
      /\ \A i \in 1..(Len(s) - (k + 1) + 1) :
           SubSeq(s, k + 1, Len(s))[i] = s[(k + 1) + i - 1]
  BY <1>1, <1>2, SubSeqProperties
<1>4. Len(s) - (k + 1) + 1 = Len(s) - k
  BY <1>1
<1>5. \A i \in 1..(Len(s) - k) : (k + 1) + i - 1 = k + i
  BY <1>1
<1>6. (IF k + 1 <= Len(s) THEN Len(s) - (k + 1) + 1 ELSE 0) = Len(s) - k
  BY <1>1
<1>7. \A i \in 1..(Len(s) - k) : SubSeq(s, k + 1, Len(s))[i] = s[k + i]
  BY <1>3, <1>4, <1>5
<1> QED BY <1>3, <1>6, <1>7

-----------------------------------------------------------------------------
(***************************************************************************)
(* The agent's steps.                                                      *)
(***************************************************************************)

\* A new process starts only when no other is active.
LEMMA StartPreserves ==
  ASSUME IInv, NEW p \in Proc, Start(p)
  PROVE  IInv'
<1> USE DEF IInv
<1>1. TypeOK'
  BY DEF Start, Launch, TypeOK, wireVars, ctrlVars
<1>2. /\ UNCHANGED <<next_seq, pending, cursor, cur, opened>>
      /\ UNCHANGED <<nconn, owner, up, hb, down>>
      /\ UNCHANGED <<pump, hand, entry, admitted, applied>>
  BY DEF Start, Launch, wireVars, ctrlVars
<1>3. /\ \A q \in Proc : q # p => proc'[q] = proc[q]
      /\ proc'[p] = "live"
  BY DEF Start, Launch, TypeOK
<1>4. \A q \in Proc : ~ Active(q)
  BY DEF Start, OneProcessAtATime, Active
<1>5. \A q \in Proc : Active(q)' => q = p
  BY <1>2, <1>3, <1>4 DEF Active
<1>6. WireInv'
  BY <1>2, <1>3, PointTypes DEF WireInv
<1>7. SessionInv'
  BY <1>2, <1>3, <1>4 DEF SessionInv, Registered, Active
<1>8. SuccessionInv'
  BY <1>5 DEF SuccessionInv
<1>9. EntryInv'
  <2>1. proc[p] = "unborn"
    BY DEF Start, Launch
  <2>2. p # entry.incarnation
    BY <2>1, ProcAssumption DEF EntryInv, WireInv, TypeOK
  <2>3. Fresh(p)
    BY <2>1, <2>2 DEF EntryInv
  <2> QED BY <1>2, <1>3, <1>5, <2>3 DEF EntryInv, Fresh, Registered, Committed
<1> QED
  BY <1>1, <1>2, <1>6, <1>7, <1>8, <1>9, WindowFrame, AckFrame, FlightFrame,
     OrderFrame, ApplyFrame, OnceFrame
\* A dead process is no longer active and serves nothing.
LEMMA CrashPreserves ==
  ASSUME IInv, NEW p \in Proc, Crash(p)
  PROVE  IInv'
<1> USE DEF IInv
<1>1. TypeOK'
  BY DEF Crash, TypeOK, wireVars, ctrlVars
<1>2. /\ UNCHANGED <<next_seq, pending, cursor>>
      /\ UNCHANGED <<nconn, owner, up, hb, down>>
      /\ UNCHANGED <<pump, hand, entry, admitted, applied>>
  BY DEF Crash, wireVars, ctrlVars
<1>3. /\ \A q \in Proc : q # p => proc'[q] = proc[q] /\ cur'[q] = cur[q]
      /\ proc'[p] = "dead" /\ cur'[p] = 0
      /\ opened' = opened \ {p}
  BY DEF Crash, TypeOK
<1>4. \A q \in Proc : Active(q)' => Active(q)
  BY <1>2, <1>3 DEF Active
<1>5. \A q \in Proc : Fresh(q) => Fresh(q)'
  BY <1>2, <1>3 DEF Fresh
<1>6. WireInv'
  BY <1>2, <1>3, PointTypes DEF WireInv
<1>7. SessionInv'
  BY <1>2, <1>3 DEF SessionInv, Registered
<1>8. SuccessionInv'
  BY <1>4 DEF SuccessionInv
<1>9. EntryInv'
  BY <1>2, <1>3, <1>4, <1>5 DEF EntryInv, Registered, Committed
<1>10. FlightInv'
  BY <1>2, <1>3 DEF FlightInv, Base
<1> QED
  BY <1>1, <1>2, <1>6, <1>7, <1>8, <1>9, <1>10, WindowFrame, AckFrame,
     OrderFrame, ApplyFrame, OnceFrame

\* The window grows at its end by the next sequence number.
LEMMA PushPreserves ==
  ASSUME IInv, NEW p \in Proc, Push(p)
  PROVE  IInv'
<1> USE DEF IInv
<1>1. TypeOK'
  BY SMTT(30) DEF Push, TypeOK, wireVars, ctrlVars
<1>2. /\ UNCHANGED <<proc, cursor, cur, opened>>
      /\ UNCHANGED <<nconn, owner, up, hb, down>>
      /\ UNCHANGED <<pump, hand, entry, admitted, applied>>
  BY DEF Push, wireVars, ctrlVars
<1>3. /\ \A q \in Proc : q # p => /\ next_seq'[q] = next_seq[q]
                                 /\ pending'[q] = pending[q]
      /\ next_seq'[p] = next_seq[p] + 1
      /\ pending'[p] = Append(pending[p], next_seq[p] + 1)
  BY DEF Push, TypeOK
<1>4. /\ Len(pending'[p]) = Len(pending[p]) + 1
      /\ \A i \in 1..Len(pending[p]) : pending'[p][i] = pending[p][i]
      /\ pending'[p][Len(pending[p]) + 1] = next_seq[p] + 1
  BY <1>3, PointTypes
<1>0. next_seq[p] \in Nat /\ Len(pending[p]) \in Nat /\ cursor[p] \in Nat
  BY PointTypes, LenTypes
<1>5. \A q \in Proc : Base(q)' = Base(q)
  <2>1. Base(p)' = Base(p)
    BY <1>0, <1>3, <1>4 DEF Base
  <2> QED BY <1>3, <2>1 DEF Base
<1>6. WindowInv'
  <2> SUFFICES ASSUME NEW q \in Proc
               PROVE  /\ Len(pending'[q]) <= next_seq'[q]
                      /\ \A i \in 1..Len(pending'[q]) :
                           pending'[q][i] = Base(q)' + i
                      /\ cursor'[q] <= Len(pending'[q])
                      /\ Base(q)' <= Committed(q)'
                      /\ Committed(q)' <= next_seq'[q]
    BY DEF WindowInv
  <2>1. /\ Len(pending[q]) <= next_seq[q]
        /\ \A i \in 1..Len(pending[q]) : pending[q][i] = Base(q) + i
        /\ cursor[q] <= Len(pending[q])
        /\ Base(q) <= Committed(q)
        /\ Committed(q) <= next_seq[q]
    BY DEF WindowInv
  <2>2. Committed(q)' = Committed(q) /\ Committed(q) \in Nat
    BY <1>2, LenTypes DEF Committed
  <2>3. CASE q # p
    BY <1>2, <1>3, <1>5, <2>1, <2>2, <2>3
  <2>4. CASE q = p
    <3>1. next_seq[p] + 1 = Base(p) + (Len(pending[p]) + 1)
      BY <2>1, <2>4, PointTypes, LenTypes DEF Base
    <3>2. \A i \in 1..Len(pending'[p]) : pending'[p][i] = Base(p) + i
      BY <1>4, <2>1, <2>4, <3>1, PointTypes, LenTypes
    <3>3. Len(pending'[p]) <= next_seq'[p]
      BY <1>0, <1>3, <1>4, <2>1, <2>4
    <3>4. cursor'[p] <= Len(pending'[p])
      BY <1>0, <1>2, <1>4, <2>1, <2>4
    <3>5. Base(p)' = Base(p) /\ Base(p) <= Committed(p)
      BY <1>5, <2>1, <2>4
    <3>6. Committed(p)' = Committed(p) /\ Committed(p) <= next_seq'[p]
      BY <1>0, <1>3, <2>1, <2>2, <2>4
    <3> QED BY <2>4, <3>2, <3>3, <3>4, <3>5, <3>6, Zenon
  <2> QED BY <2>3, <2>4
<1>7. FlightInv'
  <2>1. \A c \in Conn : \A i \in 1..Len(up[c]) :
          up[c][i] >= 1 /\ up[c][i] <= next_seq'[owner[c]]
    <3> SUFFICES ASSUME NEW c \in Conn, NEW i \in 1..Len(up[c])
                 PROVE  up[c][i] >= 1 /\ up[c][i] <= next_seq'[owner[c]]
      OBVIOUS
    <3>1. owner[c] \in Proc
      BY PointTypes DEF WireInv
    <3>2. up[c][i] \in Nat /\ next_seq[owner[c]] \in Nat
      BY <3>1, PointTypes
    <3> QED BY <1>3, <3>1, <3>2 DEF FlightInv
  <2> QED BY <1>2, <1>5, <2>1 DEF FlightInv
<1> QED
  BY <1>1, <1>2, <1>6, <1>7, WireFrame, SessionFrame, SuccessionFrame,
     EntryFrame, AckFrame, OrderFrame, ApplyFrame, OnceFrame

\* A connection is made by a live process and starts out empty and unread.
LEMMA ConnectPreserves ==
  ASSUME IInv, NEW p \in Proc, Connect(p)
  PROVE  IInv'
<1> USE DEF IInv
<1> DEFINE c == nconn + 1
<1>0. c \in Conn /\ nconn' \in 0..MaxConn /\ nconn \in Nat
  BY BoundAssumption DEF Connect, TypeOK, Conn
<1>1. TypeOK'
  BY <1>0 DEF Connect, TypeOK
<1>2. UNCHANGED <<proc, next_seq, pending, cursor, opened, up, hb, down, hand,
                  entry, admitted, applied>>
  BY DEF Connect
<1>3. /\ nconn' = c /\ proc[p] = "live" /\ cur[p] = 0
      /\ \A q \in Proc : q # p => cur'[q] = cur[q]
      /\ cur'[p] = c
      /\ \A d \in Conn : d # c => owner'[d] = owner[d] /\ pump'[d] = pump[d]
      /\ owner'[c] = p /\ pump'[c] = "unread"
  BY <1>0 DEF Connect, TypeOK
<1>4. owner[c] = NoProc /\ pump[c] = "none" /\ up[c] = <<>> /\ down[c] = <<>>
      /\ hand[c] = 0
  BY <1>0 DEF WireInv
<1>5. \A q \in Proc : Active(q)' => Active(q)
  BY <1>2, <1>3 DEF Active
<1>6. \A d \in Conn : d \in Nat /\ (d > nconn' <=> (d > nconn /\ d # c))
  BY <1>0, <1>3 DEF Conn
<1>7. p \notin opened
  BY <1>3 DEF SessionInv
<1>8. WireInv'
  BY <1>2, <1>3, <1>4, <1>6, ProcAssumption DEF WireInv
<1>9. SessionInv'
  <2>1. \A q \in Proc : (cur[q] # 0 => cur[q] # c) /\ (q \in opened => q # p)
    BY <1>3, <1>4, <1>7, ProcAssumption DEF SessionInv
  <2>2. \A q \in Proc : cur[q] # 0 => cur[q] \in Conn /\ cur[q] <= nconn'
    BY <1>0, <1>3, PointTypes DEF SessionInv
  <2> QED
    BY <1>0, <1>2, <1>3, <2>1, <2>2 DEF SessionInv, Registered
<1>10. SuccessionInv'
  BY <1>5 DEF SuccessionInv
<1>11. EntryInv'
  <2>1. entry.session # c /\ (entry.session # 0 => entry.session \in Conn)
    BY <1>0, <1>4, PointTypes DEF EntryInv, Registered
  <2>2. entry.session # 0 => entry.session <= nconn'
    BY <1>0, <1>3, PointTypes DEF EntryInv
  <2>3. \A q \in Proc : Fresh(q) => Fresh(q)'
    <3> SUFFICES ASSUME NEW q \in Proc, Fresh(q) PROVE Fresh(q)'
      OBVIOUS
    <3>1. q # p => (cur[q] # 0 => cur[q] \in Conn /\ cur[q] # c)
      BY <1>4, PointTypes DEF Fresh
    <3> QED BY <1>0, <1>2, <1>3, <1>4, <3>1 DEF Fresh
  <2> QED
    BY <1>2, <1>3, <1>5, <2>1, <2>2, <2>3 DEF EntryInv, Registered, Committed
<1>12. AckInv'
  BY <1>2, <1>3, <1>4 DEF AckInv, Committed
<1>13. FlightInv'
  <2>1. \A q \in Proc : q \in opened => cur'[q] = cur[q]
    BY <1>3, <1>7
  <2> QED BY <1>2, <1>3, <1>4, <2>1 DEF FlightInv, Base
<1>14. ApplyInv'
  <2>1. \A d \in Conn : hand[d] # 0 => owner'[d] = owner[d]
    BY <1>3, <1>4
  <2>2. \A q \in Proc, n \in Nat \ {0} :
          (\E d \in Conn : owner[d] = q /\ hand[d] = n) =>
            \E d \in Conn : owner'[d] = q /\ hand'[d] = n
    BY <1>2, <2>1
  <2>3. \A d, e \in Conn :
          (hand[d] # 0 /\ hand[d] = hand[e] /\ owner'[d] = owner'[e]) => d = e
    BY <2>1 DEF ApplyInv
  <2>4. \A d \in Conn : hand[d] # 0 =>
          /\ hand[d] <= Committed(owner'[d])
          /\ ~ InSeq(hand[d], applied[owner'[d]])
    BY <2>1 DEF ApplyInv
  <2>5. \A q \in Proc : \A n \in 1..Committed(q) : n \in Nat \ {0}
    BY LenTypes DEF Committed
  <2>6. \A q \in Proc : Committed(q)' = Committed(q)
    BY <1>2 DEF Committed
  <2>7. \A q \in Proc : \A n \in 1..Committed(q)' :
          \/ InSeq(n, applied'[q])
          \/ \E d \in Conn : owner'[d] = q /\ hand'[d] = n
    <3> SUFFICES ASSUME NEW q \in Proc, NEW n \in 1..Committed(q),
                        ~ InSeq(n, applied[q])
                 PROVE  \E d \in Conn : owner'[d] = q /\ hand'[d] = n
      BY <1>2, <2>6
    <3>1. \E d \in Conn : owner[d] = q /\ hand[d] = n
      BY DEF ApplyInv
    <3> QED BY <2>2, <2>5, <3>1
  <2>8. \A q \in Proc : \A i \in 1..Len(applied'[q]) :
          applied'[q][i] >= 1 /\ applied'[q][i] <= Committed(q)'
    BY <1>2, <2>6 DEF ApplyInv
  <2>9. \A d \in Conn : hand'[d] # 0 =>
          /\ hand'[d] <= Committed(owner[d])'
          /\ ~ InSeq(hand'[d], applied'[owner'[d]])
    BY <1>2, <2>4 DEF Committed
  <2> QED
    BY <1>2, <2>3, <2>7, <2>8, <2>9 DEF ApplyInv
<1> QED
  BY <1>1, <1>2, <1>8, <1>9, <1>10, <1>11, <1>12, <1>13, <1>14, WindowFrame,
     OrderFrame, OnceFrame

\* The writer of a new session starts at the oldest unacknowledged message.
LEMMA SessionOpenedPreserves ==
  ASSUME IInv, NEW p \in Proc, SessionOpened(p)
  PROVE  IInv'
<1> USE DEF IInv
<1>1. TypeOK'
  BY DEF SessionOpened, TypeOK, wireVars, ctrlVars
<1>2. UNCHANGED <<proc, next_seq, pending, cur, nconn, owner, up, hb, down, pump,
                  hand, entry, admitted, applied>>
  BY DEF SessionOpened, wireVars, ctrlVars
<1>3. /\ cur[p] # 0 /\ pump[cur[p]] \in {"reading", "ended"}
      /\ opened' = opened \cup {p}
      /\ \A q \in Proc : q # p => cursor'[q] = cursor[q]
      /\ cursor'[p] = 0
  BY DEF SessionOpened, TypeOK
<1>4. SessionInv'
  BY <1>2, <1>3 DEF SessionInv, Registered
<1>5. EntryInv'
  <2>1. ~ Fresh(p)
    BY <1>3 DEF Fresh
  <2>2. \A q \in Proc : Fresh(q) => Fresh(q)'
    BY <1>2, <1>3, <2>1 DEF Fresh
  <2>3. \A q \in Proc : Active(q)' => Active(q)
    BY <1>2 DEF Active
  <2> QED
    BY <1>2, <2>2, <2>3 DEF EntryInv, Registered, Committed
<1>6. \A q \in Proc : Base(q)' = Base(q) /\ Committed(q)' = Committed(q)
  BY <1>2 DEF Base, Committed
<1>7. WindowInv'
  BY <1>2, <1>3, <1>6, LenTypes DEF WindowInv
<1>8. FlightInv'
  <2>1. cur[p] = entry.session =>
          entry.incarnation = p /\ entry.last_seq = Committed(p)
    BY <1>3 DEF EntryInv, SessionInv
  <2>2. cur[p] = entry.session => Base(p) + 0 <= entry.last_seq
    BY <2>1, BaseTypes DEF WindowInv
  <2> QED BY <1>2, <1>3, <1>6, <2>2 DEF FlightInv
<1> QED
  BY <1>1, <1>2, <1>4, <1>5, <1>7, <1>8, WireFrame, SuccessionFrame, AckFrame,
     OrderFrame, ApplyFrame, OnceFrame

\* The writer never takes a message that would leave a gap on the wire.
LEMMA WriteNextPreserves ==
  ASSUME IInv, NEW p \in Proc, WriteNext(p)
  PROVE  IInv'
<1> USE DEF IInv
<1> DEFINE c == cur[p]
           m == pending[p][cursor[p] + 1]
<1>1. /\ UNCHANGED <<proc, next_seq, pending, cur, opened, nconn, owner, hb, down>>
      /\ UNCHANGED <<pump, hand, entry, admitted, applied>>
      /\ p \in opened /\ cursor[p] < Len(pending[p])
  BY DEF WriteNext, ctrlVars
<1>2. /\ c \in Conn /\ c # 0 /\ Registered(c)
      /\ owner[c] = p
      /\ up[c] \in Seq(Nat) /\ Len(up[c]) \in Nat
      /\ cursor[p] \in Nat /\ next_seq[p] \in Nat /\ Len(pending[p]) \in Nat
      /\ Base(p) \in Nat
  BY <1>1, PointTypes, LenTypes, BaseTypes DEF SessionInv
<1>3. m = Base(p) + cursor[p] + 1 /\ m \in Nat /\ m >= 1 /\ m <= next_seq[p]
  <2>1. cursor[p] + 1 \in 1..Len(pending[p])
    BY <1>1, <1>2
  <2>2. m = Base(p) + (cursor[p] + 1)
    BY <2>1 DEF WindowInv
  <2>3. Len(pending[p]) <= next_seq[p]
    BY DEF WindowInv
  <2> QED BY <1>1, <1>2, <2>2, <2>3, SMTT(30) DEF Base
<1>4. /\ \A q \in Proc : q # p => cursor'[q] = cursor[q]
      /\ cursor'[p] = cursor[p] + 1
      /\ \A d \in Conn : d # c => up'[d] = up[d]
      /\ up'[c] = Append(up[c], m)
  BY <1>2 DEF WriteNext, TypeOK
<1>5. /\ up'[c] \in Seq(Nat) /\ Len(up'[c]) = Len(up[c]) + 1
      /\ \A i \in 1..Len(up[c]) : up'[c][i] = up[c][i]
      /\ up'[c][Len(up[c]) + 1] = m
  BY <1>2, <1>3, <1>4
<1>6. TypeOK'
  <2>1. up' \in [Conn -> Seq(Nat)]
    BY <1>2, <1>4, <1>5 DEF WriteNext, TypeOK
  <2>2. cursor' = [cursor EXCEPT ![p] = cursor[p] + 1] /\ cursor[p] + 1 \in Nat
    BY <1>2 DEF WriteNext
  <2>3. cursor' \in [Proc -> Nat]
    BY <2>2 DEF TypeOK
  <2> QED BY <1>1, <2>1, <2>3 DEF TypeOK
<1>7. WireInv'
  BY <1>1, <1>2, <1>4 DEF WireInv, Registered
<1>8. EntryInv'
  <2>1. ~ Fresh(p)
    BY <1>1 DEF Fresh
  <2>2. \A q \in Proc : Fresh(q) => Fresh(q)'
    BY <1>1, <1>2, <1>4, <2>1 DEF Fresh
  <2>3. \A q \in Proc : Active(q)' => Active(q)
    BY <1>1 DEF Active
  <2> QED
    BY <1>1, <2>2, <2>3 DEF EntryInv, Registered, Committed
<1>9. \A q \in Proc : Base(q)' = Base(q) /\ Committed(q)' = Committed(q)
  BY <1>1 DEF Base, Committed
<1>10. WindowInv'
  <2>1. cursor'[p] <= Len(pending[p])
    BY <1>1, <1>2, <1>4
  <2>2. \A q \in Proc : cursor'[q] <= Len(pending[q])
    BY <1>4, <2>1 DEF WindowInv
  <2> QED BY <1>1, <1>9, <2>2 DEF WindowInv
<1>11. FlightInv'
  <2> HIDE DEF IInv
  <2>0. Len(up[c]) \in Nat /\ Len(up'[c]) = Len(up[c]) + 1
    BY <1>2, <1>5
  <2>1. \A d \in Conn : \A i \in 1..Len(up'[d]) :
          up'[d][i] >= 1 /\ up'[d][i] <= next_seq'[owner'[d]]
    <3>1. \A i \in 1..Len(up'[c]) : up'[c][i] >= 1 /\ up'[c][i] <= next_seq[p]
      <4> SUFFICES ASSUME NEW i \in 1..Len(up'[c])
                   PROVE  up'[c][i] >= 1 /\ up'[c][i] <= next_seq[p]
        OBVIOUS
      <4>1. CASE i = Len(up[c]) + 1
        BY <1>3, <1>5, <4>1
      <4>2. CASE i # Len(up[c]) + 1
        <5>1. i \in 1..Len(up[c])
          BY <1>2, <1>5, <4>2
        <5> QED BY <1>2, <1>5, <5>1 DEF FlightInv, IInv
      <4> QED BY <4>1, <4>2
    <3> QED BY <1>1, <1>2, <1>4, <3>1 DEF FlightInv, IInv
  <2>2. \A d \in Conn : d = entry.session => \A i \in 1..Len(up'[d]) :
          \/ up'[d][i] <= entry.last_seq + 1
          \/ i > 1 /\ up'[d][i] <= up'[d][i - 1] + 1
    <3>1. ASSUME c = entry.session, NEW i \in 1..Len(up'[c])
          PROVE  \/ up'[c][i] <= entry.last_seq + 1
                 \/ i > 1 /\ up'[c][i] <= up'[c][i - 1] + 1
      <4>1. CASE i = Len(up[c]) + 1
        <5>1. \/ Base(p) + cursor[p] <= entry.last_seq
              \/ up[c] # <<>> /\ Base(p) + cursor[p] <= up[c][Len(up[c])]
          BY <1>1, <3>1 DEF FlightInv, IInv
        <5>2. CASE Base(p) + cursor[p] <= entry.last_seq
          BY <1>2, <1>3, <1>5, <4>1, <5>2, PointTypes DEF IInv
        <5>3. CASE up[c] # <<>> /\ Base(p) + cursor[p] <= up[c][Len(up[c])]
          <6>1. Len(up[c]) >= 1 /\ up[c][Len(up[c])] \in Nat
            BY <1>2, <5>3, SMTT(30)
          <6>2. i > 1 /\ i - 1 = Len(up[c]) /\ i - 1 \in 1..Len(up[c])
            BY <2>0, <4>1, <6>1
          <6>3. up'[c][i - 1] = up[c][Len(up[c])] /\ up'[c][i] = m
            BY <1>5, <4>1, <6>2
          <6>4. m <= up[c][Len(up[c])] + 1
            BY <1>2, <1>3, <5>3, <6>1
          <6> QED BY <6>2, <6>3, <6>4
        <5> QED BY <5>1, <5>2, <5>3
      <4>2. CASE i # Len(up[c]) + 1
        <5>1. i \in 1..Len(up[c]) /\ (i > 1 => i - 1 \in 1..Len(up[c]))
          BY <2>0, <4>2
        <5> QED BY <1>2, <1>5, <3>1, <5>1 DEF FlightInv, IInv
      <4> QED BY <4>1, <4>2
    <3> QED BY <1>4, <3>1 DEF FlightInv, IInv
  <2>3. ASSUME NEW q \in Proc, q \in opened, cur[q] = entry.session
        PROVE  \/ Base(q) + cursor'[q] <= entry.last_seq
               \/ /\ up'[cur[q]] # <<>>
                  /\ Base(q) + cursor'[q] <= up'[cur[q]][Len(up'[cur[q]])]
    <3>1. CASE q = p
      <4>1. up'[c] # <<>> /\ up'[c][Len(up'[c])] = m
        BY <1>2, <1>5
      <4>2. Base(p) + cursor'[p] <= m
        BY <1>2, <1>3, <1>4
      <4> QED BY <3>1, <4>1, <4>2
    <3>2. CASE q # p
      <4>1. cur[q] # c /\ cur[q] \in Conn
        BY <1>2, <2>3, <3>2, PointTypes DEF SessionInv, IInv
      <4> QED BY <1>4, <2>3, <3>2, <4>1 DEF FlightInv, IInv
    <3> QED BY <3>1, <3>2
  <2> QED BY <1>1, <1>9, <2>1, <2>2, <2>3 DEF FlightInv, IInv
<1> QED
  BY <1>1, <1>6, <1>7, <1>8, <1>10, <1>11, SessionFrame, SuccessionFrame,
     AckFrame, OrderFrame, ApplyFrame, OnceFrame

\* A heartbeat carries no sequence number.
LEMMA SendHeartbeatPreserves ==
  ASSUME IInv, NEW p \in Proc, SendHeartbeat(p)
  PROVE  IInv'
<1> USE DEF IInv
<1>1. /\ UNCHANGED <<proc, next_seq, pending, cursor, cur, opened>>
      /\ UNCHANGED <<nconn, owner, up, down>>
      /\ UNCHANGED <<pump, hand, entry, admitted, applied>>
  BY DEF SendHeartbeat, agentVars, ctrlVars
<1>2. hb' \in SUBSET Conn
  BY PointTypes DEF SendHeartbeat, SessionInv, TypeOK
<1>3. TypeOK'
  BY <1>1, <1>2 DEF TypeOK
<1> QED
  BY <1>1, <1>3, WireFrame, SessionFrame, SuccessionFrame, EntryFrame,
     WindowFrame, AckFrame, FlightFrame, OrderFrame, ApplyFrame, OnceFrame

\* A process leaves its connection, whatever the reason.
LEMMA LeavePreserves ==
  ASSUME IInv, NEW p \in Proc,
         cur' = [cur EXCEPT ![p] = 0], opened' = opened \ {p},
         UNCHANGED <<proc, next_seq, pending, cursor, wireVars, ctrlVars>>
  PROVE  IInv'
<1> USE DEF IInv
<1>1. /\ UNCHANGED <<proc, next_seq, pending, cursor>>
      /\ UNCHANGED <<nconn, owner, up, hb, down>>
      /\ UNCHANGED <<pump, hand, entry, admitted, applied>>
  BY DEF wireVars, ctrlVars
<1>2. /\ \A q \in Proc : q # p => cur'[q] = cur[q]
      /\ cur'[p] = 0
  BY DEF TypeOK
<1>3. TypeOK'
  BY <1>1 DEF TypeOK
<1>4. SessionInv'
  BY <1>1, <1>2 DEF SessionInv, Registered
<1>5. EntryInv'
  <2>1. \A q \in Proc : (Fresh(q) => Fresh(q)') /\ (Active(q)' => Active(q))
    BY <1>1, <1>2 DEF Fresh, Active
  <2> QED BY <1>1, <2>1 DEF EntryInv, Registered, Committed
<1>6. FlightInv'
  BY <1>1, <1>2 DEF FlightInv, Base
<1> QED
  BY <1>1, <1>3, <1>4, <1>5, <1>6, WireFrame, SuccessionFrame, WindowFrame,
     AckFrame, OrderFrame, ApplyFrame, OnceFrame

\* Disconnect and SessionSuperseded only leave.
LEMMA DisconnectPreserves ==
  ASSUME IInv, NEW p \in Proc, Disconnect(p) \/ SessionSuperseded(p)
  PROVE  IInv'
BY LeavePreserves DEF Disconnect, SessionSuperseded

\* Uplink::ack on a contiguous window that starts after b: it retires at most
\* what the window holds and nothing beyond the acknowledged sequence.
LEMMA FreedBound ==
  ASSUME NEW q \in Seq(Nat), NEW b \in Nat, NEW n \in Nat,
         \A i \in 1..Len(q) : q[i] = b + i
  PROVE  /\ Freed(q, n) \in 0..Len(q)
         /\ Freed(q, n) > 0 => b + Freed(q, n) <= n
<1> DEFINE Good(k) == /\ \A i \in 1..k : q[i] <= n
                      /\ k < Len(q) => q[k + 1] > n
<1>0. Len(q) \in Nat
  OBVIOUS
<1>1. \E k \in 0..Len(q) : Good(k)
  <2>1. CASE n <= b
    <3>1. 0 \in 0..Len(q) /\ (0 < Len(q) => 1 \in 1..Len(q))
      BY <1>0
    <3>2. Good(0)
      BY <2>1, <3>1
    <3> QED BY <3>1, <3>2
  <2>2. CASE n > b /\ n <= b + Len(q)
    <3>1. n - b \in 0..Len(q)
      BY <1>0, <2>2
    <3>2. \A i \in 1..(n - b) : i \in 1..Len(q) /\ b + i <= n
      BY <1>0, <2>2
    <3>3. n - b < Len(q) => (n - b) + 1 \in 1..Len(q) /\ b + ((n - b) + 1) > n
      BY <1>0, <2>2
    <3>4. Good(n - b)
      BY <3>2, <3>3
    <3> QED BY <3>1, <3>4
  <2>3. CASE n > b + Len(q)
    <3>1. \A i \in 1..Len(q) : b + i <= n
      BY <1>0, <2>3
    <3>2. Good(Len(q)) /\ Len(q) \in 0..Len(q)
      BY <1>0, <3>1
    <3> QED BY <3>2
  <2> QED BY <1>0, <2>1, <2>2, <2>3
<1>2. Freed(q, n) = CHOOSE k \in 0..Len(q) : Good(k)
  BY DEF Freed
<1>3. Freed(q, n) \in 0..Len(q) /\ Good(Freed(q, n))
  BY <1>1, <1>2
<1> HIDE DEF Good
<1>4. ASSUME Freed(q, n) > 0 PROVE b + Freed(q, n) <= n
  <2>1. Freed(q, n) \in 1..Freed(q, n) /\ Freed(q, n) \in 1..Len(q)
    BY <1>0, <1>3, <1>4
  <2>2. q[Freed(q, n)] <= n
    BY <1>3, <2>1 DEF Good
  <2> QED BY <2>1, <2>2
<1> QED BY <1>3, <1>4

\* An acknowledgement retires only admitted messages and moves the writer's
\* position back by as many, or to the front of what remains.
LEMMA ReadAckPreserves ==
  ASSUME IInv, NEW p \in Proc, ReadAck(p)
  PROVE  IInv'
<1> USE DEF IInv
<1> DEFINE c == cur[p]
           n == Head(down[c]).seq
           f == IF n > next_seq[p] THEN 0 ELSE Freed(pending[p], n)
<1>1. /\ UNCHANGED <<proc, next_seq, cur, opened, nconn, owner, up, hb>>
      /\ UNCHANGED <<pump, hand, entry, admitted, applied>>
      /\ p \in opened /\ down[c] # <<>> /\ Head(down[c]).kind = "ack"
  BY DEF ReadAck, ctrlVars
<1>2. /\ c \in Conn /\ c # 0 /\ Registered(c)
      /\ owner[c] = p
  BY <1>1, PointTypes DEF SessionInv
<1>3. /\ down[c] \in Seq(Down) /\ Len(down[c]) \in Nat
      /\ pending[p] \in Seq(Nat) /\ Len(pending[p]) \in Nat
      /\ cursor[p] \in Nat /\ next_seq[p] \in Nat
      /\ Base(p) \in Nat /\ Committed(p) \in Nat
  BY <1>2, PointTypes, LenTypes, BaseTypes
<1>4. /\ Head(down[c]) \in Down /\ Tail(down[c]) \in Seq(Down)
      /\ Head(down[c]) = down[c][1] /\ 1 \in 1..Len(down[c])
      /\ Len(Tail(down[c])) = Len(down[c]) - 1
      /\ \A i \in 1..Len(Tail(down[c])) :
           i + 1 \in 1..Len(down[c]) /\ Tail(down[c])[i] = down[c][i + 1]
  BY <1>1, <1>3
<1>5. n \in Nat /\ n <= Committed(p)
  <2>1. n \in Nat
    BY <1>4 DEF Down
  <2>2. n <= Committed(owner[c])
    BY <1>1, <1>2, <1>4 DEF AckInv
  <2> QED BY <1>2, <2>1, <2>2
<1>6. f \in 0..Len(pending[p]) /\ (f > 0 => Base(p) + f <= n)
  <2>1. \A i \in 1..Len(pending[p]) : pending[p][i] = Base(p) + i
    BY DEF WindowInv
  <2>2. /\ Freed(pending[p], n) \in 0..Len(pending[p])
        /\ Freed(pending[p], n) > 0 => Base(p) + Freed(pending[p], n) <= n
    BY <1>3, <1>5, <2>1, FreedBound
  <2> QED BY <1>3, <2>2
<1>7. /\ pending' = [pending EXCEPT
                      ![p] = SubSeq(pending[p], f + 1, Len(pending[p]))]
      /\ cursor' = [cursor EXCEPT ![p] = IF cursor[p] > f THEN cursor[p] - f ELSE 0]
      /\ down' = [down EXCEPT ![c] = Tail(down[c])]
  BY DEF ReadAck, AckWindow
<1> HIDE DEF f, n
<1>8. /\ \A q \in Proc : q # p => pending'[q] = pending[q] /\ cursor'[q] = cursor[q]
      /\ pending'[p] = SubSeq(pending[p], f + 1, Len(pending[p]))
      /\ cursor'[p] = IF cursor[p] > f THEN cursor[p] - f ELSE 0
      /\ \A d \in Conn : d # c => down'[d] = down[d]
      /\ down'[c] = Tail(down[c])
  BY <1>2, <1>7 DEF TypeOK
<1>9. /\ pending'[p] \in Seq(Nat)
      /\ Len(pending'[p]) = Len(pending[p]) - f
      /\ \A i \in 1..(Len(pending[p]) - f) : pending'[p][i] = pending[p][f + i]
  BY <1>3, <1>6, <1>8, SuffixSeq
<1>10. cursor'[p] \in Nat /\ cursor'[p] <= Len(pending[p]) - f
  <2>1. cursor[p] <= Len(pending[p])
    BY DEF WindowInv
  <2>2. f \in Nat /\ f <= Len(pending[p]) /\ cursor[p] \in Nat
        /\ Len(pending[p]) \in Nat
    BY <1>3, <1>6
  <2>3. cursor'[p] = IF cursor[p] > f THEN cursor[p] - f ELSE 0
    BY <1>8
  <2> QED BY <2>1, <2>2, <2>3
<1>11. TypeOK'
  <2>1. pending' \in [Proc -> Seq(Nat)] /\ cursor' \in [Proc -> Nat]
        /\ down' \in [Conn -> Seq(Down)]
    BY <1>4, <1>7, <1>8, <1>9, <1>10 DEF TypeOK
  <2> QED BY <1>1, <2>1 DEF TypeOK
<1>12. Base(p)' = Base(p) + f /\ \A q \in Proc : q # p => Base(q)' = Base(q)
  BY <1>1, <1>3, <1>6, <1>8, <1>9, SMTT(30) DEF Base
<1>13. \A q \in Proc : Committed(q)' = Committed(q)
  BY <1>1 DEF Committed
<1>14. WireInv'
  BY <1>1, <1>2, <1>8 DEF WireInv, Registered
<1>15. EntryInv'
  <2>1. ~ Fresh(p)
    BY <1>1 DEF Fresh
  <2>2. \A q \in Proc : Fresh(q) => Fresh(q)'
    BY <1>1, <1>2, <1>8, <2>1 DEF Fresh
  <2>3. \A q \in Proc : Active(q)' => Active(q)
    BY <1>1 DEF Active
  <2> QED
    BY <1>1, <2>2, <2>3 DEF EntryInv, Registered, Committed
<1>16. WindowInv'
  <2>1. /\ Len(pending[p]) <= next_seq[p]
        /\ \A i \in 1..Len(pending[p]) : pending[p][i] = Base(p) + i
        /\ Base(p) <= Committed(p)
        /\ Committed(p) <= next_seq[p]
    BY DEF WindowInv
  <2>2. f \in Nat /\ f <= Len(pending[p])
    BY <1>3, <1>6
  <2>3. \A i \in 1..(Len(pending[p]) - f) :
          f + i \in 1..Len(pending[p]) /\ Base(p) + (f + i) = (Base(p) + f) + i
    BY <1>3, <2>2
  <2>4. \A i \in 1..Len(pending'[p]) : pending'[p][i] = Base(p)' + i
    BY <1>9, <1>12, <2>1, <2>3
  <2>5. Len(pending'[p]) <= next_seq[p] /\ Base(p)' <= Committed(p)
    BY <1>3, <1>5, <1>6, <1>9, <1>12, <2>1, <2>2
  <2>6. cursor'[p] <= Len(pending'[p])
    BY <1>9, <1>10
  <2>7. ASSUME NEW q \in Proc
        PROVE  /\ Len(pending'[q]) <= next_seq'[q]
               /\ \A i \in 1..Len(pending'[q]) : pending'[q][i] = Base(q)' + i
               /\ cursor'[q] <= Len(pending'[q])
               /\ Base(q)' <= Committed(q)'
               /\ Committed(q)' <= next_seq'[q]
    <3>1. CASE q = p
      BY <1>1, <1>13, <2>1, <2>4, <2>5, <2>6, <3>1
    <3>2. CASE q # p
      BY <1>1, <1>8, <1>12, <1>13, <3>2 DEF WindowInv
    <3> QED BY <3>1, <3>2
  <2> QED BY <2>7 DEF WindowInv
<1>17. AckInv'
  <2>1. \A i \in 1..Len(down'[c]) :
          down'[c][i].kind = "ack" => down'[c][i].seq <= Committed(owner[c])
    BY <1>2, <1>4, <1>8 DEF AckInv
  <2>2. \A d \in Conn : Committed(owner[d])' = Committed(owner[d])
    BY <1>1 DEF Committed
  <2>3. ASSUME NEW d \in Conn, NEW i \in 1..Len(down'[d]),
               down'[d][i].kind = "ack"
        PROVE  down'[d][i].seq <= Committed(owner[d])'
    <3>1. CASE d = c
      BY <2>1, <2>2, <2>3, <3>1
    <3>2. CASE d # c
      BY <1>8, <2>2, <2>3, <3>2 DEF AckInv
    <3> QED BY <3>1, <3>2
  <2> QED BY <2>3 DEF AckInv
<1>18. FlightInv'
  <2>1. cur[p] = entry.session => entry.last_seq = Committed(p)
    BY <1>2 DEF EntryInv
  <2>2. \/ Base(p)' + cursor'[p] = Base(p) + cursor[p]
        \/ Base(p)' + cursor'[p] <= Committed(p)
    <3>1. CASE cursor[p] > f
      BY <1>3, <1>6, <1>8, <1>12, <3>1
    <3>2. CASE ~ (cursor[p] > f)
      <4>1. cursor'[p] = 0 /\ Base(p)' = Base(p) + f
        BY <1>8, <1>12, <3>2
      <4>2. Base(p) + f <= Committed(p)
        <5>1. Base(p) <= Committed(p) /\ f \in Nat
          BY <1>3, <1>6 DEF WindowInv
        <5> QED BY <1>3, <1>5, <1>6, <5>1
      <4> QED BY <1>3, <1>6, <4>1, <4>2
    <3> QED BY <3>1, <3>2
  <2>3. ASSUME cur[p] = entry.session
        PROVE  \/ Base(p)' + cursor'[p] <= entry.last_seq
               \/ /\ up[c] # <<>>
                  /\ Base(p)' + cursor'[p] <= up[c][Len(up[c])]
    <3>1. \/ Base(p) + cursor[p] <= entry.last_seq
          \/ up[c] # <<>> /\ Base(p) + cursor[p] <= up[c][Len(up[c])]
      BY <1>1, <2>3 DEF FlightInv
    <3> QED BY <2>1, <2>2, <2>3, <3>1
  <2> QED BY <1>1, <1>8, <1>12, <2>3 DEF FlightInv
<1> QED
  BY <1>1, <1>11, <1>14, <1>15, <1>16, <1>17, <1>18, SessionFrame,
     SuccessionFrame, OrderFrame, ApplyFrame, OnceFrame

-----------------------------------------------------------------------------
(***************************************************************************)
(* The controller's steps.                                                 *)
(***************************************************************************)

\* What try_send may do to the downlinks: nothing, or append to one of them.
LEMMA TrySendEffect ==
  ASSUME TypeOK, NEW c \in Conn, NEW m \in Down, TrySend(c, m)
  PROVE  /\ down' \in [Conn -> Seq(Down)]
         /\ \A d \in Conn : d # c => down'[d] = down[d]
         /\ \A i \in 1..Len(down'[c]) :
              down'[c][i] = m \/ (i \in 1..Len(down[c]) /\ down'[c][i] = down[c][i])
<1>1. down[c] \in Seq(Down) /\ Append(down[c], m) \in Seq(Down)
  BY PointTypes
<1>2. CASE down' = down
  BY <1>2 DEF TypeOK
<1>3. CASE down' = [down EXCEPT ![c] = Append(down[c], m)]
  <2>1. /\ down'[c] = Append(down[c], m)
        /\ down' \in [Conn -> Seq(Down)]
        /\ \A d \in Conn : d # c => down'[d] = down[d]
    BY <1>1, <1>3 DEF TypeOK
  <2>2. \A i \in 1..Len(Append(down[c], m)) :
          \/ Append(down[c], m)[i] = m
          \/ i \in 1..Len(down[c]) /\ Append(down[c], m)[i] = down[c][i]
    BY <1>1
  <2> QED BY <2>1, <2>2
<1> QED BY <1>2, <1>3 DEF TrySend

\* A session task stops reading: admission is fenced, or the stream ended.
LEMMA PumpStopPreserves ==
  ASSUME IInv, NEW c \in Conn,
         pump[c] \in {"unread", "reading"}, cur[owner[c]] # c \/ pump[c] = "reading",
         pump' = [pump EXCEPT ![c] = "ended"],
         UNCHANGED <<agentVars, wireVars, hand, entry, admitted, applied>>
  PROVE  IInv'
<1> USE DEF IInv
<1>1. /\ UNCHANGED <<proc, next_seq, pending, cursor, cur, opened>>
      /\ UNCHANGED <<nconn, owner, up, hb, down>>
      /\ UNCHANGED <<hand, entry, admitted, applied>>
  BY DEF agentVars, wireVars
<1>2. /\ \A d \in Conn : d # c => pump'[d] = pump[d]
      /\ pump'[c] = "ended"
  BY DEF TypeOK
<1>3. TypeOK'
  BY <1>1 DEF TypeOK
<1>4. WireInv'
  BY <1>1, <1>2 DEF WireInv
<1>5. SessionInv'
  BY <1>1, <1>2, PointTypes DEF SessionInv, Registered
<1>6. \A q \in Proc : Active(q)' => Active(q)
  BY <1>1, <1>2 DEF Active
<1>7. SuccessionInv'
  BY <1>6 DEF SuccessionInv
<1>8. EntryInv'
  <2>1. \A q \in Proc : Fresh(q) => Fresh(q)'
    <3> SUFFICES ASSUME NEW q \in Proc, Fresh(q) PROVE Fresh(q)'
      OBVIOUS
    <3>1. cur[q] # 0 => cur[q] # c
      BY DEF Fresh, SessionInv
    <3>2. cur[q] # 0 => cur[q] \in Conn
      BY PointTypes
    <3> QED BY <1>1, <1>2, <3>1, <3>2 DEF Fresh
  <2> QED BY <1>1, <1>2, <1>6, <2>1, PointTypes DEF EntryInv, Registered, Committed
<1> QED
  BY <1>1, <1>3, <1>4, <1>5, <1>7, <1>8, WindowFrame, AckFrame, FlightFrame,
     OrderFrame, ApplyFrame, OnceFrame

\* LoseRegister, AdmitStale and PumpEnds only stop a session task.
LEMMA PumpEndsPreserves ==
  ASSUME IInv, NEW c \in Conn, LoseRegister(c) \/ AdmitStale(c) \/ PumpEnds(c)
  PROVE  IInv'
BY PumpStopPreserves DEF LoseRegister, AdmitStale, PumpEnds, Reading

\* A registration continues its own process's cursor, or starts a new
\* process's at 0 when every other process is gone.
LEMMA RegisterAgentPreserves ==
  ASSUME IInv, NEW c \in Conn, RegisterAgent(c)
  PROVE  IInv'
<1> USE DEF IInv
<1> DEFINE p == owner[c]
           o == entry.session
<1>1. /\ UNCHANGED <<proc, next_seq, pending, cursor, cur, opened>>
      /\ UNCHANGED <<nconn, owner, up, hb, hand, admitted, applied>>
      /\ pump[c] = "unread"
  BY DEF RegisterAgent, agentVars
<1>2. /\ \A d \in Conn : d # c => pump'[d] = pump[d]
      /\ pump'[c] = "reading" /\ pump' \in [Conn -> {"none", "unread", "reading", "ended"}]
  BY DEF RegisterAgent, TypeOK
<1>3. /\ p \in Proc /\ c <= nconn /\ proc[p] # "unborn"
      /\ up[c] = <<>> /\ down[c] = <<>> /\ hand[c] = 0
  BY <1>1, PointTypes DEF WireInv
<1>4. Active(p) /\ \A q \in Proc : q # p => ~ Active(q)
  BY <1>1, <1>3 DEF Active, SuccessionInv
<1>5. entry.incarnation # p => Fresh(p)
  BY <1>3, <1>4 DEF EntryInv
<1>6. /\ entry'.session = c /\ entry'.incarnation = p
      /\ entry'.last_seq = Committed(p)
      /\ entry' \in [session : Conn \cup {0}, incarnation : Proc \cup {NoProc},
                     last_seq : Nat]
  <2>1. Len(admitted[p]) \in Nat
    BY <1>3, LenTypes
  <2>2. (IF entry.incarnation = p THEN entry.last_seq ELSE 0) = Committed(p)
    <3>1. CASE entry.incarnation = p
      BY <1>3, <3>1, ProcAssumption DEF EntryInv
    <3>2. CASE entry.incarnation # p
      BY <1>5, <3>2 DEF Fresh, Committed
    <3> QED BY <3>1, <3>2
  <2>3. entry' = [session |-> c, incarnation |-> p, last_seq |-> Committed(p)]
    BY <2>2 DEF RegisterAgent
  <2> QED BY <1>3, <2>1, <2>3 DEF Committed
<1>7. /\ o # c
      /\ o # 0 => o \in Conn /\ Registered(o) /\ owner[o] = entry.incarnation
  BY <1>1, PointTypes DEF EntryInv, Registered
<1>8. /\ down' \in [Conn -> Seq(Down)]
      /\ \A d \in Conn : d # o => down'[d] = down[d]
      /\ o # 0 => \A i \in 1..Len(down'[o]) :
           \/ down'[o][i] = Superseded
           \/ i \in 1..Len(down[o]) /\ down'[o][i] = down[o][i]
  <2>1. Superseded \in Down
    BY DEF Superseded, Down
  <2>2. CASE o # 0
    <3>1. TrySend(o, Superseded)
      BY <2>2 DEF RegisterAgent
    <3> QED BY <1>7, <2>1, <2>2, <3>1, TrySendEffect
  <2>3. CASE o = 0
    BY <2>3 DEF RegisterAgent, TypeOK
  <2> QED BY <2>2, <2>3
<1>9. TypeOK'
  BY <1>1, <1>2, <1>6, <1>8 DEF TypeOK
<1>10. WireInv'
  <2>1. \A d \in Conn : pump'[d] \in {"none", "unread"} =>
          pump[d] \in {"none", "unread"} /\ down'[d] = down[d]
    <3>1. \A d \in Conn : d = o => o # 0
      BY PointTypes
    <3> QED BY <1>2, <1>7, <1>8, <3>1 DEF Registered
  <2>2. \A d \in Conn : pump'[d] = "none" <=> pump[d] = "none"
    BY <1>1, <1>2
  <2> QED BY <1>1, <2>1, <2>2 DEF WireInv
<1>11. SessionInv'
  BY <1>1, <1>2, PointTypes DEF SessionInv, Registered
<1>12. \A q \in Proc : Active(q)' => Active(q)
  BY <1>1, <1>2 DEF Active
<1>13. SuccessionInv'
  BY <1>12 DEF SuccessionInv
<1>14. EntryInv'
  <2>1. \A q \in Proc : q # p => Fresh(q)' \/ (proc'[q] = "dead" /\ ~ Active(q)')
    <3> SUFFICES ASSUME NEW q \in Proc, q # p
                 PROVE  Fresh(q)' \/ (proc[q] = "dead" /\ ~ Active(q))
      BY <1>1, <1>12
    <3>1. CASE q = entry.incarnation
      <4>1. proc[q] # "unborn" /\ proc[q] # "live"
        BY <1>4, <1>7, <3>1, ProcAssumption DEF EntryInv, WireInv, Active
      <4> QED BY <1>4, <4>1, PointTypes
    <3>2. CASE q # entry.incarnation /\ Fresh(q)
      <4>1. \A d \in Conn : owner[d] = q => d # c /\ d # o
        BY <1>7, <3>2, PointTypes
      <4>2. cur[q] # 0 => cur[q] \in Conn /\ cur[q] # c
        BY PointTypes DEF SessionInv
      <4>3. Fresh(q)'
        BY <1>1, <1>2, <1>8, <3>2, <4>1, <4>2 DEF Fresh
      <4> QED BY <4>3
    <3> QED BY <3>1, <3>2 DEF EntryInv
  <2>2. p # NoProc /\ c # 0 /\ Committed(p)' = Committed(p)
    BY <1>1, <1>3, PointTypes, ProcAssumption DEF Committed
  <2> QED BY <1>1, <1>2, <1>3, <1>6, <2>1, <2>2 DEF EntryInv, Registered
<1>15. AckInv'
  <2>1. \A d \in Conn : Committed(owner[d])' = Committed(owner[d])
    BY <1>1 DEF Committed
  <2>2. ASSUME NEW d \in Conn, NEW i \in 1..Len(down'[d]),
               down'[d][i].kind = "ack"
        PROVE  down'[d][i].seq <= Committed(owner[d])
    <3>1. CASE d = o
      <4>1. d # 0
        BY PointTypes
      <4>2. i \in 1..Len(down[o]) /\ down'[o][i] = down[o][i]
        BY <1>8, <2>2, <3>1, <4>1 DEF Superseded
      <4> QED BY <2>2, <3>1, <4>2 DEF AckInv
    <3>2. CASE d # o
      BY <1>8, <2>2, <3>2 DEF AckInv
    <3> QED BY <3>1, <3>2
  <2> QED BY <2>1, <2>2 DEF AckInv
<1>16. FlightInv'
  <2>1. \A q \in Proc : q \in opened => cur[q] # c
    BY <1>1 DEF SessionInv, Registered
  <2>2. \A i : i \notin 1..Len(up[c])
    BY <1>3
  <2> QED BY <1>1, <1>6, <2>1, <2>2 DEF FlightInv
<1> QED
  BY <1>1, <1>9, <1>10, <1>11, <1>13, <1>14, <1>15, <1>16, WindowFrame,
     OrderFrame, ApplyFrame, OnceFrame

\* Traffic on the live session, up or down, keeps the wire's and the entry's
\* invariants, and an acknowledgement of the cursor is never ahead of it.
LEMMA AckSentPreserves ==
  ASSUME IInv, NEW c \in Conn, pump[c] = "reading", entry.session = c,
         UNCHANGED <<proc, cur, opened, nconn, owner, pump, hand, entry, admitted,
                     applied>>,
         \A d \in Conn : d # c => up'[d] = up[d] /\ down'[d] = down[d],
         \A i \in 1..Len(down'[c]) :
           \/ down'[c][i] = Ack(entry.last_seq)
           \/ i \in 1..Len(down[c]) /\ down'[c][i] = down[c][i]
  PROVE  WireInv' /\ EntryInv' /\ AckInv'
<1> USE DEF IInv
<1>1. WireInv'
  BY DEF WireInv
<1>2. owner[c] = entry.incarnation /\ entry.last_seq = Committed(owner[c])
  BY PointTypes DEF EntryInv
<1>3. EntryInv'
  <2>1. \A q \in Proc : (Fresh(q) => Fresh(q)') /\ (Active(q)' => Active(q))
    BY DEF Fresh, Active
  <2> QED BY <2>1 DEF EntryInv, Registered, Committed
<1>4. AckInv'
  <2>1. \A d \in Conn : Committed(owner[d])' = Committed(owner[d])
    BY DEF Committed
  <2>2. ASSUME NEW d \in Conn, NEW i \in 1..Len(down'[d]),
               down'[d][i].kind = "ack"
        PROVE  down'[d][i].seq <= Committed(owner[d])
    <3>1. CASE d # c
      BY <2>2, <3>1 DEF AckInv
    <3>2. CASE d = c /\ down'[c][i] = Ack(entry.last_seq)
      BY <1>2, <3>2, PointTypes DEF Ack
    <3>3. CASE d = c /\ i \in 1..Len(down[c]) /\ down'[c][i] = down[c][i]
      BY <2>2, <3>3 DEF AckInv
    <3> QED BY <2>2, <3>1, <3>2, <3>3
  <2> QED BY <2>1, <2>2 DEF AckInv
<1> QED BY <1>1, <1>3, <1>4

\* Reading the head of the live session's stream leaves no gap behind it, if
\* the cursor does not fall behind that head.
LEMMA TakeHead ==
  ASSUME NEW s \in Seq(Nat), s # <<>>, NEW k \in Nat, NEW k2 \in Nat,
         k <= k2, Head(s) <= k2,
         \A i \in 1..Len(s) : s[i] <= k + 1 \/ (i > 1 /\ s[i] <= s[i - 1] + 1)
  PROVE  /\ Tail(s) \in Seq(Nat)
         /\ \A i \in 1..Len(Tail(s)) : i + 1 \in 1..Len(s) /\ Tail(s)[i] = s[i + 1]
         /\ \A i \in 1..Len(Tail(s)) :
              \/ Tail(s)[i] <= k2 + 1
              \/ i > 1 /\ Tail(s)[i] <= Tail(s)[i - 1] + 1
         /\ \A x \in Nat : x <= s[Len(s)] =>
              \/ x <= k2
              \/ Tail(s) # <<>> /\ x <= Tail(s)[Len(Tail(s))]
<1>1. /\ Tail(s) \in Seq(Nat) /\ Len(Tail(s)) = Len(s) - 1 /\ Len(s) \in Nat
      /\ Len(s) >= 1
      /\ Head(s) = s[1]
      /\ \A i \in 1..Len(Tail(s)) : Tail(s)[i] = s[i + 1]
  BY HeadTailProperties
<1>2. \A i \in 1..Len(Tail(s)) : i + 1 \in 1..Len(s) /\ s[i] \in Nat /\ s[i + 1] \in Nat
  BY <1>1
<1>3. ASSUME NEW i \in 1..Len(Tail(s))
      PROVE  \/ Tail(s)[i] <= k2 + 1
             \/ i > 1 /\ Tail(s)[i] <= Tail(s)[i - 1] + 1
  <2>1. s[i + 1] <= k + 1 \/ s[i + 1] <= s[(i + 1) - 1] + 1
    BY <1>2
  <2>2. (i + 1) - 1 = i /\ i \in Nat /\ i >= 1
    BY <1>1
  <2>3. CASE s[i + 1] <= k + 1
    BY <1>1, <1>2, <2>3
  <2>4. CASE s[i + 1] <= s[i] + 1 /\ i = 1
    BY <1>1, <1>2, <2>4
  <2>5. CASE s[i + 1] <= s[i] + 1 /\ i > 1
    <3>1. i - 1 \in 1..Len(Tail(s)) /\ (i - 1) + 1 = i
      BY <1>1, <2>2, <2>5
    <3>2. Tail(s)[i - 1] = s[i] /\ Tail(s)[i] = s[i + 1]
      BY <1>1, <3>1
    <3> QED BY <2>5, <3>2
  <2> QED BY <2>1, <2>2, <2>3, <2>4, <2>5
<1>4. ASSUME NEW x \in Nat, x <= s[Len(s)]
      PROVE  \/ x <= k2
             \/ Tail(s) # <<>> /\ x <= Tail(s)[Len(Tail(s))]
  <2>1. CASE Len(s) = 1
    <3>1. s[1] \in Nat /\ x <= s[1] /\ s[1] <= k2
      BY <1>1, <1>4, <2>1
    <3> QED BY <3>1
  <2>2. CASE Len(s) # 1
    <3>1. Len(Tail(s)) \in 1..Len(Tail(s)) /\ Len(Tail(s)) + 1 = Len(s)
      BY <1>1, <2>2
    <3>2. Tail(s)[Len(Tail(s))] = s[Len(s)]
      BY <1>1, <3>1
    <3>3. Len(Tail(s)) # 0
      BY <1>1, <2>2
    <3>4. Tail(s) # <<>>
      BY <1>1, <3>3, EmptySeq
    <3> QED BY <1>4, <3>2, <3>4
  <2> QED BY <2>1, <2>2
<1> QED BY <1>1, <1>2, <1>3, <1>4

\* Reading one message of the live session keeps FlightInv, provided the
\* cursor ends up at or past that message.
LEMMA TakePreserves ==
  ASSUME IInv, NEW c \in Conn, entry.session = c, up[c] # <<>>,
         up' = [up EXCEPT ![c] = Tail(up[c])],
         UNCHANGED <<next_seq, owner, opened, cur, pending, cursor>>,
         entry'.session = c, entry'.last_seq \in Nat,
         entry.last_seq <= entry'.last_seq, Head(up[c]) <= entry'.last_seq
  PROVE  up' \in [Conn -> Seq(Nat)] /\ FlightInv'
<1> USE DEF IInv
<1>1. up[c] \in Seq(Nat) /\ entry.last_seq \in Nat
  BY PointTypes
<1>2. \A i \in 1..Len(up[c]) :
        up[c][i] <= entry.last_seq + 1 \/ (i > 1 /\ up[c][i] <= up[c][i - 1] + 1)
  BY DEF FlightInv
<1>3. /\ Tail(up[c]) \in Seq(Nat)
      /\ \A i \in 1..Len(Tail(up[c])) :
           i + 1 \in 1..Len(up[c]) /\ Tail(up[c])[i] = up[c][i + 1]
      /\ \A i \in 1..Len(Tail(up[c])) :
           \/ Tail(up[c])[i] <= entry'.last_seq + 1
           \/ i > 1 /\ Tail(up[c])[i] <= Tail(up[c])[i - 1] + 1
      /\ \A x \in Nat : x <= up[c][Len(up[c])] =>
           \/ x <= entry'.last_seq
           \/ Tail(up[c]) # <<>> /\ x <= Tail(up[c])[Len(Tail(up[c]))]
  BY <1>1, <1>2, TakeHead
<1>4. /\ up' \in [Conn -> Seq(Nat)]
      /\ up'[c] = Tail(up[c]) /\ \A d \in Conn : d # c => up'[d] = up[d]
  BY <1>3 DEF TypeOK
<1>5. \A d \in Conn : \A i \in 1..Len(up'[d]) :
        up'[d][i] >= 1 /\ up'[d][i] <= next_seq[owner[d]]
  BY <1>3, <1>4 DEF FlightInv
<1>6. ASSUME NEW p \in Proc, p \in opened, cur[p] = c
      PROVE  \/ Base(p) + cursor[p] <= entry'.last_seq
             \/ /\ up'[c] # <<>>
                /\ Base(p) + cursor[p] <= up'[c][Len(up'[c])]
  <2>1. Base(p) + cursor[p] \in Nat
    BY PointTypes, BaseTypes, SMTT(30)
  <2>2. \/ Base(p) + cursor[p] <= entry.last_seq
        \/ Base(p) + cursor[p] <= up[c][Len(up[c])]
    BY <1>6 DEF FlightInv
  <2>3. CASE Base(p) + cursor[p] <= entry.last_seq
    BY <1>1, <2>1, <2>3
  <2>4. CASE Base(p) + cursor[p] <= up[c][Len(up[c])]
    BY <1>3, <1>4, <2>1, <2>4
  <2> QED BY <2>2, <2>3, <2>4
<1>7. \A p \in Proc : Base(p)' = Base(p)
  BY DEF Base
<1> QED BY <1>3, <1>4, <1>5, <1>6, <1>7 DEF FlightInv

\* Re-advertising the cursor acknowledges nothing new.
LEMMA AdmitHeartbeatPreserves ==
  ASSUME IInv, NEW c \in Conn, AdmitHeartbeat(c)
  PROVE  IInv'
<1> USE DEF IInv
<1>1. /\ UNCHANGED <<proc, next_seq, pending, cursor, cur, opened>>
      /\ UNCHANGED <<nconn, owner, up, pump, hand, entry, admitted, applied>>
      /\ pump[c] = "reading" /\ entry.session = c
  BY DEF AdmitHeartbeat, agentVars, ctrlVars, Reading
<1>2. hb' \in SUBSET Conn
  BY DEF AdmitHeartbeat, TypeOK
<1>3. /\ down' \in [Conn -> Seq(Down)]
      /\ \A d \in Conn : d # c => down'[d] = down[d]
      /\ \A i \in 1..Len(down'[c]) :
           \/ down'[c][i] = Ack(entry.last_seq)
           \/ i \in 1..Len(down[c]) /\ down'[c][i] = down[c][i]
  <2>1. Ack(entry.last_seq) \in Down
    BY PointTypes DEF Ack, Down
  <2>2. CASE TrySend(c, Ack(entry.last_seq))
    BY <2>1, <2>2, TrySendEffect
  <2>3. CASE down' = down
    BY <2>3 DEF TypeOK
  <2> QED BY <2>2, <2>3 DEF AdmitHeartbeat
<1>4. TypeOK'
  BY <1>1, <1>2, <1>3 DEF TypeOK
<1>5. WireInv' /\ EntryInv' /\ AckInv'
  BY <1>1, <1>3, AckSentPreserves
<1> QED
  BY <1>1, <1>4, <1>5, SessionFrame, SuccessionFrame, WindowFrame, FlightFrame,
     OrderFrame, ApplyFrame, OnceFrame

\* A replayed message is dropped and acknowledged again.
LEMMA AdmitDuplicatePreserves ==
  ASSUME IInv, NEW c \in Conn, AdmitDuplicate(c)
  PROVE  IInv'
<1> USE DEF IInv
<1>1. /\ UNCHANGED <<proc, next_seq, pending, cursor, cur, opened>>
      /\ UNCHANGED <<nconn, owner, hb, pump, hand, entry, admitted, applied>>
      /\ pump[c] = "reading" /\ entry.session = c
      /\ up[c] # <<>> /\ Head(up[c]) <= entry.last_seq
      /\ up' = [up EXCEPT ![c] = Tail(up[c])]
  BY DEF AdmitDuplicate, agentVars, ctrlVars, Reading
<1>2. /\ down' \in [Conn -> Seq(Down)]
      /\ \A d \in Conn : d # c => down'[d] = down[d]
      /\ \A i \in 1..Len(down'[c]) :
           \/ down'[c][i] = Ack(entry.last_seq)
           \/ i \in 1..Len(down[c]) /\ down'[c][i] = down[c][i]
  <2>1. Ack(entry.last_seq) \in Down
    BY PointTypes DEF Ack, Down
  <2>2. TrySend(c, Ack(entry.last_seq))
    BY DEF AdmitDuplicate
  <2> QED BY <2>1, <2>2, TrySendEffect
<1>3. up' \in [Conn -> Seq(Nat)] /\ FlightInv'
  <2>1. /\ entry'.session = c /\ entry'.last_seq \in Nat
        /\ entry.last_seq <= entry'.last_seq /\ Head(up[c]) <= entry'.last_seq
    BY <1>1, PointTypes
  <2> QED BY <1>1, <2>1, TakePreserves
<1>4. TypeOK'
  BY <1>1, <1>2, <1>3 DEF TypeOK
<1>5. WireInv' /\ EntryInv' /\ AckInv'
  BY <1>1, <1>2, AckSentPreserves
<1> QED
  BY <1>1, <1>3, <1>4, <1>5, SessionFrame, SuccessionFrame, WindowFrame,
     OrderFrame, ApplyFrame, OnceFrame

\* The head of the live session is the next message of its process: the
\* cursor moves by exactly one, and the message enters one task's hand.
LEMMA AdmitNewPreserves ==
  ASSUME IInv, NEW c \in Conn, AdmitNew(c)
  PROVE  IInv'
<1> USE DEF IInv
<1> DEFINE n == Head(up[c])
<1>0. PICK p \in Proc : p = owner[c]
  BY PointTypes DEF AdmitNew, Reading, WireInv
<1>1. /\ UNCHANGED <<proc, next_seq, pending, cursor, cur, opened>>
      /\ UNCHANGED <<nconn, owner, hb, pump, applied>>
      /\ pump[c] = "reading" /\ hand[c] = 0 /\ entry.session = c
      /\ up[c] # <<>> /\ n > entry.last_seq
      /\ up' = [up EXCEPT ![c] = Tail(up[c])]
      /\ entry' = [entry EXCEPT !.last_seq = n]
      /\ hand' = [hand EXCEPT ![c] = n]
      /\ admitted' = [admitted EXCEPT ![p] = Append(admitted[p], n)]
      /\ TrySend(c, Ack(n))
  BY <1>0 DEF AdmitNew, agentVars, Reading
<1>2. /\ p = owner[c] /\ p = entry.incarnation /\ p \in Proc /\ c <= nconn
      /\ entry.last_seq = Committed(p)
      /\ up[c] \in Seq(Nat) /\ admitted[p] \in Seq(Nat)
      /\ Committed(p) \in Nat
  BY <1>0, <1>1, PointTypes, BaseTypes DEF EntryInv, WireInv
<1>3. n \in Nat /\ n = up[c][1] /\ 1 \in 1..Len(up[c]) /\ n <= next_seq[p]
  <2>1. n \in Nat /\ n = up[c][1] /\ 1 \in 1..Len(up[c])
    BY <1>1, <1>2
  <2> QED BY <1>2, <2>1 DEF FlightInv
<1>4. n = Committed(p) + 1
  <2>1. up[c][1] <= entry.last_seq + 1
    BY <1>1, <1>3 DEF FlightInv
  <2> QED BY <1>1, <1>2, <1>3, <2>1
<1>5. /\ entry'.session = c /\ entry'.incarnation = p /\ entry'.last_seq = n
      /\ entry' \in [session : Conn \cup {0}, incarnation : Proc \cup {NoProc},
                     last_seq : Nat]
  BY <1>1, <1>2, <1>3 DEF TypeOK
<1>6. /\ admitted' \in [Proc -> Seq(Nat)]
      /\ admitted'[p] = Append(admitted[p], n)
      /\ \A q \in Proc : q # p => admitted'[q] = admitted[q]
  BY <1>1, <1>2, <1>3, SMTT(30) DEF TypeOK
<1>7. /\ Committed(p)' = n
      /\ \A q \in Proc : q # p => Committed(q)' = Committed(q)
      /\ \A i \in 1..Committed(p) : admitted'[p][i] = admitted[p][i]
      /\ admitted'[p][n] = n
  <2>1. /\ Len(Append(admitted[p], n)) = Len(admitted[p]) + 1
        /\ \A i \in 1..Len(admitted[p]) : Append(admitted[p], n)[i] = admitted[p][i]
        /\ Append(admitted[p], n)[Len(admitted[p]) + 1] = n
    BY <1>2, <1>3
  <2>2. Len(admitted[p]) + 1 = n
    BY <1>4 DEF Committed
  <2> QED BY <1>6, <2>1, <2>2 DEF Committed
<1>8. /\ hand' \in [Conn -> Nat] /\ hand'[c] = n
      /\ \A d \in Conn : d # c => hand'[d] = hand[d]
  BY <1>1, <1>3 DEF TypeOK
<1>9. /\ down' \in [Conn -> Seq(Down)]
      /\ \A d \in Conn : d # c => down'[d] = down[d]
      /\ \A i \in 1..Len(down'[c]) :
           down'[c][i] = Ack(n) \/ (i \in 1..Len(down[c]) /\ down'[c][i] = down[c][i])
  <2>1. Ack(n) \in Down
    BY <1>3 DEF Ack, Down
  <2> QED BY <1>1, <2>1, TrySendEffect
<1>10. up' \in [Conn -> Seq(Nat)] /\ FlightInv'
  <2>1. /\ entry'.last_seq \in Nat /\ entry.last_seq <= entry'.last_seq
        /\ Head(up[c]) <= entry'.last_seq
    BY <1>2, <1>3, <1>4, <1>5
  <2> QED BY <1>1, <1>5, <2>1, TakePreserves
<1>11. TypeOK'
  BY <1>1, <1>5, <1>6, <1>8, <1>9, <1>10 DEF TypeOK
<1>12. \A d \in Conn : d # c => up'[d] = up[d]
  BY <1>1 DEF TypeOK
<1>13. WireInv'
  BY <1>1, <1>8, <1>9, <1>12 DEF WireInv
<1>14. EntryInv'
  <2>1. \A q \in Proc : q # p => (Fresh(q) => Fresh(q)')
    <3> SUFFICES ASSUME NEW q \in Proc, q # p, Fresh(q) PROVE Fresh(q)'
      OBVIOUS
    <3>1. \A d \in Conn : owner[d] = q =>
            d # c /\ up'[d] = up[d] /\ down'[d] = down[d] /\ hand'[d] = hand[d]
      BY <1>2, <1>8, <1>9, <1>12
    <3>2. UNCHANGED <<opened, cur, pump, owner, applied>>
      BY <1>1
    <3>3. admitted'[q] = admitted[q]
      BY <1>6
    <3> QED BY <3>1, <3>2, <3>3 DEF Fresh
  <2>2. \A q \in Proc : Active(q)' => Active(q)
    BY <1>1 DEF Active
  <2>3. p # NoProc /\ c # 0
    BY <1>2, PointTypes, ProcAssumption
  <2> QED BY <1>1, <1>2, <1>5, <1>7, <2>1, <2>2, <2>3 DEF EntryInv, Registered
<1>15. WindowInv'
  <2>1. \A q \in Proc : Base(q)' = Base(q) /\ Base(q) \in Nat
    BY <1>1, BaseTypes DEF Base
  <2>2. Base(p) <= n
    BY <1>2, <1>4, <2>1 DEF WindowInv
  <2>3. \A q \in Proc : Base(q)' <= Committed(q)' /\ Committed(q)' <= next_seq[q]
    BY <1>2, <1>3, <1>7, <2>1, <2>2 DEF WindowInv
  <2> QED BY <1>1, <2>1, <2>3 DEF WindowInv
<1>16. AckInv'
  <2>0. Committed(owner[c])' = n
    BY <1>1, <1>2, <1>7 DEF Committed
  <2>1. \A d \in Conn : \A m \in Nat :
          m <= Committed(owner[d]) /\ owner[d] \in Proc => m <= Committed(owner[d])'
    BY <1>1, <1>2, <1>4, <1>7
  <2>2. ASSUME NEW d \in Conn, NEW i \in 1..Len(down'[d]),
               down'[d][i].kind = "ack"
        PROVE  down'[d][i].seq <= Committed(owner[d])'
    <3>1. CASE d = c /\ down'[c][i] = Ack(n)
      BY <1>3, <2>0, <3>1 DEF Ack
    <3>2. CASE i \in 1..Len(down[d]) /\ down'[d][i] = down[d][i]
      <4>1. down[d][i].seq <= Committed(owner[d]) /\ down[d][i] \in Down
        BY <2>2, <3>2, PointTypes DEF AckInv
      <4>2. owner[d] \in Proc
        <5>1. down[d] # <<>>
          BY <3>2
        <5>2. owner[d] # NoProc
          BY <5>1 DEF WireInv
        <5> QED BY <5>2, PointTypes
      <4> QED BY <2>1, <3>2, <4>1, <4>2 DEF Down
    <3> QED BY <1>9, <2>2, <3>1, <3>2
  <2> QED BY <2>2 DEF AckInv
<1>17. AdmittedInOrder'
  <2>1. ASSUME NEW q \in Proc, NEW i \in 1..Len(admitted'[q])
        PROVE  admitted'[q][i] = i
    <3>1. CASE q # p
      BY <1>6, <2>1, <3>1 DEF AdmittedInOrder
    <3>2. CASE q = p /\ i = n
      BY <1>7, <3>2
    <3>3. CASE q = p /\ i # n
      <4>1. i \in 1..Committed(p) /\ i \in 1..Len(admitted[p])
        <5>1. Len(admitted'[p]) = Committed(p) + 1 /\ Committed(p) \in Nat
          BY <1>2, <1>4, <1>7 DEF Committed
        <5>2. i \in 1..(Committed(p) + 1) /\ i # Committed(p) + 1
          BY <1>4, <2>1, <3>3, <5>1
        <5>3. i \in 1..Committed(p)
          BY <5>1, <5>2
        <5> QED BY <5>3 DEF Committed
      <4> QED BY <1>7, <3>3, <4>1 DEF AdmittedInOrder
    <3> QED BY <3>1, <3>2, <3>3
  <2> QED BY <2>1 DEF AdmittedInOrder
<1>18. ApplyInv'
  <2>1. ~ InSeq(n, applied[p]) /\ \A d \in Conn : owner[d] = p => hand[d] # n
    <3>1. \A i \in 1..Len(applied[p]) : applied[p][i] # n
      <4>1. \A i \in 1..Len(applied[p]) :
              applied[p][i] \in Nat /\ applied[p][i] <= Committed(p)
        <5>1. applied[p] \in Seq(Nat)
          BY <1>2, PointTypes
        <5>2. \A i \in 1..Len(applied[p]) : applied[p][i] <= Committed(p)
          BY <1>2 DEF ApplyInv
        <5> QED BY <5>1, <5>2
      <4> QED BY <1>2, <1>4, <4>1
    <3>2. \A d \in Conn : owner[d] = p /\ hand[d] # 0 => hand[d] <= Committed(p)
      BY DEF ApplyInv
    <3>3. \A d \in Conn : hand[d] \in Nat
      BY PointTypes
    <3> QED BY <1>2, <1>4, <3>1, <3>2, <3>3 DEF InSeq
  <2>2. ASSUME NEW d \in Conn, hand'[d] # 0
        PROVE  /\ hand'[d] <= Committed(owner[d])'
               /\ ~ InSeq(hand'[d], applied[owner[d]])
    <3>1. CASE d = c
      <4>1. Committed(owner[d])' = n
        BY <1>1, <1>2, <1>7, <3>1 DEF Committed
      <4>2. hand'[d] = n /\ owner[d] = p
        BY <1>2, <1>8, <3>1
      <4>3. n <= n
        BY <1>3
      <4> QED BY <2>1, <4>1, <4>2, <4>3
    <3>2. CASE d # c
      <4>1. /\ hand[d] \in Nat /\ hand'[d] = hand[d] /\ owner[d] \in Proc
            /\ hand[d] <= Committed(owner[d])
            /\ ~ InSeq(hand[d], applied[owner[d]])
        BY <1>8, <2>2, <3>2, PointTypes DEF WireInv, ApplyInv
      <4> QED BY <1>1, <1>2, <1>4, <1>7, <4>1, SMTT(30)
    <3> QED BY <3>1, <3>2
  <2>3. \A d, e \in Conn :
          (hand'[d] # 0 /\ hand'[d] = hand'[e] /\ owner[d] = owner[e]) => d = e
    <3> SUFFICES ASSUME NEW d \in Conn, NEW e \in Conn, hand'[d] # 0,
                        hand'[d] = hand'[e], owner[d] = owner[e], d # e
                 PROVE  FALSE
      OBVIOUS
    <3>1. CASE d # c /\ e # c
      BY <1>8, <3>1 DEF ApplyInv
    <3>2. CASE d = c /\ e # c
      BY <1>2, <1>8, <2>1, <3>2
    <3>3. CASE d # c /\ e = c
      BY <1>2, <1>8, <2>1, <3>3
    <3> QED BY <3>1, <3>2, <3>3
  <2>4. ASSUME NEW q \in Proc, NEW i \in 1..Len(applied[q])
        PROVE  applied[q][i] >= 1 /\ applied[q][i] <= Committed(q)'
    <3>1. applied[q] \in Seq(Nat)
      BY PointTypes
    <3>2. applied[q][i] \in Nat /\ applied[q][i] >= 1 /\ applied[q][i] <= Committed(q)
      BY <3>1 DEF ApplyInv
    <3>3. Committed(p) <= Committed(p)' /\ Committed(p)' \in Nat
      BY <1>2, <1>3, <1>4, <1>7
    <3>4. CASE q = p
      BY <1>2, <3>2, <3>3, <3>4
    <3>5. CASE q # p
      BY <1>7, <3>2, <3>5
    <3> QED BY <3>4, <3>5
  <2>5. ASSUME NEW q \in Proc, NEW m \in 1..Committed(q)', ~ InSeq(m, applied[q])
        PROVE  \E d \in Conn : owner[d] = q /\ hand'[d] = m
    <3>1. CASE q = p /\ m = n
      BY <1>2, <1>8, <3>1
    <3>2. CASE ~ (q = p /\ m = n)
      <4>1. m \in 1..Committed(q) /\ m # 0
        <5>1. CASE q # p
          <6>1. Committed(q) \in Nat /\ Committed(q)' = Committed(q)
            BY <1>7, <5>1, BaseTypes
          <6> QED BY <2>5, <6>1
        <5>2. CASE q = p
          <6>1. m \in 1..(Committed(p) + 1) /\ m # Committed(p) + 1
            BY <1>4, <1>7, <2>5, <3>2, <5>2
          <6> QED BY <1>2, <5>2, <6>1
        <5> QED BY <5>1, <5>2
      <4>2. PICK d \in Conn : owner[d] = q /\ hand[d] = m
        BY <2>5, <4>1 DEF ApplyInv
      <4>3. d # c
        BY <1>1, <4>1, <4>2
      <4> QED BY <1>8, <4>2, <4>3
    <3> QED BY <3>1, <3>2
  <2> QED BY <1>1, <2>2, <2>3, <2>4, <2>5 DEF ApplyInv
<1> QED
  BY <1>1, <1>10, <1>11, <1>13, <1>14, <1>15, <1>16, <1>17, <1>18, SessionFrame,
     SuccessionFrame, OnceFrame

\* Applying moves a message from its task's hand into the results.
LEMMA ApplyPreserves ==
  ASSUME IInv, NEW c \in Conn, Apply(c)
  PROVE  IInv'
<1> USE DEF IInv
<1> DEFINE n == hand[c]
<1>0. PICK p \in Proc : p = owner[c]
  BY PointTypes DEF Apply, WireInv
<1>1. /\ UNCHANGED <<proc, next_seq, pending, cursor, cur, opened>>
      /\ UNCHANGED <<nconn, owner, up, hb, down, pump, entry, admitted>>
      /\ n # 0
      /\ applied' = [applied EXCEPT ![p] = Append(applied[p], n)]
      /\ hand' = [hand EXCEPT ![c] = 0]
  BY <1>0 DEF Apply, agentVars, wireVars
<1>2. /\ n \in Nat /\ applied[p] \in Seq(Nat)
      /\ n <= Committed(p) /\ ~ InSeq(n, applied[p])
      /\ Committed(p) \in Nat /\ Len(applied[p]) \in Nat
  BY <1>0, <1>1, PointTypes, LenTypes, BaseTypes DEF ApplyInv
<1>3. /\ applied' \in [Proc -> Seq(Nat)]
      /\ applied'[p] = Append(applied[p], n)
      /\ \A q \in Proc : q # p => applied'[q] = applied[q]
  <2>1. Append(applied[p], n) \in Seq(Nat)
    BY <1>2
  <2> QED BY <1>1, <2>1 DEF TypeOK
<1>4. /\ Len(applied'[p]) = Len(applied[p]) + 1
      /\ \A i \in 1..Len(applied[p]) : applied'[p][i] = applied[p][i]
      /\ applied'[p][Len(applied[p]) + 1] = n
  BY <1>2, <1>3
<1>5. /\ hand' \in [Conn -> Nat] /\ hand'[c] = 0
      /\ \A d \in Conn : d # c => hand'[d] = hand[d]
  BY <1>1 DEF TypeOK
<1>6. TypeOK'
  BY <1>1, <1>3, <1>5 DEF TypeOK
<1>7. WireInv'
  BY <1>1, <1>5 DEF WireInv
<1>8. EntryInv'
  <2>1. ~ Fresh(p)
    BY <1>0, <1>1 DEF Fresh
  <2>2. ASSUME NEW q \in Proc, Fresh(q) PROVE Fresh(q)'
    <3>1. q # p /\ applied'[q] = applied[q]
      BY <1>3, <2>1, <2>2
    <3>2. \A d \in Conn : owner[d] = q => d # c /\ hand'[d] = hand[d]
      BY <1>0, <1>5, <3>1
    <3> QED BY <1>1, <2>2, <3>1, <3>2 DEF Fresh
  <2>3. \A q \in Proc : Active(q)' => Active(q)
    BY <1>1 DEF Active
  <2> QED BY <1>1, <2>2, <2>3 DEF EntryInv, Registered, Committed
<1>9. \A i \in 1..Len(applied'[p]) :
        i = Len(applied[p]) + 1 \/ i \in 1..Len(applied[p])
  BY <1>2, <1>4
<1>10. AppliedOnce'
  <2>1. ASSUME NEW q \in Proc, NEW i \in 1..Len(applied'[q]),
               NEW j \in 1..Len(applied'[q]), i # j
        PROVE  applied'[q][i] # applied'[q][j]
    <3>1. CASE q # p
      BY <1>3, <2>1, <3>1, SMTT(30) DEF AppliedOnce
    <3>2. CASE q = p
      <4>1. \A k \in 1..Len(applied[p]) : applied[p][k] # n
        BY <1>2 DEF InSeq
      <4>2. CASE i \in 1..Len(applied[p]) /\ j \in 1..Len(applied[p])
        BY <1>4, <2>1, <3>2, <4>2 DEF AppliedOnce
      <4>3. CASE i = Len(applied[p]) + 1 /\ j \in 1..Len(applied[p])
        BY <1>4, <3>2, <4>1, <4>3
      <4>4. CASE j = Len(applied[p]) + 1 /\ i \in 1..Len(applied[p])
        BY <1>4, <3>2, <4>1, <4>4
      <4> QED BY <1>9, <2>1, <3>2, <4>2, <4>3, <4>4
    <3> QED BY <3>1, <3>2
  <2> QED BY <2>1 DEF AppliedOnce
<1>11. ApplyInv'
  <2>1. \A q \in Proc : Committed(q)' = Committed(q)
    BY <1>1 DEF Committed
  <2>2. \A q \in Proc, m \in Nat :
          InSeq(m, applied'[q]) <=> InSeq(m, applied[q]) \/ (q = p /\ m = n)
    <3>1. \A m \in Nat : InSeq(m, applied'[p]) <=> InSeq(m, applied[p]) \/ m = n
      <4>1. Len(applied[p]) + 1 \in 1..Len(applied'[p])
            /\ \A i \in 1..Len(applied[p]) : i \in 1..Len(applied'[p])
        BY <1>2, <1>4
      <4> QED BY <1>4, <1>9, <4>1 DEF InSeq
    <3> QED BY <1>3, <3>1
  <2>3. ASSUME NEW d \in Conn, hand'[d] # 0
        PROVE  /\ hand'[d] <= Committed(owner[d])'
               /\ ~ InSeq(hand'[d], applied'[owner[d]])
    <3>1. d # c /\ hand'[d] = hand[d] /\ hand[d] # 0 /\ hand[d] \in Nat
      BY <1>5, <2>3, PointTypes
    <3>2. owner[d] \in Proc
      <4>1. owner[d] # NoProc
        BY <3>1 DEF WireInv
      <4> QED BY <4>1, PointTypes
    <3>3. hand[d] <= Committed(owner[d]) /\ ~ InSeq(hand[d], applied[owner[d]])
      BY <3>1 DEF ApplyInv
    <3>4. ~ (owner[d] = p /\ hand[d] = n)
      BY <1>0, <3>1 DEF ApplyInv
    <3>5. Committed(owner[d])' = Committed(owner[d])
      BY <1>1 DEF Committed
    <3> QED BY <2>2, <3>1, <3>2, <3>3, <3>4, <3>5
  <2>4. \A d, e \in Conn :
          (hand'[d] # 0 /\ hand'[d] = hand'[e] /\ owner[d] = owner[e]) => d = e
    BY <1>5 DEF ApplyInv
  <2>5. ASSUME NEW q \in Proc, NEW i \in 1..Len(applied'[q])
        PROVE  applied'[q][i] >= 1 /\ applied'[q][i] <= Committed(q)
    <3>1. CASE q # p
      BY <1>3, <2>5, <3>1 DEF ApplyInv
    <3>2. CASE q = p /\ i \in 1..Len(applied[p])
      BY <1>4, <3>2 DEF ApplyInv
    <3>3. CASE q = p /\ i = Len(applied[p]) + 1
      BY <1>1, <1>2, <1>4, <3>3
    <3> QED BY <1>9, <2>5, <3>1, <3>2, <3>3
  <2>6. ASSUME NEW q \in Proc, NEW m \in 1..Committed(q), ~ InSeq(m, applied'[q])
        PROVE  \E d \in Conn : owner[d] = q /\ hand'[d] = m
    <3>1. m \in Nat /\ m # 0
      BY BaseTypes
    <3>2. ~ InSeq(m, applied[q]) /\ ~ (q = p /\ m = n)
      BY <2>2, <2>6, <3>1
    <3>3. PICK d \in Conn : owner[d] = q /\ hand[d] = m
      BY <3>2 DEF ApplyInv
    <3>4. d # c
      BY <1>0, <3>2, <3>3
    <3> QED BY <1>5, <3>3, <3>4
  <2> QED BY <1>1, <2>1, <2>3, <2>4, <2>5, <2>6 DEF ApplyInv
<1> QED
  BY <1>1, <1>6, <1>7, <1>8, <1>10, <1>11, SessionFrame, SuccessionFrame,
     WindowFrame, AckFrame, FlightFrame, OrderFrame

-----------------------------------------------------------------------------
(***************************************************************************)
(* The theorems.                                                           *)
(***************************************************************************)

\* Before anything happens nothing is queued, in flight, admitted or applied.
LEMMA InitIInv == Init => IInv
<1> SUFFICES ASSUME Init PROVE IInv
  OBVIOUS
<1> USE DEF Init
<1>1. TypeOK
  BY BoundAssumption DEF TypeOK, Conn
<1>2. \A c \in Conn : c > nconn /\ c # 0
  BY BoundAssumption DEF Conn
<1>3. WireInv
  BY <1>2 DEF WireInv
<1>4. SessionInv /\ SuccessionInv
  BY DEF SessionInv, SuccessionInv, Active
<1>5. EntryInv
  BY DEF EntryInv, Fresh
<1>6. \A p \in Proc : Base(p) = 0 /\ Committed(p) = 0
  BY DEF Base, Committed
<1>7. WindowInv
  BY <1>6 DEF WindowInv
<1>8. AckInv
  BY DEF AckInv
<1>9. FlightInv
  BY DEF FlightInv
<1>10. AdmittedInOrder /\ AppliedOnce
  BY DEF AdmittedInOrder, AppliedOnce
<1>11. ApplyInv
  BY <1>6 DEF ApplyInv
<1> QED BY <1>1, <1>3, <1>4, <1>5, <1>7, <1>8, <1>9, <1>10, <1>11 DEF IInv

\* Every step of either side preserves the invariant.
LEMMA NextIInv == IInv /\ [Next]_vars => IInv'
<1> SUFFICES ASSUME IInv, [Next]_vars PROVE IInv'
  OBVIOUS
<1>1. CASE UNCHANGED vars
  <2>1. TypeOK'
    BY <1>1 DEF IInv, TypeOK, vars, agentVars, wireVars, ctrlVars
  <2> QED
    BY <1>1, <2>1, WireFrame, SessionFrame, SuccessionFrame, EntryFrame,
       WindowFrame, AckFrame, FlightFrame, OrderFrame, ApplyFrame, OnceFrame
       DEF IInv, vars, agentVars, wireVars, ctrlVars
<1>2. ASSUME NEW p \in Proc, Start(p) \/ AgentStep(p) PROVE IInv'
  BY <1>2, StartPreserves, CrashPreserves, PushPreserves, ConnectPreserves,
     SessionOpenedPreserves, WriteNextPreserves, SendHeartbeatPreserves,
     ReadAckPreserves, DisconnectPreserves
     DEF AgentStep
<1>3. ASSUME NEW c \in Conn, ControllerStep(c) PROVE IInv'
  BY <1>3, RegisterAgentPreserves, PumpEndsPreserves, AdmitHeartbeatPreserves,
     AdmitDuplicatePreserves, AdmitNewPreserves, ApplyPreserves
     DEF ControllerStep
<1> QED BY <1>1, <1>2, <1>3 DEF Next

\* The inductive invariant holds throughout.
THEOREM Invariance == Spec => []IInv
BY InitIInv, NextIInv, PTL DEF Spec

\* Type correctness of the window, the wire and the agents table, including
\* that an acknowledgement never cuts a window beyond its end.
THEOREM TypeCorrect == Spec => []TypeOK
<1>1. IInv => TypeOK
  BY DEF IInv
<1> QED BY <1>1, Invariance, PTL

\* Inner::admit lets a process's messages through in order, none skipped and
\* none repeated, whatever replays, reconnects and restarts do.
THEOREM GaplessAdmission == Spec => []AdmittedInOrder
<1>1. IInv => AdmittedInOrder
  BY DEF IInv
<1> QED BY <1>1, Invariance, PTL

\* No metric delta or run event is applied twice.
THEOREM NoDoubleApply == Spec => []AppliedOnce
<1>1. IInv => AppliedOnce
  BY DEF IInv
<1> QED BY <1>1, Invariance, PTL

\* The gap Inner::admit warns about cannot arise while the controller lives.
THEOREM NoGap == Spec => []GapImpossible
<1>1. IInv => GapImpossible
  <2> SUFFICES ASSUME IInv, NEW c \in Conn, entry.session = c, up[c] # <<>>
               PROVE  Head(up[c]) <= entry.last_seq + 1
    BY DEF GapImpossible
  <2>1. up[c] \in Seq(Nat)
    BY PointTypes DEF IInv
  <2>2. 1 \in 1..Len(up[c]) /\ Head(up[c]) = up[c][1]
    BY <2>1
  <2> QED BY <2>2 DEF IInv, FlightInv
<1> QED BY <1>1, Invariance, PTL

\* An acknowledgement never retires a message the controller will not apply.
THEOREM NoLoss == Spec => []NothingLost
<1>1. IInv => NothingLost
  <2> SUFFICES ASSUME IInv, NEW p \in Proc, NEW n \in 1..next_seq[p]
               PROVE  \/ InSeq(n, pending[p])
                      \/ InSeq(n, applied[p])
                      \/ \E c \in Conn : owner[c] = p /\ hand[c] = n
    BY DEF NothingLost
  <2> USE DEF IInv
  <2>1. /\ next_seq[p] \in Nat /\ Len(pending[p]) \in Nat /\ Base(p) \in Nat
        /\ Committed(p) \in Nat
    BY PointTypes, LenTypes, BaseTypes
  <2>2. CASE n <= Base(p)
    <3>1. n \in 1..Committed(p)
      <4>1. Base(p) <= Committed(p)
        BY DEF WindowInv
      <4> QED BY <2>1, <2>2, <4>1
    <3> QED BY <3>1 DEF ApplyInv
  <2>3. CASE n > Base(p)
    <3>1. n - Base(p) \in 1..Len(pending[p]) /\ Base(p) + (n - Base(p)) = n
      <4>1. Base(p) + Len(pending[p]) = next_seq[p]
        BY <2>1 DEF Base
      <4> QED BY <2>1, <2>3, <4>1
    <3>2. pending[p][n - Base(p)] = n
      BY <3>1 DEF WindowInv
    <3> QED BY <3>1, <3>2 DEF InSeq
  <2> QED BY <2>1, <2>2, <2>3
<1> QED BY <1>1, Invariance, PTL

-----------------------------------------------------------------------------
(***************************************************************************)
(* UplinkDelivery implements EffectivelyOnce.  Four of its steps are steps  *)
(* of the abstract system (Push queues, AdmitNew commits, Apply applies,    *)
(* ReadAck forgets); every other one is invisible to it.                   *)
(***************************************************************************)

\* Uplink::push is Queue: the front of the window does not move.
LEMMA PushQueues ==
  ASSUME IInv, NEW p \in Proc, Push(p)
  PROVE  Delivery!Queue(p)
<1> USE DEF IInv
<1>1. /\ UNCHANGED <<admitted, applied>>
      /\ next_seq' = [next_seq EXCEPT ![p] = next_seq[p] + 1]
      /\ pending' = [pending EXCEPT ![p] = Append(pending[p], next_seq[p] + 1)]
  BY DEF Push, ctrlVars
<1>2. /\ next_seq[p] \in Nat /\ pending[p] \in Seq(Nat) /\ Len(pending[p]) \in Nat
  BY PointTypes, LenTypes
<1>3. Len(Append(pending[p], next_seq[p] + 1)) = Len(pending[p]) + 1
  BY <1>2
<1>4. /\ next_seq'[p] = next_seq[p] + 1 /\ Len(pending'[p]) = Len(pending[p]) + 1
      /\ \A q \in Proc : q # p => next_seq'[q] = next_seq[q] /\ pending'[q] = pending[q]
  BY <1>1, <1>3 DEF TypeOK
<1>5. \A q \in Proc : next_seq'[q] - Len(pending'[q]) = next_seq[q] - Len(pending[q])
  <2>1. next_seq'[p] - Len(pending'[p]) = next_seq[p] - Len(pending[p])
    BY <1>2, <1>4, SMTT(30)
  <2> QED BY <1>4, <2>1
<1> QED BY <1>1, <1>5 DEF Delivery!Queue

\* Inner::admit is Commit when it lets a message through.
LEMMA AdmitCommits ==
  ASSUME IInv, NEW c \in Conn, AdmitNew(c)
  PROVE  \E p \in Proc : Delivery!Commit(p)
<1> USE DEF IInv
<1>1. PICK p \in Proc : p = owner[c]
  BY PointTypes DEF AdmitNew, Reading, WireInv
<1>2. /\ UNCHANGED <<next_seq, pending, applied>>
      /\ admitted' = [admitted EXCEPT ![p] = Append(admitted[p], Head(up[c]))]
      /\ entry.session = c /\ up[c] # <<>> /\ Head(up[c]) > entry.last_seq
  BY <1>1 DEF AdmitNew, agentVars
<1>3. up[c] \in Seq(Nat) /\ admitted[p] \in Seq(Nat) /\ Len(admitted[p]) \in Nat
      /\ next_seq[p] \in Nat
  BY PointTypes, LenTypes
<1>4. Head(up[c]) \in Nat /\ Head(up[c]) = up[c][1] /\ 1 \in 1..Len(up[c])
  BY <1>2, <1>3
<1>5. Len(admitted[p]) < next_seq[p]
  <2>1. Head(up[c]) <= next_seq[p]
    BY <1>1, <1>4 DEF FlightInv
  <2>2. entry.last_seq = Len(admitted[p])
    BY <1>1, <1>2, PointTypes DEF EntryInv, Committed
  <2> QED BY <1>2, <1>3, <1>4, <2>1, <2>2
<1>6. /\ Len(admitted'[p]) = Len(admitted[p]) + 1
      /\ \A q \in Proc : q # p => admitted'[q] = admitted[q]
  <2>1. Len(Append(admitted[p], Head(up[c]))) = Len(admitted[p]) + 1
    BY <1>3, <1>4
  <2> QED BY <1>2, <2>1 DEF TypeOK
<1>7. [q \in Proc |-> Len(admitted'[q])] =
        [[q \in Proc |-> Len(admitted[q])] EXCEPT ![p] = Len(admitted[p]) + 1]
  BY <1>6
<1>8. Delivery!Commit(p)
  BY <1>2, <1>5, <1>7 DEF Delivery!Commit
<1> QED BY <1>8

\* Inner::apply_agent_message is ApplyOne: committed, and not applied before.
LEMMA ApplyApplies ==
  ASSUME IInv, NEW c \in Conn, Apply(c)
  PROVE  \E p \in Proc : Delivery!ApplyOne(p)
<1> USE DEF IInv
<1>1. PICK p \in Proc : p = owner[c]
  BY PointTypes DEF Apply, WireInv
<1>2. /\ UNCHANGED <<next_seq, pending, admitted>>
      /\ applied' = [applied EXCEPT ![p] = Append(applied[p], hand[c])]
      /\ hand[c] # 0
  BY <1>1 DEF Apply, agentVars
<1>3. /\ hand[c] \in 1..Len(admitted[p])
      /\ \A i \in 1..Len(applied[p]) : applied[p][i] # hand[c]
  <2>1. hand[c] \in Nat /\ Len(admitted[p]) \in Nat
    BY PointTypes, LenTypes
  <2>2. hand[c] <= Committed(p) /\ ~ InSeq(hand[c], applied[p])
    BY <1>1, <1>2 DEF ApplyInv
  <2> QED BY <1>2, <2>1, <2>2 DEF Committed, InSeq
<1>4. Delivery!ApplyOne(p)
  BY <1>2, <1>3 DEF Delivery!ApplyOne
<1> QED BY <1>4

\* Uplink::ack is Forget: what leaves the window has been committed.
LEMMA AckForgets ==
  ASSUME IInv, NEW p \in Proc, ReadAck(p)
  PROVE  Delivery!Forget(p)
<1>1. IInv'
  BY ReadAckPreserves
<1> USE DEF IInv
<1>2. UNCHANGED <<next_seq, admitted, applied>>
  BY DEF ReadAck, ctrlVars
<1>3. \A q \in Proc : q # p => pending'[q] = pending[q]
  BY DEF ReadAck, AckWindow, TypeOK
<1>4. Len(pending'[p]) \in Nat /\ Len(pending'[p]) <= Len(pending[p])
  <2> DEFINE c == cur[p]
             n == Head(down[c]).seq
             f == IF n > next_seq[p] THEN 0 ELSE Freed(pending[p], n)
  <2>1. /\ p \in opened /\ down[c] # <<>>
        /\ pending' = [pending EXCEPT
                        ![p] = SubSeq(pending[p], f + 1, Len(pending[p]))]
    BY DEF ReadAck, AckWindow
  <2>2. down[c] \in Seq(Down) /\ pending[p] \in Seq(Nat) /\ Base(p) \in Nat
        /\ Len(pending[p]) \in Nat
    BY <2>1, PointTypes, LenTypes, BaseTypes DEF SessionInv
  <2>3. n \in Nat
    <3>1. Head(down[c]) \in Down
      BY <2>1, <2>2
    <3> QED BY <3>1 DEF Down
  <2>4. \A i \in 1..Len(pending[p]) : pending[p][i] = Base(p) + i
    BY DEF WindowInv
  <2>5. f \in 0..Len(pending[p])
    <3>1. Freed(pending[p], n) \in 0..Len(pending[p])
      BY <2>2, <2>3, <2>4, FreedBound
    <3> QED BY <2>2, <3>1
  <2> HIDE DEF f
  <2>6. pending'[p] = SubSeq(pending[p], f + 1, Len(pending[p]))
    BY <2>1 DEF TypeOK
  <2>7. Len(SubSeq(pending[p], f + 1, Len(pending[p]))) = Len(pending[p]) - f
    BY <2>2, <2>5, SuffixSeq
  <2>8. f \in Nat /\ f <= Len(pending[p])
    BY <2>2, <2>5
  <2> QED BY <2>2, <2>6, <2>7, <2>8
<1> DEFINE k == next_seq[p] - Len(pending'[p])
<1>5. k \in (next_seq[p] - Len(pending[p]))..Len(admitted[p])
  <2>1. /\ next_seq[p] \in Nat /\ Len(pending[p]) \in Nat /\ Len(admitted[p]) \in Nat
        /\ Len(pending[p]) <= next_seq[p]
    BY PointTypes, LenTypes DEF WindowInv
  <2>2. next_seq[p] - Len(pending'[p]) <= Len(admitted[p])
    BY <1>1, <1>2 DEF WindowInv, Base, Committed
  <2> QED BY <1>4, <2>1, <2>2
<1>6. [q \in Proc |-> next_seq'[q] - Len(pending'[q])] =
        [[q \in Proc |-> next_seq[q] - Len(pending[q])] EXCEPT ![p] = k]
  BY <1>2, <1>3
<1> QED BY <1>2, <1>5, <1>6 DEF Delivery!Forget

\* A step that queues, admits, applies and retires nothing is a stutter.
LEMMA InvisibleStep ==
  ASSUME UNCHANGED <<next_seq, pending, admitted, applied>>
  PROVE  UNCHANGED Delivery!evars
BY DEF Delivery!evars

\* Every step is an abstract step or a stutter.
LEMMA StepRefines == IInv /\ [Next]_vars => [Delivery!ENext]_(Delivery!evars)
<1> SUFFICES ASSUME IInv, [Next]_vars PROVE [Delivery!ENext]_(Delivery!evars)
  OBVIOUS
<1>1. CASE UNCHANGED vars
  BY <1>1, InvisibleStep DEF vars, agentVars, ctrlVars
<1>2. ASSUME NEW p \in Proc, Start(p) \/ AgentStep(p)
      PROVE  [Delivery!ENext]_(Delivery!evars)
  <2>1. CASE Push(p)
    BY <2>1, PushQueues DEF Delivery!ENext
  <2>2. CASE ReadAck(p)
    BY <2>2, AckForgets DEF Delivery!ENext
  <2>3. CASE Start(p) \/ Crash(p) \/ Connect(p) \/ SessionOpened(p) \/ WriteNext(p)
    BY <2>3, InvisibleStep
       DEF Start, Launch, Crash, Connect, SessionOpened, WriteNext, ctrlVars
  <2>4. CASE SendHeartbeat(p) \/ SessionSuperseded(p) \/ Disconnect(p)
    BY <2>4, InvisibleStep
       DEF SendHeartbeat, SessionSuperseded, Disconnect, agentVars, ctrlVars
  <2> QED BY <1>2, <2>1, <2>2, <2>3, <2>4 DEF AgentStep
<1>3. ASSUME NEW c \in Conn, ControllerStep(c)
      PROVE  [Delivery!ENext]_(Delivery!evars)
  <2>1. CASE AdmitNew(c)
    BY <2>1, AdmitCommits DEF Delivery!ENext
  <2>2. CASE Apply(c)
    BY <2>2, ApplyApplies DEF Delivery!ENext
  <2>3. CASE RegisterAgent(c) \/ LoseRegister(c) \/ AdmitStale(c) \/ PumpEnds(c)
    BY <2>3, InvisibleStep
       DEF RegisterAgent, LoseRegister, AdmitStale, PumpEnds, agentVars
  <2>4. CASE AdmitHeartbeat(c) \/ AdmitDuplicate(c)
    BY <2>4, InvisibleStep DEF AdmitHeartbeat, AdmitDuplicate, agentVars, ctrlVars
  <2> QED BY <1>3, <2>1, <2>2, <2>3, <2>4 DEF ControllerStep
<1> QED BY <1>1, <1>2, <1>3 DEF Next

\* The initial states correspond.
LEMMA InitRefines == Init => Delivery!EInit
<1> SUFFICES ASSUME Init PROVE Delivery!EInit
  OBVIOUS
<1>1. \A p \in Proc : Len(admitted[p]) = 0 /\ next_seq[p] - Len(pending[p]) = 0
  BY DEF Init
<1>2. /\ [p \in Proc |-> Len(admitted[p])] = [s \in Proc |-> 0]
      /\ [p \in Proc |-> next_seq[p] - Len(pending[p])] = [s \in Proc |-> 0]
  BY <1>1
<1> QED BY <1>2 DEF Init, Delivery!EInit

\* Windows, replay, the session fence and cumulative acknowledgements deliver
\* every message effectively once, for any number of sessions and processes.
THEOREM ImplementsEffectivelyOnce == Spec => Implements
<1>1. Spec => Delivery!EInit /\ [][Delivery!ENext]_(Delivery!evars)
  BY InitRefines, StepRefines, Invariance, PTL DEF Spec
<1> QED BY <1>1 DEF Implements, Delivery!ESpec
=============================================================================
