-------------------------- MODULE CameraPageProofs --------------------------
(***************************************************************************)
(* Proofs about CameraPage, for every set of scenes.                       *)
(***************************************************************************)
EXTENDS CameraPage, SequenceTheorems, WellFoundedInduction, TLAPS

-----------------------------------------------------------------------------
(* Induction, as a statement about sets of naturals.                       *)

LEMMA Least ==
  ASSUME NEW S \in SUBSET Nat, S # {}
  PROVE  \E n \in S : \A m \in S : n <= m
<1> DEFINE R == OpToRel(<, Nat)
<1>1. IsWellFoundedOn(R, Nat)
  BY NatLessThanWellFounded
<1>2. \A m, n \in Nat : <<m, n>> \in R <=> m < n
  BY DEF OpToRel
<1> HIDE DEF R
<1>3. PICK n \in S : \A m \in S : ~(<<m, n>> \in R)
  BY <1>1, WFMin
<1>4. \A m \in S : ~(m < n)
  BY <1>2, <1>3
<1> QED
  BY <1>4

LEMMA InductiveSet ==
  ASSUME NEW S, 0 \in S, \A n \in Nat : n \in S => n + 1 \in S
  PROVE  Nat \subseteq S
<1> SUFFICES ASSUME Nat \ S # {} PROVE FALSE
  OBVIOUS
<1>1. PICK n \in Nat \ S : \A m \in Nat \ S : n <= m
  BY Least
<1>2. n # 0 /\ n - 1 \in Nat
  BY <1>1
<1> QED
  BY <1>1, <1>2

-----------------------------------------------------------------------------
(* What is left of a mailbox after a reload.                               *)

KeepStep(box, h, n) ==
  IF n = 0 THEN <<>>
  ELSE IF box[n].kind = "update" THEN Append(h[n - 1], box[n])
  ELSE h[n - 1]

(* The recursion of OnlyUpdates defines a function.                        *)
LEMMA KeptExists ==
  ASSUME NEW box, NEW n \in Nat
  PROVE  \E h : h = [i \in 0 .. n |-> KeepStep(box, h, i)]
<1> DEFINE Kept(h, m) == h = [i \in 0 .. m |-> KeepStep(box, h, i)]
           S == {m \in Nat : \E h : Kept(h, m)}
<1>1. 0 \in S
  <2> DEFINE h == [i \in 0 .. 0 |-> <<>>]
  <2>1. Kept(h, 0)
    BY DEF KeepStep
  <2> HIDE DEF h
  <2> QED
    BY <2>1
<1>2. ASSUME NEW m \in Nat, m \in S PROVE m + 1 \in S
  <2>1. PICK h : Kept(h, m)
    BY <1>2
  <2> DEFINE g == [i \in 0 .. m + 1 |->
                     IF i = m + 1 THEN KeepStep(box, h, i) ELSE h[i]]
  <2>2. ASSUME NEW i \in 0 .. m + 1 PROVE g[i] = KeepStep(box, g, i)
    <3>1. i = 0 \/ (i - 1 \in 0 .. m /\ i - 1 # m + 1 /\ i - 1 \in 0 .. m + 1)
      OBVIOUS
    <3>2. i # 0 => g[i - 1] = h[i - 1]
      BY <3>1
    <3>3. g[i] = KeepStep(box, h, i)
      <4>1. CASE i = m + 1
        BY <4>1
      <4>2. CASE i # m + 1
        <5>1. i \in 0 .. m
          BY <4>2
        <5>2. h[i] = KeepStep(box, h, i)
          BY <2>1, <5>1
        <5> QED
          BY <4>2, <5>2
      <4> QED
        BY <4>1, <4>2
    <3> HIDE DEF g
    <3> QED
      BY <3>2, <3>3 DEF KeepStep
  <2>3. Kept(g, m + 1)
    <3>1. g = [i \in 0 .. m + 1 |-> g[i]]
      OBVIOUS
    <3> HIDE DEF g
    <3> QED
      BY <2>2, <3>1
  <2> HIDE DEF g
  <2> QED
    BY <2>3
<1>3. n \in S
  BY <1>1, <1>2, InductiveSet
<1> QED
  BY <1>3

(* Nothing but updates that were there before.                             *)
LEMMA Kept ==
  ASSUME NEW M, NEW box \in Seq(M)
  PROVE  OnlyUpdates(box) \in Seq({m \in M : m.kind = "update"})
<1> DEFINE kept == CHOOSE h : h = [i \in 0 .. Len(box) |-> KeepStep(box, h, i)]
           U == {m \in M : m.kind = "update"}
           S == {n \in Nat : n <= Len(box) => kept[n] \in Seq(U)}
<1>1. OnlyUpdates(box) = kept[Len(box)]
  BY DEF OnlyUpdates, KeepStep
<1>2. Len(box) \in Nat
  OBVIOUS
<1>3. kept = [i \in 0 .. Len(box) |-> KeepStep(box, kept, i)]
  BY <1>2, KeptExists
<1> HIDE DEF kept
<1>4. \A i \in 0 .. Len(box) : kept[i] = KeepStep(box, kept, i)
  BY <1>3
<1>5. 0 \in S
  <2>1. kept[0] = <<>>
    BY <1>2, <1>4 DEF KeepStep
  <2>2. <<>> \in Seq(U)
    BY EmptySeq
  <2> HIDE DEF U
  <2> QED
    BY <2>1, <2>2
<1>6. ASSUME NEW n \in Nat, n \in S PROVE n + 1 \in S
  <2> SUFFICES ASSUME n + 1 <= Len(box) PROVE kept[n + 1] \in Seq(U)
    OBVIOUS
  <2>1. /\ n + 1 \in 0 .. Len(box) /\ n + 1 # 0 /\ n + 1 - 1 = n
        /\ n <= Len(box) /\ box[n + 1] \in M
    BY <1>2
  <2>2. kept[n] \in Seq(U)
    BY <1>6, <2>1
  <2>3. kept[n + 1] = IF box[n + 1].kind = "update"
                        THEN Append(kept[n], box[n + 1]) ELSE kept[n]
    BY <1>4, <2>1 DEF KeepStep
  <2>4. box[n + 1].kind = "update" => box[n + 1] \in U
    BY <2>1
  <2> HIDE DEF U
  <2> QED
    BY <2>2, <2>3, <2>4, AppendProperties
<1>7. Len(box) \in S
  BY <1>2, <1>5, <1>6, InductiveSet
<1> QED
  BY <1>1, <1>7, <1>2

-----------------------------------------------------------------------------

(* With the results of a post there are detections only if they are the    *)
(* last results, too.                                                      *)
Consistent(c) == c.results \notin {Nil, Empty} => c.last = c.results

(* What is consistent in the process is so on its way to the page, at every*)
(* moment it may be answered or shown.                                     *)
ConsistentInv == Consistent(state) /\ Consistent(got) /\ Consistent(page)

LEMMA BlankConsistent == Consistent(NoState) /\ Consistent(NoResults)
BY DEF Consistent, NoState, NoResults

LEMMA ConsistentStep == ConsistentInv /\ [Next]_vars => ConsistentInv'
<1> SUFFICES ASSUME ConsistentInv, [Next]_vars PROVE ConsistentInv'
  OBVIOUS
<1> USE DEF ConsistentInv
<1>1. CASE \/ SceneChanges \/ Post \/ Restart \/ FetchUpdate \/ GetFrame
           \/ Play \/ LoadEvent \/ LateLoadEvent \/ UNCHANGED vars
  <2>1. UNCHANGED <<state, got, page>>
    BY <1>1 DEF SceneChanges, Post, Restart, FetchUpdate, GetFrame,
                Play, AskFrame, NoFrame, SendChunk, LoadEvent, LateLoadEvent,
                CameraState, Page, vars
  <2> QED
    BY <2>1
<1>2. ASSUME NEW s \in Scenes, Update(s)
      PROVE  ConsistentInv'
  <2>1. Consistent(state')
    BY <1>2 DEF Update, LastResults, Consistent
  <2>2. UNCHANGED <<got, page>>
    BY <1>2 DEF Update, Page
  <2> QED
    BY <2>1, <2>2
<1>3. CASE Get
  <2>1. got' = state /\ UNCHANGED <<state, page>>
    BY <1>3 DEF Get
  <2> QED
    BY <2>1
<1>4. CASE ShowState
  <2>1. /\ page' = [results |-> got.results, last |-> got.last]
        /\ got' = NoState /\ UNCHANGED state
    BY <1>4 DEF ShowState, CameraState
  <2>2. Consistent(page')
    BY <2>1 DEF Consistent
  <2> QED
    BY <2>1, <2>2, BlankConsistent
<1>5. CASE Crash
  <2>1. state' = NoState /\ UNCHANGED <<got, page>>
    BY <1>5 DEF Crash
  <2> QED
    BY <2>1, BlankConsistent
<1>6. CASE Rejoin \/ Reload
  <2>1. got' = NoState /\ page' = NoResults /\ UNCHANGED state
    BY <1>6 DEF Rejoin, Reload, Mount, CameraState
  <2> QED
    BY <2>1, BlankConsistent
<1> QED
  BY <1>1, <1>2, <1>3, <1>4, <1>5, <1>6 DEF Next, Serve, Live

(* The page never shows detections without showing them as the last ones,  *)
(* for every order of posts, requests, crashes and joins.                  *)
THEOREM Consistently == Spec => []PageConsistent
<1>1. Init => ConsistentInv
  BY BlankConsistent DEF Init, ConsistentInv
<1>2. ConsistentInv => PageConsistent
  BY DEF ConsistentInv, Consistent, PageConsistent
<1> QED
  BY <1>1, <1>2, ConsistentStep, PTL DEF Spec

-----------------------------------------------------------------------------
(* Types.                                                                  *)

Messages == {Cast(s) : s \in Scenes} \cup {Request(call) : call \in {"get", "get_frame"}}

LEMMA ScenePart ==
  ASSUME NEW s \in Scenes
  PROVE  s.frame \in Frames /\ s.results \in Results
BY DEF Frames, Results

LEMMA MessageFacts ==
  /\ \A s \in Scenes : Cast(s) \in Messages /\ Cast(s).kind = "update" /\ Cast(s).post = s
  /\ \A call \in {"get", "get_frame"} :
       Request(call) \in Messages /\ Request(call).kind = call
BY DEF Messages, Cast, Request

LEMMA Delivered ==
  ASSUME mailbox \in Seq(Messages), NEW m, Receive(m)
  PROVE  mailbox' \in Seq(Messages)
BY DEF Receive

LEMMA BlankTypes ==
  /\ NoState \in States
  /\ NoResults \in [results : Results \cup {Nil}, last : (Results \ {Empty}) \cup {Nil}]
  /\ NoPicture \in [frame : Frames, boxes : Results \cup {Empty}] \cup {NoPicture}
BY DEF NoState, NoResults, NoPicture, States

LEMMA TypeStep == TypeOK /\ [Next]_vars => TypeOK'
<1> SUFFICES ASSUME TypeOK, [Next]_vars PROVE TypeOK'
  OBVIOUS
<1> DEFINE Shown == [results : Results \cup {Nil}, last : (Results \ {Empty}) \cup {Nil}]
<1>t. /\ mailbox \in Seq(Messages)
      /\ state \in States /\ got \in States /\ page \in Shown
  BY DEF TypeOK, Messages
<1>m. ASSUME mailbox' \in Seq(Messages)
      PROVE  mailbox' \in Seq({Cast(s) : s \in Scenes}
                                 \cup {Request(call) : call \in {"get", "get_frame"}})
  BY <1>m DEF Messages
<1>1. CASE SceneChanges
  BY <1>1 DEF SceneChanges, TypeOK, CameraState, Page, Stream, Picture
<1>2. CASE Post
  <2>1. mailbox' \in Seq(Messages)
    BY <1>2, <1>t, MessageFacts DEF Post, TypeOK
  <2> QED
    BY <1>2, <1>m, <2>1 DEF Post, TypeOK, Page, Stream, Picture
<1>3. ASSUME NEW s \in Scenes, Update(s) PROVE TypeOK'
  <2>1. mailbox' \in Seq(Messages)
    BY <1>3, <1>t, Delivered DEF Update
  <2>2. state' \in States
    <3>1. state.last \in (Results \ {Empty}) \cup {Nil}
      BY <1>t DEF States
    <3>2. LastResults(s, state.last) \in (Results \ {Empty}) \cup {Nil}
      BY <3>1, ScenePart DEF LastResults
    <3> QED
      BY <1>3, <3>2, ScenePart DEF Update, States
  <2> QED
    BY <1>3, <1>m, <2>1, <2>2 DEF Update, TypeOK, Page, Stream, Picture
<1>4. CASE Get
  <2>1. mailbox' \in Seq(Messages)
    BY <1>4, <1>t, Delivered DEF Get
  <2> QED
    BY <1>4, <1>m, <2>1 DEF Get, TypeOK, Stream, Picture
<1>5. CASE GetFrame
  <2>1. mailbox' \in Seq(Messages)
    BY <1>5, <1>t, Delivered DEF GetFrame
  <2>2. stream' \in Frames \cup {Nil}
    BY <1>5, <1>t DEF GetFrame, States
  <2> QED
    BY <1>5, <1>m, <2>1, <2>2 DEF GetFrame, TypeOK, Page, Picture
<1>6. CASE Crash
  <2>1. mailbox' \in Seq(Messages)
    BY <1>6 DEF Crash
  <2> QED
    BY <1>6, <1>m, <2>1, BlankTypes DEF Crash, TypeOK, Picture
<1>7. CASE Restart
  BY <1>7 DEF Restart, TypeOK, Page, Stream, Picture
<1>8. CASE FetchUpdate
  <2>1. mailbox' \in Seq(Messages)
    BY <1>8, <1>t, MessageFacts DEF FetchUpdate
  <2> QED
    BY <1>8, <1>m, <2>1 DEF FetchUpdate, TypeOK, Stream, Picture
<1>9. CASE ShowState
  <2>1. page' \in Shown
    BY <1>9, <1>t DEF ShowState, States
  <2> QED
    BY <1>9, <2>1, BlankTypes DEF ShowState, TypeOK, CameraState, Stream, Picture
<1>10. CASE Rejoin
  BY <1>10, BlankTypes DEF Rejoin, Mount, TypeOK, CameraState, Stream, Picture
<1>11. CASE Reload
  <2>1. mailbox' \in Seq({m \in Messages : m.kind = "update"})
    BY <1>11, <1>t, Kept DEF Reload
  <2>2. mailbox' \in Seq(Messages)
    BY <2>1, SeqMonotonic
  <2> QED
    BY <1>11, <1>m, <2>2, BlankTypes DEF Reload, Mount, TypeOK
<1>12. CASE AskFrame
  <2>1. mailbox' \in Seq(Messages)
    BY <1>12, <1>t, MessageFacts DEF AskFrame
  <2> QED
    BY <1>12, <1>m, <2>1 DEF AskFrame, TypeOK, Page, Picture
<1>13. CASE NoFrame
  BY <1>13 DEF NoFrame, TypeOK, CameraState, Page, Picture
<1>14. CASE SendChunk
  BY <1>14 DEF SendChunk, TypeOK, CameraState, Page
<1>15. CASE LoadEvent
  <2>1. Detections \in Results \cup {Empty}
    BY <1>t DEF Detections
  <2>2. canvas' \in [frame : Frames, boxes : Results \cup {Empty}] \cup {NoPicture}
    BY <1>15, <2>1 DEF LoadEvent, TypeOK
  <2> QED
    BY <1>15, <2>2 DEF LoadEvent, TypeOK, CameraState, Page
<1>16. CASE LateLoadEvent
  BY <1>16 DEF LateLoadEvent, TypeOK, CameraState, Page
<1>17. CASE UNCHANGED vars
  BY <1>17 DEF vars, TypeOK
<1> QED
  BY <1>1, <1>2, <1>3, <1>4, <1>5, <1>6, <1>7, <1>8, <1>9, <1>10, <1>11, <1>12,
     <1>13, <1>14, <1>15, <1>16, <1>17 DEF Next, Serve, Live, Play

(* The variables keep their types.                                         *)
THEOREM TypeCorrect == Spec => []TypeOK
<1>1. Init => TypeOK
  <2> SUFFICES ASSUME Init PROVE TypeOK
    OBVIOUS
  <2>1. mailbox \in Seq({Cast(s) : s \in Scenes}
                          \cup {Request(call) : call \in {"get", "get_frame"}})
    <3>1. mailbox = <<>>
      BY DEF Init
    <3> QED
      BY <3>1, EmptySeq
  <2> QED
    BY <2>1, BlankTypes DEF Init, TypeOK
<1> QED
  BY <1>1, TypeStep, PTL DEF Spec

-----------------------------------------------------------------------------
(* Requests and those who wait for their answers.                          *)

Asking(call) == IF call = "get" THEN live = "asked" ELSE stream = "asked"

(* A process that has asked has one request waiting, one that has not has  *)
(* none: requests of a process that is gone are not answered to its        *)
(* successor.                                                              *)
OneRequest(call) ==
  IF Asking(call)
    THEN up /\ \E k \in DOMAIN mailbox : Waiting(call) = {k}
    ELSE Waiting(call) = {}

Calls == {"get", "get_frame"}

WaitInv == TypeOK /\ \A call \in Calls : OneRequest(call)

LEMMA MailboxType == TypeOK => mailbox \in Seq(Messages)
BY DEF TypeOK, Messages

(* A request at the end of the mailbox is the only one.                    *)
LEMMA AppendWaits ==
  ASSUME TypeOK, NEW m \in Messages, mailbox' = Append(mailbox, m), NEW call
  PROVE  /\ m.kind # call => Waiting(call)' = Waiting(call)
         /\ m.kind = call =>
              /\ Len(mailbox) + 1 \in DOMAIN mailbox'
              /\ Waiting(call)' = Waiting(call) \cup {Len(mailbox) + 1}
<1> DEFINE n == Len(mailbox)
<1>1. mailbox \in Seq(Messages) /\ n \in Nat
  BY MailboxType
<1>2. /\ Len(mailbox') = n + 1 /\ mailbox' \in Seq(Messages)
      /\ \A k \in 1 .. n : mailbox'[k] = mailbox[k]
      /\ mailbox'[n + 1] = m
  BY <1>1, AppendProperties
<1>3. DOMAIN mailbox = 1 .. n /\ DOMAIN mailbox' = 1 .. n + 1
  BY <1>1, <1>2
<1> HIDE DEF n
<1>4. \A k : k \in 1 .. n + 1 <=> k \in 1 .. n \/ k = n + 1
  BY <1>1
<1>5. n + 1 \notin 1 .. n
  BY <1>1
<1> QED
  BY <1>2, <1>3, <1>4, <1>5 DEF Waiting, n

(* Taking the first message moves the others up.                           *)
LEMMA TailWaits ==
  ASSUME TypeOK, NEW m, Receive(m), NEW call
  PROVE  /\ \A k : k \in Waiting(call)' <=> k \in Nat \ {0} /\ k + 1 \in Waiting(call)
         /\ 1 \in Waiting(call) <=> m.kind = call
<1> DEFINE n == Len(mailbox)
<1>1. /\ mailbox \in Seq(Messages) /\ n \in Nat \ {0}
      /\ mailbox' = Tail(mailbox) /\ mailbox[1] = m
  BY MailboxType DEF Receive
<1>2. /\ mailbox' \in Seq(Messages) /\ Len(mailbox') = n - 1
      /\ \A k \in 1 .. n - 1 : mailbox'[k] = mailbox[k + 1]
  BY <1>1, HeadTailProperties
<1>3. DOMAIN mailbox = 1 .. n /\ DOMAIN mailbox' = 1 .. n - 1
  BY <1>1, <1>2
<1> HIDE DEF n
<1>4. \A k : k \in 1 .. n - 1 <=> k \in Nat \ {0} /\ k + 1 \in 1 .. n
  BY <1>1
<1>5. 1 \in 1 .. n
  BY <1>1
<1> QED
  BY <1>1, <1>2, <1>3, <1>4, <1>5 DEF Waiting

(* One that is not taken stays the only one.                               *)
LEMMA StillWaits ==
  ASSUME TypeOK, NEW m, Receive(m), NEW call, m.kind # call, OneRequest(call),
         up', Asking(call)' = Asking(call)
  PROVE  OneRequest(call)'
<1>1. mailbox \in Seq(Messages)
  BY MailboxType
<1>2. CASE Asking(call)
  <2>1. PICK k \in DOMAIN mailbox : Waiting(call) = {k}
    BY <1>2 DEF OneRequest
  <2>2. k \in Nat \ {0, 1}
    BY <1>1, <2>1, TailWaits
  <2>3. \A j : j \in Waiting(call)' <=> j = k - 1
    BY <2>1, <2>2, TailWaits
  <2>4. Waiting(call)' = {k - 1}
    BY <2>3
  <2>5. k - 1 \in DOMAIN mailbox'
    BY <2>4 DEF Waiting
  <2> QED
    BY <1>2, <2>4, <2>5 DEF OneRequest
<1>3. CASE ~Asking(call)
  <2>1. Waiting(call) = {}
    BY <1>3 DEF OneRequest
  <2>2. \A j : j \notin Waiting(call)'
    BY <2>1, TailWaits
  <2> QED
    BY <1>3, <2>2 DEF OneRequest
<1> QED
  BY <1>2, <1>3

(* The one that is taken was the only one.                                 *)
LEMMA NoneWaits ==
  ASSUME TypeOK, NEW m, Receive(m), NEW call, m.kind = call, OneRequest(call)
  PROVE  Waiting(call)' = {}
<1>1. 1 \in Waiting(call)
  BY TailWaits
<1>2. Waiting(call) = {1}
  BY <1>1 DEF OneRequest
<1>3. \A j : j \notin Waiting(call)'
  BY <1>2, TailWaits
<1> QED
  BY <1>3

LEMMA RequestKept ==
  ASSUME NEW call, OneRequest(call), UNCHANGED <<up, mailbox>>,
         Asking(call)' = Asking(call)
  PROVE  OneRequest(call)'
BY DEF OneRequest, Waiting

(* A process that asks nobody yet, and then asks a running one.            *)
LEMMA Asks ==
  ASSUME TypeOK, NEW call \in Calls, OneRequest(call), ~Asking(call),
         mailbox' = Append(mailbox, Request(call)), up', Asking(call)'
  PROVE  OneRequest(call)'
<1>1. Waiting(call) = {}
  BY DEF OneRequest
<1>2. /\ Len(mailbox) + 1 \in DOMAIN mailbox'
      /\ Waiting(call)' = {Len(mailbox) + 1}
  BY <1>1, MessageFacts, AppendWaits DEF Calls
<1> QED
  BY <1>2 DEF OneRequest

(* Another's message behind its own.                                       *)
LEMMA AppendKeeps ==
  ASSUME TypeOK, NEW call, OneRequest(call), NEW m \in Messages, m.kind # call,
         mailbox' = Append(mailbox, m), up' = up, Asking(call)' = Asking(call)
  PROVE  OneRequest(call)'
<1>1. Waiting(call)' = Waiting(call)
  BY AppendWaits
<1>2. \A k : k \in Waiting(call)' => k \in DOMAIN mailbox'
  BY DEF Waiting
<1> QED
  BY <1>1, <1>2 DEF OneRequest

LEMMA EmptiedWaits ==
  ASSUME NEW call, ~Asking(call)', \A k \in DOMAIN mailbox' : mailbox'[k].kind # call
  PROVE  OneRequest(call)'
BY DEF OneRequest, Waiting

LEMMA WaitStep == WaitInv /\ [Next]_vars => WaitInv'
<1> SUFFICES ASSUME WaitInv, [Next]_vars, NEW call \in Calls
             PROVE  OneRequest(call)'
  BY TypeStep DEF WaitInv
<1>t. TypeOK /\ OneRequest(call)
  BY DEF WaitInv
<1>c. call \in {"get", "get_frame"} /\ call # "update"
  BY DEF Calls
<1>1. CASE \/ SceneChanges \/ NoFrame \/ SendChunk \/ LoadEvent \/ LateLoadEvent
           \/ ShowState \/ Rejoin \/ UNCHANGED vars
  <2>1. UNCHANGED <<up, mailbox>>
    BY <1>1 DEF SceneChanges, NoFrame, SendChunk, LoadEvent, LateLoadEvent,
                ShowState, Rejoin, CameraState, vars
  <2>2. Asking(call)' = Asking(call)
    BY <1>1, NilAssumption, <1>t
       DEF SceneChanges, NoFrame, SendChunk, LoadEvent, LateLoadEvent, ShowState,
           Rejoin, Mount, Page, Stream, Asking, vars, Frames, TypeOK
  <2> QED
    BY <1>t, <2>1, <2>2, RequestKept
<1>2. CASE Post
  <2>1. Asking(call)' = Asking(call) /\ up' = up
    BY <1>2 DEF Post, Page, Stream, Asking
  <2>2. CASE up
    <3>1. Cast(scene) \in Messages /\ Cast(scene).kind # call
      BY <1>c, <1>t, MessageFacts DEF TypeOK
    <3> QED
      BY <1>2, <1>t, <2>1, <2>2, <3>1, AppendKeeps DEF Post
  <2>3. CASE ~up
    BY <1>2, <1>t, <2>1, <2>3, RequestKept DEF Post
  <2> QED
    BY <2>2, <2>3
<1>3. ASSUME NEW s \in Scenes, Update(s) PROVE OneRequest(call)'
  <2>1. Receive(Cast(s)) /\ Cast(s).kind # call
    BY <1>3, <1>c, MessageFacts DEF Update
  <2>2. up' /\ Asking(call)' = Asking(call)
    BY <1>3, <2>1 DEF Update, Receive, Page, Stream, Asking
  <2> QED
    BY <1>t, <2>1, <2>2, StillWaits
<1>4. CASE Get
  <2>1. Receive(Request("get")) /\ Request("get").kind = "get" /\ up'
    BY <1>4, MessageFacts DEF Get, Receive
  <2>2. CASE call = "get"
    <3>1. ~Asking(call)'
      BY <1>4, <2>2 DEF Get, Asking
    <3>2. Waiting(call)' = {}
      BY <1>t, <2>1, <2>2, NoneWaits
    <3> QED
      BY <3>1, <3>2 DEF OneRequest
  <2>3. CASE call # "get"
    <3>1. Asking(call)' = Asking(call)
      BY <1>4, <2>3 DEF Get, Asking, Stream
    <3> QED
      BY <1>t, <2>1, <2>3, <3>1, StillWaits
  <2> QED
    BY <2>2, <2>3
<1>5. CASE GetFrame
  <2>1. /\ Receive(Request("get_frame")) /\ up'
        /\ Request("get_frame").kind = "get_frame"
    BY <1>5, MessageFacts DEF GetFrame, Receive
  <2>2. CASE call = "get_frame"
    <3>1. stream' \in Frames \cup {Nil}
      BY <1>5, <1>t DEF GetFrame, TypeOK, States
    <3>2. ~Asking(call)'
      BY <2>2, <3>1, NilAssumption DEF Asking, Frames
    <3>3. Waiting(call)' = {}
      BY <1>t, <2>1, <2>2, NoneWaits
    <3> QED
      BY <3>2, <3>3 DEF OneRequest
  <2>3. CASE call # "get_frame"
    <3>1. Asking(call)' = Asking(call)
      BY <1>5, <1>c, <2>3 DEF GetFrame, Asking, Page
    <3> QED
      BY <1>t, <2>1, <2>3, <3>1, StillWaits
  <2> QED
    BY <2>2, <2>3
<1>6. CASE Crash
  <2>1. ~Asking(call)' /\ mailbox' = <<>>
    BY <1>6 DEF Crash, Asking
  <2> QED
    BY <2>1, EmptiedWaits
<1>7. CASE Restart
  <2>1. ~Asking(call) /\ Asking(call)' = Asking(call) /\ mailbox' = mailbox
    BY <1>7, <1>t DEF Restart, OneRequest, Page, Stream, Asking
  <2> QED
    BY <1>t, <2>1 DEF OneRequest, Waiting
<1>8. CASE FetchUpdate
  <2>1. CASE ~up
    <3>1. UNCHANGED <<up, mailbox>> /\ Asking(call)' = Asking(call)
      BY <1>8, <2>1 DEF FetchUpdate, Asking, Stream
    <3> QED
      BY <1>t, <3>1, RequestKept
  <2>2. CASE up
    <3>1. /\ mailbox' = Append(mailbox, Request("get")) /\ up' = up
          /\ live = "waiting" /\ live' = "asked" /\ stream' = stream
      BY <1>8, <2>2 DEF FetchUpdate, Stream
    <3>2. CASE call = "get"
      BY <1>t, <2>2, <3>1, <3>2, Asks DEF Asking
    <3>3. CASE call # "get"
      BY <1>t, <3>1, <3>3, MessageFacts, AppendKeeps DEF Asking
    <3> QED
      BY <3>2, <3>3
  <2> QED
    BY <2>1, <2>2
<1>9. CASE AskFrame
  <2>1. CASE ~up
    <3>1. UNCHANGED <<up, mailbox>> /\ Asking(call)' = Asking(call)
      BY <1>9, <2>1 DEF AskFrame, Asking, Page
    <3> QED
      BY <1>t, <3>1, RequestKept
  <2>2. CASE up
    <3>1. /\ mailbox' = Append(mailbox, Request("get_frame")) /\ up' = up
          /\ stream = "running" /\ stream' = "asked" /\ live' = live
      BY <1>9, <2>2 DEF AskFrame, Page
    <3>2. CASE call = "get_frame"
      BY <1>t, <2>2, <3>1, <3>2, Asks DEF Asking
    <3>3. CASE call # "get_frame"
      BY <1>c, <1>t, <3>1, <3>3, MessageFacts, AppendKeeps DEF Asking
    <3> QED
      BY <3>2, <3>3
  <2> QED
    BY <2>1, <2>2
<1>10. CASE Reload
  <2>1. mailbox' \in Seq({m \in Messages : m.kind = "update"})
    BY <1>10, <1>t, MailboxType, Kept DEF Reload
  <2>2. \A k \in DOMAIN mailbox' : mailbox'[k].kind = "update"
    BY <2>1
  <2>3. ~Asking(call)'
    BY <1>10 DEF Reload, Mount, Asking
  <2> QED
    BY <1>c, <2>2, <2>3, EmptiedWaits
<1> QED
  BY <1>1, <1>2, <1>3, <1>4, <1>5, <1>6, <1>7, <1>8, <1>9, <1>10
  DEF Next, Serve, Live, Play

(* Whoever waits for an answer has exactly one request in the mailbox of a *)
(* running process, for every set of scenes, through crashes, restarts and *)
(* reloads that leave old requests behind.                                 *)
THEOREM EveryRequestWaits == Spec => []NobodyWaitsInVain
<1>1. Init => \A call \in Calls : OneRequest(call)
  <2> SUFFICES ASSUME Init, NEW call \in Calls PROVE OneRequest(call)
    OBVIOUS
  <2>1. ~Asking(call) /\ mailbox = <<>>
    BY DEF Init, Asking
  <2> QED
    BY <2>1 DEF OneRequest, Waiting
<1>2. TypeOK /\ (\A call \in Calls : OneRequest(call)) => WaitInv
  BY DEF WaitInv
<1>3. WaitInv => NobodyWaitsInVain
  BY DEF WaitInv, OneRequest, Asking, Calls, NobodyWaitsInVain
<1> QED
  BY <1>1, <1>2, <1>3, WaitStep, TypeCorrect, PTL DEF Spec
=============================================================================
