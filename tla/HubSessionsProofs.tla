------------------------- MODULE HubSessionsProofs -------------------------
(***************************************************************************)
(* Theorems about HubSessions, for any number of sessions, any capacity of *)
(* the queues and any amount of input and output.                          *)
(*                                                                         *)
(* The three theorems rest on bookkeeping over the two frame queues: how   *)
(* many frames of a kind a session has under way, and which kind never     *)
(* follows which.  Count and NeverAfter say that; the lemmas of the first  *)
(* part say what Append and Tail do to them, and the rest never looks      *)
(* inside a queue again.                                                   *)
(***************************************************************************)
EXTENDS HubSessions, FiniteSetTheorems, FunctionTheorems, TLAPS

\* How many elements of q are in S.
Count(q, S) == Cardinality({i \in 1..Len(q) : q[i] \in S})

\* In q, no element of S comes after an element of F.
NeverAfter(q, S, F) ==
    \A i, j \in 1..Len(q) : i < j /\ q[i] \in F => q[j] \notin S

One(e, S) == IF e \in S THEN 1 ELSE 0

LEMMA CountNat ==
    ASSUME NEW T, NEW q \in Seq(T), NEW S
    PROVE  Count(q, S) \in Nat
<1>1. IsFiniteSet({i \in 1..Len(q) : q[i] \in S})
  <2>1. Len(q) \in Nat
    OBVIOUS
  <2>2. IsFiniteSet(1..Len(q))
    BY <2>1, FS_Interval
  <2> QED BY <2>2, FS_Subset
<1> QED BY <1>1, FS_CardinalityType DEF Count

LEMMA CountEmpty ==
    ASSUME NEW S
    PROVE  Count(<< >>, S) = 0
<1>1. {i \in 1..Len(<< >>) : << >>[i] \in S} = {}
  OBVIOUS
<1> QED BY <1>1, FS_EmptySet DEF Count

LEMMA CountAppend ==
    ASSUME NEW T, NEW q \in Seq(T), NEW e \in T, NEW S
    PROVE  Count(Append(q, e), S) = Count(q, S) + One(e, S)
<1> DEFINE A == {i \in 1..Len(q) : q[i] \in S}
           B == {i \in 1..Len(Append(q, e)) : Append(q, e)[i] \in S}
<1>1. Len(q) \in Nat /\ Len(Append(q, e)) = Len(q) + 1
  OBVIOUS
<1>2. /\ \A i \in 1..Len(q) : Append(q, e)[i] = q[i]
      /\ Append(q, e)[Len(q) + 1] = e
  OBVIOUS
<1>3. IsFiniteSet(A) /\ Len(q) + 1 \notin A
  <2>1. IsFiniteSet(1..Len(q))
    BY <1>1, FS_Interval
  <2> QED BY <2>1, <1>1, FS_Subset
<1>4. CASE e \in S
  <2>1. B = A \cup {Len(q) + 1}
    BY <1>1, <1>2, <1>4
  <2>2. Cardinality(B) = Cardinality(A) + 1
    BY <2>1, <1>3, FS_AddElement
  <2> QED BY <2>2, <1>4 DEF Count, One
<1>5. CASE e \notin S
  <2>1. B = A
    BY <1>1, <1>2, <1>5
  <2>2. Cardinality(A) \in Nat
    BY <1>3, FS_CardinalityType
  <2>3. Count(q, S) = Cardinality(A) /\ Count(Append(q, e), S) = Cardinality(B)
    BY DEF Count
  <2> HIDE DEF A, B
  <2> QED BY <2>1, <2>2, <2>3, <1>5 DEF One
<1> QED BY <1>4, <1>5

LEMMA CountTail ==
    ASSUME NEW T, NEW q \in Seq(T), q # << >>, NEW S
    PROVE  Count(q, S) = Count(Tail(q), S) + One(Head(q), S)
<1> DEFINE A == {i \in 1..Len(q) : q[i] \in S}
           B == {i \in 1..Len(Tail(q)) : Tail(q)[i] \in S}
           C == {i \in 2..Len(q) : q[i] \in S}
           g == [i \in B |-> i + 1]
<1>1. Len(q) \in Nat \ {0} /\ Len(Tail(q)) = Len(q) - 1 /\ Head(q) = q[1]
  OBVIOUS
<1>2. \A i \in 1..Len(q) - 1 : Tail(q)[i] = q[i + 1]
  BY <1>1
<1>3. IsFiniteSet(B) /\ IsFiniteSet(C)
  <2>1. IsFiniteSet(1..Len(Tail(q))) /\ IsFiniteSet(2..Len(q))
    BY <1>1, FS_Interval
  <2> QED BY <2>1, FS_Subset
<1>4. g \in Bijection(B, C)
  <2>1. g \in [B -> C]
    BY <1>1, <1>2
  <2>2. \A a, b \in B : a # b => g[a] # g[b]
    BY <1>1
  <2>3. \A c \in C : \E b \in B : g[b] = c
    <3> TAKE c \in C
    <3>1. c - 1 \in B
      BY <1>1, <1>2
    <3>2. g[c - 1] = c
      BY <3>1, <1>1
    <3> QED BY <3>1, <3>2
  <2> QED BY <2>1, <2>2, <2>3, Fun_IsBij
<1>5. Cardinality(B) = Cardinality(C) /\ Cardinality(C) \in Nat
  BY <1>3, <1>4, FS_Bijection, FS_CardinalityType, ZenonT(40) DEF ExistsBijection
<1>6. CASE Head(q) \in S
  <2>1. A = C \cup {1} /\ 1 \notin C
    BY <1>1, <1>6
  <2>2. Cardinality(A) = Cardinality(C) + 1
    BY <2>1, <1>3, FS_AddElement
  <2> QED BY <2>2, <1>5, <1>6 DEF Count, One
<1>7. CASE Head(q) \notin S
  <2>1. A = C
    BY <1>1, <1>7
  <2>2. Count(q, S) = Cardinality(A) /\ Count(Tail(q), S) = Cardinality(B)
    BY DEF Count
  <2> HIDE DEF A, B, C
  <2> QED BY <2>1, <2>2, <1>5, <1>7 DEF One
<1> QED BY <1>6, <1>7

\* What counts zero is nowhere in the queue.
LEMMA CountZero ==
    ASSUME NEW T, NEW q \in Seq(T), NEW S, Count(q, S) = 0
    PROVE  \A i \in 1..Len(q) : q[i] \notin S
<1>1. IsFiniteSet(1..Len(q))
  BY FS_Interval
<1>2. IsFiniteSet({i \in 1..Len(q) : q[i] \in S})
  BY <1>1, FS_Subset
<1>3. {i \in 1..Len(q) : q[i] \in S} = {}
  BY <1>2, FS_EmptySet DEF Count
<1> QED BY <1>3

LEMMA NeverAfterAppend ==
    ASSUME NEW T, NEW q \in Seq(T), NEW e \in T, NEW S, NEW F,
           NeverAfter(q, S, F), e \notin S \/ Count(q, F) = 0
    PROVE  NeverAfter(Append(q, e), S, F)
<1>1. Len(q) \in Nat /\ Len(Append(q, e)) = Len(q) + 1
  OBVIOUS
<1>2. /\ \A i \in 1..Len(q) : Append(q, e)[i] = q[i]
      /\ Append(q, e)[Len(q) + 1] = e
  OBVIOUS
<1>3. SUFFICES ASSUME NEW i \in 1..Len(q) + 1, NEW j \in 1..Len(q) + 1,
                      i < j, Append(q, e)[i] \in F
               PROVE  Append(q, e)[j] \notin S
  BY <1>1 DEF NeverAfter
<1>4. i \in 1..Len(q) /\ q[i] \in F
  BY <1>1, <1>2, <1>3
<1>5. CASE j \in 1..Len(q)
  BY <1>2, <1>3, <1>4, <1>5 DEF NeverAfter
<1>6. CASE j = Len(q) + 1
  <2>1. Count(q, F) # 0
    BY <1>4, CountZero
  <2> QED BY <1>2, <1>6, <2>1
<1> QED BY <1>1, <1>5, <1>6

LEMMA NeverAfterTail ==
    ASSUME NEW T, NEW q \in Seq(T), q # << >>, NEW S, NEW F,
           NeverAfter(q, S, F)
    PROVE  /\ NeverAfter(Tail(q), S, F)
           /\ Head(q) \in F => Count(Tail(q), S) = 0
<1>1. Len(q) \in Nat \ {0} /\ Len(Tail(q)) = Len(q) - 1 /\ Head(q) = q[1]
  OBVIOUS
<1>2. \A i \in 1..Len(q) - 1 : Tail(q)[i] = q[i + 1]
  BY <1>1
<1>3. NeverAfter(Tail(q), S, F)
  <2> SUFFICES ASSUME NEW i \in 1..Len(q) - 1, NEW j \in 1..Len(q) - 1,
                      i < j, Tail(q)[i] \in F
               PROVE  Tail(q)[j] \notin S
    BY <1>1 DEF NeverAfter
  <2>1. i + 1 \in 1..Len(q) /\ j + 1 \in 1..Len(q) /\ i + 1 < j + 1
    BY <1>1
  <2> QED BY <1>2, <2>1 DEF NeverAfter
<1>4. ASSUME Head(q) \in F PROVE Count(Tail(q), S) = 0
  <2>1. \A j \in 1..Len(Tail(q)) : Tail(q)[j] \notin S
    BY <1>1, <1>2, <1>4 DEF NeverAfter
  <2>2. {j \in 1..Len(Tail(q)) : Tail(q)[j] \in S} = {}
    BY <2>1
  <2> QED BY <2>2, FS_EmptySet DEF Count
<1> QED BY <1>3, <1>4

LEMMA NeverAfterEmpty ==
    ASSUME NEW S, NEW F
    PROVE  NeverAfter(<< >>, S, F)
BY DEF NeverAfter

-----------------------------------------------------------------------------
(* What is under way for a session: frames of a kind towards the agent,    *)
(* towards the server, and input the agent has queued for its process.     *)

Frame(t, s) == {[t |-> t, s |-> s]}
Ends(s) == [t : {"close"}, s : {s}, code : Code]

Down(t, s) == Count(toAgent, Frame(t, s))
Up(t, s) == Count(toServer, Frame(t, s))
UpEnds(s) == Count(toServer, Ends(s))
UpOwn(s) == Count(toServer, {[t |-> "close", s |-> s, code |-> "own"]})
Queued(t, s) == Count(inq[s], {t})
InHand(s) == IF srv[s].hand THEN 1 ELSE 0

\* An end that is gone has nothing to read.
ShutInv ==
    /\ ~srvUp => toServer = << >>
    /\ ~agtUp => toAgent = << >>

\* What runs can be found or is being closed, what can be found is neither
\* being closed nor reaped.
RunInv(s) ==
    /\ proc[s].st = "running" =>
         s \in sess \/ proc[s].shut \in {"taken", "closed"}
    /\ s \in sess =>
         proc[s].st \in {"running", "exited"} /\ proc[s].shut = "no"
    /\ proc[s].reaped => proc[s].st \in {"exited", "killed"}

\* A session is opened once, and nothing has happened to one that is not.
OpenInv(s) ==
    /\ Down("open", s) <= 1
    /\ Down("open", s) = 1 => proc[s].st = "none"
    /\ srv[s].pc \in {"idle", "found", "added"} =>
         Down("open", s) = 0 /\ proc[s].st = "none"
    /\ proc[s].st = "none" =>
         /\ Down("data", s) = 0 /\ Down("eof", s) = 0 /\ inq[s] = << >>
         /\ Up("ok", s) = 0 /\ Up("data", s) = 0 /\ UpEnds(s) = 0
         /\ proc[s].fed = 0 /\ ~proc[s].eof /\ proc[s].made = 0
         /\ client[s].typed = 0 /\ ~client[s].eof /\ client[s].shown = 0
         /\ srv[s].ready # "ok" /\ srv[s].pc \notin {"piping", "closing"}
         /\ srv[s].buf = 0 /\ ~srv[s].hand /\ srv[s].code = "255"

\* What has been typed is fed, queued or under way, the end of it last.  Once
\* the session is out of the table only the queue counts.
InputInv(s) ==
    /\ s \in sess /\ agtUp =>
         client[s].typed = proc[s].fed + Queued("data", s) + Down("data", s)
    /\ proc[s].fed + Queued("data", s) <= client[s].typed
    /\ Queued("eof", s) > 0 =>
         client[s].typed = proc[s].fed + Queued("data", s)
    /\ NeverAfter(toAgent, Frame("data", s), Frame("eof", s))
    /\ NeverAfter(inq[s], {"data"}, {"eof"})
    /\ ~client[s].eof =>
         Down("eof", s) = 0 /\ Queued("eof", s) = 0 /\ ~proc[s].eof
    /\ Queued("eof", s) > 0 \/ proc[s].eof => Down("data", s) = 0
    /\ proc[s].eof => Queued("data", s) = 0 /\ proc[s].fed = client[s].typed

\* Where the server has the session.
TableInv(s) ==
    /\ s \in table => ~srv[s].closed /\ srv[s].code = "255"
    /\ srv[s].pc \in {"idle", "found"} => s \notin table /\ ~srv[s].closed
    /\ s \in table /\ ~srvUp => srv[s].pc = "added"
    /\ srv[s].hand => srv[s].pc = "piping"
    /\ client[s].told # "none" => srv[s].pc = "done"

\* What has been made is shown, buffered or under way, the code last.
OutputInv(s) ==
    /\ s \in table /\ client[s].st = "here" =>
         proc[s].made =
            client[s].shown + InHand(s) + srv[s].buf + Up("data", s)
    /\ UpEnds(s) > 0 => proc[s].reaped
    /\ UpOwn(s) > 0 => proc[s].st = "exited"
    /\ NeverAfter(toServer, Frame("data", s), Ends(s))
    /\ srv[s].code = "own" =>
         /\ proc[s].st = "exited"
         /\ client[s].st = "here" =>
              proc[s].made = client[s].shown + InHand(s) + srv[s].buf
    /\ srv[s].pc = "closing" /\ client[s].st = "here" =>
         s \notin table /\ srv[s].buf = 0 /\ ~srv[s].hand
    /\ client[s].told = "own" =>
         proc[s].st = "exited" /\ client[s].shown = proc[s].made

\* Why the agent closes a session: the server has ended it, the connection is
\* gone, or the input queue was full.
Ended(s) == srv[s].pc = "done" \/ ~agtUp \/ proc[s].full
CloseInv(s) ==
    /\ Down("close", s) > 0 => srv[s].pc = "done"
    /\ proc[s].shut # "no" => Ended(s)

SessionInv(s) ==
    /\ RunInv(s) /\ OpenInv(s) /\ InputInv(s) /\ TableInv(s) /\ OutputInv(s)
    /\ CloseInv(s)

IInv == TypeOK /\ ShutInv /\ \A s \in Session : SessionInv(s)
-----------------------------------------------------------------------------
(* What each way of touching a queue does to the counts.                   *)

Bit(b) == IF b THEN 1 ELSE 0

\* All counts are numbers, and an empty queue counts nothing.
LEMMA CountsNat ==
    ASSUME TypeOK
    PROVE  \A k, x :
             /\ Down(k, x) \in Nat /\ Up(k, x) \in Nat
             /\ UpEnds(x) \in Nat /\ UpOwn(x) \in Nat
             /\ x \in Session => Queued(k, x) \in Nat
BY CountNat DEF TypeOK, Down, Up, UpEnds, UpOwn, Queued

LEMMA ServerSendsCounts ==
    ASSUME TypeOK, NEW t \in {"open", "data", "eof", "close"},
           NEW s \in Session, ServerSends(t, s)
    PROVE  /\ toAgent' \in Seq(ToAgent)
           /\ ~(srvUp /\ agtUp) => toAgent' = toAgent
           /\ \A k, x : Down(k, x)' =
                Down(k, x) + Bit(srvUp /\ agtUp /\ k = t /\ x = s)
           /\ \A x : NeverAfter(toAgent, Frame("data", x), Frame("eof", x))
                      /\ (t = "data" /\ x = s => Down("eof", s) = 0)
                => NeverAfter(toAgent', Frame("data", x), Frame("eof", x))
<1> DEFINE f == [t |-> t, s |-> s]
<1>1. f \in ToAgent /\ toAgent \in Seq(ToAgent)
  BY DEF ToAgent, TypeOK
<1>2. \A k, x : One(f, Frame(k, x)) = Bit(k = t /\ x = s)
  BY DEF One, Frame, Bit
<1>3. CASE srvUp /\ agtUp
  <2>1. toAgent' = Append(toAgent, f)
    BY <1>3 DEF ServerSends
  <2>2. toAgent' \in Seq(ToAgent)
    BY <1>1, <2>1
  <2>3. \A k, x : Count(toAgent', Frame(k, x)) =
                    Count(toAgent, Frame(k, x)) + One(f, Frame(k, x))
    BY <1>1, <2>1, CountAppend
  <2>4. \A k, x : Down(k, x)' = Down(k, x) + Bit(srvUp /\ agtUp /\ k = t /\ x = s)
    BY <1>2, <1>3, <2>3 DEF Down, Bit
  <2>5. ASSUME NEW x, NeverAfter(toAgent, Frame("data", x), Frame("eof", x)),
               t = "data" /\ x = s => Down("eof", s) = 0
        PROVE  NeverAfter(toAgent', Frame("data", x), Frame("eof", x))
    <3>1. f \notin Frame("data", x) \/ Count(toAgent, Frame("eof", x)) = 0
      BY <2>5 DEF Frame, Down
    <3> QED BY <1>1, <2>1, <2>5, <3>1, NeverAfterAppend
  <2> QED BY <1>3, <2>2, <2>4, <2>5
<1>4. CASE ~(srvUp /\ agtUp)
  <2>1. toAgent' = toAgent
    BY <1>4 DEF ServerSends
  <2> QED BY <1>1, <1>4, <2>1, CountsNat DEF Down, Bit
<1> QED BY <1>3, <1>4

LEMMA AgentTakesCounts ==
    ASSUME TypeOK, toAgent # << >>, toAgent' = Tail(toAgent)
    PROVE  /\ toAgent' \in Seq(ToAgent) /\ Head(toAgent) \in ToAgent
           /\ \A k, x : Down(k, x) =
                Down(k, x)' + Bit(k = Head(toAgent).t /\ x = Head(toAgent).s)
           /\ \A k, x : Down(k, x)' \in Nat
           /\ \A x : NeverAfter(toAgent, Frame("data", x), Frame("eof", x))
                => /\ NeverAfter(toAgent', Frame("data", x), Frame("eof", x))
                   /\ Head(toAgent).t = "eof" /\ Head(toAgent).s = x
                        => Down("data", x)' = 0
<1>1. toAgent \in Seq(ToAgent) /\ Head(toAgent) \in ToAgent
      /\ toAgent' \in Seq(ToAgent)
  BY DEF TypeOK
<1>2. \A k, x : One(Head(toAgent), Frame(k, x))
                  = Bit(k = Head(toAgent).t /\ x = Head(toAgent).s)
  BY <1>1 DEF One, Frame, Bit, ToAgent
<1>3. \A k, x : Down(k, x) = Down(k, x)' + One(Head(toAgent), Frame(k, x))
  BY <1>1, CountTail DEF Down
<1>4. \A k, x : Down(k, x)' \in Nat
  BY <1>1, CountNat DEF Down
<1>5. ASSUME NEW x, NeverAfter(toAgent, Frame("data", x), Frame("eof", x))
      PROVE  /\ NeverAfter(toAgent', Frame("data", x), Frame("eof", x))
             /\ Head(toAgent).t = "eof" /\ Head(toAgent).s = x
                  => Down("data", x)' = 0
  <2>1. Head(toAgent).t = "eof" /\ Head(toAgent).s = x
          => Head(toAgent) \in Frame("eof", x)
    BY <1>1 DEF Frame, ToAgent
  <2> QED BY <1>1, <1>5, <2>1, NeverAfterTail DEF Down
<1> QED BY <1>1, <1>2, <1>3, <1>4, <1>5

LEMMA AgentSendsCounts ==
    ASSUME TypeOK, NEW f \in ToServer, AgentSends(f)
    PROVE  /\ toServer' \in Seq(ToServer) /\ Len(toServer') <= NetLen
           /\ ~(srvUp /\ agtUp) => toServer' = toServer
           /\ \A k, x : k # "close" => Up(k, x)' =
                Up(k, x) + Bit(srvUp /\ agtUp /\ k = f.t /\ x = f.s)
           /\ \A x : UpEnds(x)' =
                UpEnds(x) + Bit(srvUp /\ agtUp /\ f.t = "close" /\ x = f.s)
           /\ \A x : UpOwn(x)' = UpOwn(x)
                + Bit(srvUp /\ agtUp /\ f.t = "close" /\ x = f.s
                      /\ f.code = "own")
           /\ \A x : NeverAfter(toServer, Frame("data", x), Ends(x))
                      /\ (f.t = "data" /\ x = f.s => UpEnds(x) = 0)
                => NeverAfter(toServer', Frame("data", x), Ends(x))
<1>1. toServer \in Seq(ToServer) /\ Len(toServer) <= NetLen
  BY DEF TypeOK
<1>2. \A k, x : k # "close" => One(f, Frame(k, x)) = Bit(k = f.t /\ x = f.s)
  BY DEF One, Frame, Bit, ToServer
<1>3. \A x : One(f, Ends(x)) = Bit(f.t = "close" /\ x = f.s)
  BY DEF One, Ends, Bit, ToServer
<1>4. \A x : One(f, {[t |-> "close", s |-> x, code |-> "own"]})
              = Bit(f.t = "close" /\ x = f.s /\ f.code = "own")
  BY DEF One, Bit, ToServer
<1>5. CASE srvUp /\ agtUp
  <2>1. toServer' = Append(toServer, f) /\ Len(toServer) < NetLen
    BY <1>5 DEF AgentSends
  <2>2. toServer' \in Seq(ToServer) /\ Len(toServer') = Len(toServer) + 1
    BY <1>1, <2>1
  <2>3. Len(toServer') <= NetLen
    BY <1>1, <2>1, <2>2, BoundAssumption
  <2>4. \A S : Count(toServer', S) = Count(toServer, S) + One(f, S)
    BY <1>1, <2>1, CountAppend
  <2>5. \A k, x : k # "close" => Up(k, x)' =
           Up(k, x) + Bit(srvUp /\ agtUp /\ k = f.t /\ x = f.s)
    BY <1>2, <1>5, <2>4 DEF Up, Bit
  <2>6. \A x : UpEnds(x)' =
           UpEnds(x) + Bit(srvUp /\ agtUp /\ f.t = "close" /\ x = f.s)
    BY <1>3, <1>5, <2>4 DEF UpEnds, Bit
  <2>7. \A x : UpOwn(x)' = UpOwn(x)
           + Bit(srvUp /\ agtUp /\ f.t = "close" /\ x = f.s /\ f.code = "own")
    BY <1>4, <1>5, <2>4 DEF UpOwn, Bit
  <2>8. ASSUME NEW x, NeverAfter(toServer, Frame("data", x), Ends(x)),
               f.t = "data" /\ x = f.s => UpEnds(x) = 0
        PROVE  NeverAfter(toServer', Frame("data", x), Ends(x))
    <3>1. f \notin Frame("data", x) \/ Count(toServer, Ends(x)) = 0
      BY <2>8 DEF Frame, UpEnds
    <3> QED BY <1>1, <2>1, <2>8, <3>1, NeverAfterAppend
  <2> QED BY <1>5, <2>2, <2>3, <2>5, <2>6, <2>7, <2>8
<1>6. CASE ~(srvUp /\ agtUp)
  <2>1. toServer' = toServer
    BY <1>6 DEF AgentSends
  <2>2. \A S : Count(toServer', S) = Count(toServer, S) + 0
    BY <1>1, <2>1, CountNat
  <2>3. /\ \A k, x : Up(k, x)' = Up(k, x) + 0
        /\ \A x : UpEnds(x)' = UpEnds(x) + 0 /\ UpOwn(x)' = UpOwn(x) + 0
    BY <2>2 DEF Up, UpEnds, UpOwn
  <2>4. \A b : Bit(srvUp /\ agtUp /\ b) = 0
    BY <1>6 DEF Bit
  <2> QED BY <1>1, <1>6, <2>1, <2>3 DEF Bit
<1> QED BY <1>5, <1>6

LEMMA ServerTakesCounts ==
    ASSUME TypeOK, toServer # << >>, toServer' = Tail(toServer)
    PROVE  /\ toServer' \in Seq(ToServer) /\ Len(toServer') <= NetLen
           /\ Head(toServer) \in ToServer
           /\ \A k, x : k # "close" => Up(k, x) =
                Up(k, x)' + Bit(k = Head(toServer).t /\ x = Head(toServer).s)
           /\ \A x : UpEnds(x) = UpEnds(x)'
                + Bit(Head(toServer).t = "close" /\ x = Head(toServer).s)
           /\ \A x : UpOwn(x) = UpOwn(x)'
                + Bit(Head(toServer).t = "close" /\ x = Head(toServer).s
                      /\ Head(toServer).code = "own")
           /\ \A k, x : Up(k, x)' \in Nat /\ UpEnds(x)' \in Nat
                          /\ UpOwn(x)' \in Nat
           /\ \A x : NeverAfter(toServer, Frame("data", x), Ends(x))
                => /\ NeverAfter(toServer', Frame("data", x), Ends(x))
                   /\ Head(toServer).t = "close" /\ Head(toServer).s = x
                        => Up("data", x)' = 0
<1> DEFINE f == Head(toServer)
<1>1. toServer \in Seq(ToServer) /\ f \in ToServer
      /\ toServer' \in Seq(ToServer) /\ Len(toServer') <= NetLen
  <2>1. Len(toServer) \in Nat /\ Len(Tail(toServer)) = Len(toServer) - 1
        /\ Len(toServer) <= NetLen
    BY DEF TypeOK
  <2> QED BY <2>1, BoundAssumption DEF TypeOK
<1> HIDE DEF f
<1>2. \A k, x : k # "close" => One(f, Frame(k, x)) = Bit(k = f.t /\ x = f.s)
  BY <1>1 DEF One, Frame, Bit, ToServer
<1>3. \A x : One(f, Ends(x)) = Bit(f.t = "close" /\ x = f.s)
  BY <1>1 DEF One, Ends, Bit, ToServer
<1>4. \A x : One(f, {[t |-> "close", s |-> x, code |-> "own"]})
              = Bit(f.t = "close" /\ x = f.s /\ f.code = "own")
  BY <1>1 DEF One, Bit, ToServer
<1>5. \A S : Count(toServer, S) = Count(toServer', S) + One(f, S)
             /\ Count(toServer', S) \in Nat
  BY <1>1, CountTail, CountNat DEF f
<1>6. \A k, x : k # "close" => Up(k, x) = Up(k, x)' + Bit(k = f.t /\ x = f.s)
  BY <1>2, <1>5 DEF Up
<1>7. \A x : UpEnds(x) = UpEnds(x)' + Bit(f.t = "close" /\ x = f.s)
  BY <1>3, <1>5 DEF UpEnds
<1>8. \A x : UpOwn(x) = UpOwn(x)'
           + Bit(f.t = "close" /\ x = f.s /\ f.code = "own")
  BY <1>4, <1>5 DEF UpOwn
<1>9. \A k, x : Up(k, x)' \in Nat /\ UpEnds(x)' \in Nat /\ UpOwn(x)' \in Nat
  BY <1>5 DEF Up, UpEnds, UpOwn
<1>10. ASSUME NEW x, NeverAfter(toServer, Frame("data", x), Ends(x))
       PROVE  /\ NeverAfter(toServer', Frame("data", x), Ends(x))
              /\ f.t = "close" /\ f.s = x => Up("data", x)' = 0
  <2>1. f.t = "close" /\ f.s = x => f \in Ends(x)
    BY <1>1 DEF Ends, ToServer
  <2> QED BY <1>1, <1>10, <2>1, NeverAfterTail DEF Up, f
<1> QED BY <1>1, <1>6, <1>7, <1>8, <1>9, <1>10 DEF f
-----------------------------------------------------------------------------
(* A step of one session leaves the others' invariants alone.              *)

DownKept(x) ==
    /\ \A k \in {"open", "data", "eof"} : Down(k, x)' = Down(k, x)
    /\ NeverAfter(toAgent, Frame("data", x), Frame("eof", x))
         => NeverAfter(toAgent', Frame("data", x), Frame("eof", x))

UpKept(x) ==
    /\ \A k : k # "close" => Up(k, x)' = Up(k, x)
    /\ UpEnds(x)' = UpEnds(x) /\ UpOwn(x)' = UpOwn(x)
    /\ NeverAfter(toServer, Frame("data", x), Ends(x))
         => NeverAfter(toServer', Frame("data", x), Ends(x))

SameFor(x) ==
    /\ srv'[x] = srv[x] /\ client'[x] = client[x]
    /\ proc'[x] = proc[x] /\ inq'[x] = inq[x]
    /\ (x \in table') <=> (x \in table)
    /\ (x \in sess') <=> (x \in sess)

CloseKept(x) == Down("close", x)' = Down("close", x) /\ agtUp' = agtUp

LEMMA CloseUnchanged ==
    ASSUME toAgent' = toAgent, agtUp' = agtUp PROVE \A x : CloseKept(x)
BY DEF CloseKept, Down

LEMMA DownUnchanged ==
    ASSUME toAgent' = toAgent PROVE \A x : DownKept(x)
BY DEF DownKept, Down

LEMMA UpUnchanged ==
    ASSUME toServer' = toServer PROVE \A x : UpKept(x)
BY DEF UpKept, Up, UpEnds, UpOwn

LEMMA Others ==
    ASSUME NEW x \in Session, SessionInv(x), srvUp' = srvUp,
           SameFor(x), DownKept(x), UpKept(x), CloseKept(x)
    PROVE  SessionInv(x)'
<1>1. RunInv(x)'
  BY DEF SessionInv, SameFor, RunInv
<1>2. OpenInv(x)'
  BY DEF SessionInv, SameFor, DownKept, UpKept, OpenInv
<1>3. InputInv(x)'
  <2>1. \A k : Queued(k, x)' = Queued(k, x)
    BY DEF Queued, SameFor
  <2> QED BY <2>1 DEF SessionInv, SameFor, DownKept, CloseKept, InputInv
<1>4. TableInv(x)'
  BY DEF SessionInv, SameFor, TableInv
<1>5. OutputInv(x)'
  <2>1. InHand(x)' = InHand(x)
    BY DEF InHand, SameFor
  <2> QED BY <2>1 DEF SessionInv, SameFor, UpKept, OutputInv
<1>6. CloseInv(x)'
  BY DEF SessionInv, SameFor, CloseKept, CloseInv, Ended
<1> QED BY <1>1, <1>2, <1>3, <1>4, <1>5, <1>6 DEF SessionInv

\* What each part of the invariant depends on.
LEMMA RunKept ==
    ASSUME NEW s \in Session, RunInv(s), proc'[s] = proc[s],
           (s \in sess') <=> (s \in sess)
    PROVE  RunInv(s)'
BY DEF RunInv

LEMMA InputKept ==
    ASSUME NEW s \in Session, InputInv(s), DownKept(s), agtUp' = agtUp,
           s \in sess' => s \in sess, inq'[s] = inq[s],
           proc'[s].fed = proc[s].fed, proc'[s].eof = proc[s].eof,
           client'[s].typed = client[s].typed, client'[s].eof = client[s].eof
    PROVE  InputInv(s)'
<1>1. \A k : Queued(k, s)' = Queued(k, s)
  BY DEF Queued
<1> QED BY <1>1 DEF InputInv, DownKept

LEMMA OutputKept ==
    ASSUME NEW s \in Session, OutputInv(s), UpKept(s),
           s \in table' => s \in table,
           proc'[s] = proc[s], srv'[s].code = srv[s].code,
           client'[s].shown = client[s].shown, client'[s].told = client[s].told,
           client'[s].st # client[s].st => client'[s].st # "here",
           client'[s].st = "here" =>
             /\ srv'[s].buf = srv[s].buf /\ srv'[s].hand = srv[s].hand
             /\ srv'[s].pc = "closing" => srv[s].pc = "closing"
    PROVE  OutputInv(s)'
BY DEF OutputInv, UpKept, InHand

LEMMA CloseInvKept ==
    ASSUME NEW s \in Session, CloseInv(s), CloseKept(s),
           srv[s].pc = "done" => srv'[s].pc = "done",
           proc'[s].shut = proc[s].shut, proc'[s].full = proc[s].full
    PROVE  CloseInv(s)'
BY DEF CloseInv, CloseKept, Ended

\* A step of session s, put together.
LEMMA Assemble ==
    ASSUME IInv, NEW s \in Session, srvUp' = srvUp, TypeOK', ShutInv',
           \A x \in Session \ {s} : SameFor(x) /\ DownKept(x) /\ UpKept(x)
                                    /\ CloseKept(x),
           SessionInv(s)'
    PROVE  IInv'
BY Others DEF IInv

-----------------------------------------------------------------------------
(* The steps that touch neither queue nor process.                         *)

Quiet ==
    /\ srvUp' = srvUp /\ agtUp' = agtUp /\ lost' = lost
    /\ toAgent' = toAgent /\ toServer' = toServer
    /\ sess' = sess /\ inq' = inq /\ proc' = proc /\ stalled' = stalled

LEMMA QuietAssemble ==
    ASSUME IInv, NEW s \in Session, Quiet,
           NEW a \in Handler, srv' = [srv EXCEPT ![s] = a],
           NEW b \in Client, client' = [client EXCEPT ![s] = b],
           table' \subseteq Session, \A x \in Session \ {s} : x \in table' <=> x \in table,
           srv[s].pc = "done" => srv'[s].pc = "done",
           OpenInv(s)', InputInv(s)', TableInv(s)', OutputInv(s)'
    PROVE  IInv'
<1>1. TypeOK /\ ShutInv /\ SessionInv(s)
  BY DEF IInv
<1>2. TypeOK'
  BY <1>1 DEF TypeOK, Quiet
<1>3. ShutInv'
  BY <1>1 DEF ShutInv, Quiet
<1>4. RunInv(s)'
  BY <1>1, RunKept DEF SessionInv, Quiet
<1>5. \A x \in Session \ {s} : SameFor(x) /\ DownKept(x) /\ UpKept(x)
                               /\ CloseKept(x)
  BY <1>1, DownUnchanged, UpUnchanged, CloseUnchanged
     DEF Quiet, SameFor, TypeOK
<1>6. CloseInv(s)'
  BY <1>1, CloseUnchanged, CloseInvKept DEF SessionInv, Quiet
<1> QED BY <1>2, <1>3, <1>4, <1>5, <1>6, Assemble DEF SessionInv, Quiet

LEMMA QuietFacts ==
    ASSUME IInv, NEW s \in Session
    PROVE  /\ TypeOK /\ ShutInv /\ OpenInv(s) /\ InputInv(s) /\ TableInv(s)
           /\ OutputInv(s) /\ RunInv(s) /\ CloseInv(s)
           /\ srv[s] \in Handler /\ client[s] \in Client /\ proc[s] \in Process
           /\ srv \in [Session -> Handler] /\ client \in [Session -> Client]
           /\ srv = [srv EXCEPT ![s] = srv[s]]
           /\ client = [client EXCEPT ![s] = client[s]]
           /\ table \subseteq Session
           /\ srv[s].buf \in Nat /\ client[s].shown \in Nat /\ proc[s].made \in Nat
           /\ client[s].typed \in Nat /\ proc[s].fed \in Nat
BY BoundAssumption, SMTT(40) DEF IInv, SessionInv, TypeOK, Handler, Client, Process

LEMMA FindStep ==
    ASSUME IInv, NEW s \in Session, Find(s)
    PROVE  IInv'
<1> DEFINE a == [srv[s] EXCEPT !.pc = "found"]
<1>1. /\ Quiet
      /\ srv' = [srv EXCEPT ![s] = a]
      /\ client' = client
      /\ table' = table
      /\ srv[s].pc = "idle"
  BY QuietFacts DEF Find, Quiet, server, machine
<1>H1. a \in Handler
  BY <1>1, QuietFacts DEF Handler
<1>H2. /\ srv'[s] = a
       /\ a.pc = "found"
       /\ a.ready = srv[s].ready /\ a.closed = srv[s].closed
       /\ a.code = srv[s].code /\ a.buf = srv[s].buf
       /\ a.hand = srv[s].hand
  BY <1>1, QuietFacts DEF Handler
<1> HIDE DEF a
<1>3. DownKept(s) /\ UpKept(s)
  BY <1>1, DownUnchanged, UpUnchanged DEF Quiet
<1>4. OpenInv(s)'
  BY <1>1, <1>H2, <1>3, QuietFacts DEF OpenInv, DownKept, UpKept, Quiet
<1>5. InputInv(s)'
  BY <1>1, <1>H2, <1>3, QuietFacts, InputKept DEF Quiet
<1>6. TableInv(s)'
  BY <1>1, <1>H2, QuietFacts DEF TableInv, OpenInv, Quiet
<1>7. OutputInv(s)'
  BY <1>1, <1>H2, <1>3, QuietFacts, SMTT(30) DEF OutputInv, OpenInv, TableInv, UpKept, InHand, Quiet
<1> QED BY <1>1, <1>H1, <1>H2, <1>4, <1>5, <1>6, <1>7, QuietFacts, QuietAssemble

LEMMA RefuseHereStep ==
    ASSUME IInv, NEW s \in Session, Refuse(s) /\ client[s].st = "here"
    PROVE  IInv'
<1> DEFINE a == [srv[s] EXCEPT !.pc = "done"]
           b == [client[s] EXCEPT !.told = "refused"]
<1>1. /\ Quiet
      /\ srv' = [srv EXCEPT ![s] = a]
      /\ client' = [client EXCEPT ![s] = b]
      /\ table' = table
      /\ srv[s].pc \in {"idle", "found"}
  BY QuietFacts DEF Refuse, Quiet, server, machine, Tell
<1>H1. a \in Handler
  BY <1>1, QuietFacts DEF Handler
<1>H2. /\ srv'[s] = a
       /\ a.pc = "done"
       /\ a.ready = srv[s].ready /\ a.closed = srv[s].closed
       /\ a.code = srv[s].code /\ a.buf = srv[s].buf
       /\ a.hand = srv[s].hand
  BY <1>1, QuietFacts DEF Handler
<1>C1. b \in Client
  BY <1>1, QuietFacts DEF Client
<1>C2. /\ client'[s] = b
       /\ b.told = "refused"
       /\ b.st = client[s].st /\ b.typed = client[s].typed
       /\ b.eof = client[s].eof /\ b.shown = client[s].shown
  BY <1>1, QuietFacts DEF Client
<1> HIDE DEF a, b
<1>3. DownKept(s) /\ UpKept(s)
  BY <1>1, DownUnchanged, UpUnchanged DEF Quiet
<1>4. OpenInv(s)'
  BY <1>1, <1>H2, <1>C2, <1>3, QuietFacts DEF OpenInv, DownKept, UpKept, Quiet
<1>5. InputInv(s)'
  BY <1>1, <1>H2, <1>C2, <1>3, QuietFacts, InputKept DEF Quiet
<1>6. TableInv(s)'
  BY <1>1, <1>H2, <1>C2, QuietFacts DEF TableInv, OpenInv, Quiet
<1>7. OutputInv(s)'
  BY <1>1, <1>H2, <1>C2, <1>3, QuietFacts, SMTT(30) DEF OutputInv, OpenInv, TableInv, UpKept, InHand, Quiet
<1> QED BY <1>1, <1>H1, <1>H2, <1>C1, <1>4, <1>5, <1>6, <1>7, QuietFacts, QuietAssemble

LEMMA RefuseGoneStep ==
    ASSUME IInv, NEW s \in Session, Refuse(s) /\ client[s].st # "here"
    PROVE  IInv'
<1> DEFINE a == [srv[s] EXCEPT !.pc = "done"]
<1>1. /\ Quiet
      /\ srv' = [srv EXCEPT ![s] = a]
      /\ client' = client
      /\ table' = table
      /\ srv[s].pc \in {"idle", "found"}
  BY QuietFacts DEF Refuse, Quiet, server, machine, Tell
<1>H1. a \in Handler
  BY <1>1, QuietFacts, SMTT(40) DEF Handler
<1>H2. /\ srv'[s] = a
       /\ a.pc = "done"
       /\ a.ready = srv[s].ready /\ a.closed = srv[s].closed
       /\ a.code = srv[s].code /\ a.buf = srv[s].buf
       /\ a.hand = srv[s].hand
  BY <1>1, QuietFacts DEF Handler
<1> HIDE DEF a
<1>3. DownKept(s) /\ UpKept(s)
  BY <1>1, DownUnchanged, UpUnchanged DEF Quiet
<1>4. OpenInv(s)'
  BY <1>1, <1>H2, <1>3, QuietFacts DEF OpenInv, DownKept, UpKept, Quiet
<1>5. InputInv(s)'
  BY <1>1, <1>H2, <1>3, QuietFacts, InputKept DEF Quiet
<1>6. TableInv(s)'
  BY <1>1, <1>H2, QuietFacts DEF TableInv, OpenInv, Quiet
<1>7. OutputInv(s)'
  BY <1>1, <1>H2, <1>3, QuietFacts, SMTT(30) DEF OutputInv, OpenInv, TableInv, UpKept, InHand, Quiet
<1> QED BY <1>1, <1>H1, <1>H2, <1>4, <1>5, <1>6, <1>7, QuietFacts, QuietAssemble

LEMMA AddSessionStep ==
    ASSUME IInv, NEW s \in Session, AddSession(s)
    PROVE  IInv'
<1> DEFINE a == [srv[s] EXCEPT !.pc = "added"]
<1>1. /\ Quiet
      /\ srv' = [srv EXCEPT ![s] = a]
      /\ client' = client
      /\ table' = table \cup {s}
      /\ srv[s].pc = "found"
  BY QuietFacts DEF AddSession, Quiet, server, machine
<1>H1. a \in Handler
  BY <1>1, QuietFacts DEF Handler
<1>H2. /\ srv'[s] = a
       /\ a.pc = "added"
       /\ a.ready = srv[s].ready /\ a.closed = srv[s].closed
       /\ a.code = srv[s].code /\ a.buf = srv[s].buf
       /\ a.hand = srv[s].hand
  BY <1>1, QuietFacts DEF Handler
<1> HIDE DEF a
<1>3. DownKept(s) /\ UpKept(s)
  BY <1>1, DownUnchanged, UpUnchanged DEF Quiet
<1>4. OpenInv(s)'
  BY <1>1, <1>H2, <1>3, QuietFacts DEF OpenInv, DownKept, UpKept, Quiet
<1>5. InputInv(s)'
  BY <1>1, <1>H2, <1>3, QuietFacts, InputKept DEF Quiet
<1>6. TableInv(s)'
  BY <1>1, <1>H2, QuietFacts DEF TableInv, OpenInv, Quiet
<1>7. OutputInv(s)'
  <2>1. /\ proc[s].made = 0 /\ client[s].shown = 0 /\ ~srv[s].hand
        /\ srv[s].buf = 0 /\ Up("data", s) = 0 /\ srv[s].code = "255"
    BY <1>1, QuietFacts DEF OpenInv
  <2>2. InHand(s)' = 0 /\ Up("data", s)' = 0
    BY <2>1, <1>H2, <1>3 DEF InHand, UpKept
  <2>3. proc'[s].made =
            client'[s].shown + InHand(s)' + srv'[s].buf + Up("data", s)'
    BY <1>1, <1>H2, <2>1, <2>2 DEF Quiet
  <2>4. OutputInv(s)
    BY QuietFacts
  <2> QED BY <1>1, <1>H2, <1>3, <2>1, <2>3, <2>4, SMTT(40)
             DEF OutputInv, UpKept, Quiet
<1>8. /\ client[s] \in Client /\ client' = [client EXCEPT ![s] = client[s]]
      /\ srv[s].pc # "done"
  BY <1>1, QuietFacts
<1>9. /\ table' \subseteq Session
      /\ \A x \in Session \ {s} : x \in table' <=> x \in table
  BY <1>1, QuietFacts
<1> QED BY <1>1, <1>H1, <1>4, <1>5, <1>6, <1>7, <1>8, <1>9, QuietAssemble

LEMMA ReadyStep ==
    ASSUME IInv, NEW s \in Session, Ready(s)
    PROVE  IInv'
<1> DEFINE a == [srv[s] EXCEPT !.pc = "piping"]
<1>1. /\ Quiet
      /\ srv' = [srv EXCEPT ![s] = a]
      /\ client' = client
      /\ table' = table
      /\ srv[s].pc = "waiting" /\ srv[s].ready = "ok"
  BY QuietFacts DEF Ready, Quiet, server, machine
<1>H1. a \in Handler
  BY <1>1, QuietFacts DEF Handler
<1>H2. /\ srv'[s] = a
       /\ a.pc = "piping"
       /\ a.ready = srv[s].ready /\ a.closed = srv[s].closed
       /\ a.code = srv[s].code /\ a.buf = srv[s].buf
       /\ a.hand = srv[s].hand
  BY <1>1, QuietFacts DEF Handler
<1> HIDE DEF a
<1>3. DownKept(s) /\ UpKept(s)
  BY <1>1, DownUnchanged, UpUnchanged DEF Quiet
<1>4. OpenInv(s)'
  BY <1>1, <1>H2, <1>3, QuietFacts DEF OpenInv, DownKept, UpKept, Quiet
<1>5. InputInv(s)'
  BY <1>1, <1>H2, <1>3, QuietFacts, InputKept DEF Quiet
<1>6. TableInv(s)'
  BY <1>1, <1>H2, QuietFacts DEF TableInv, OpenInv, Quiet
<1>7. OutputInv(s)'
  BY <1>1, <1>H2, <1>3, QuietFacts, SMTT(30) DEF OutputInv, OpenInv, TableInv, UpKept, InHand, Quiet
<1> QED BY <1>1, <1>H1, <1>H2, <1>4, <1>5, <1>6, <1>7, QuietFacts, QuietAssemble

LEMMA TakeStep ==
    ASSUME IInv, NEW s \in Session, Take(s)
    PROVE  IInv'
<1> DEFINE a == [srv[s] EXCEPT !.hand = TRUE, !.buf = srv[s].buf - 1]
<1>1. /\ Quiet
      /\ srv' = [srv EXCEPT ![s] = a]
      /\ client' = client
      /\ table' = table
      /\ srv[s].pc = "piping" /\ ~srv[s].hand /\ srv[s].buf > 0
  BY QuietFacts DEF Take, Quiet, server, machine
<1>H1. a \in Handler
  <2>1. srv[s].buf - 1 \in 0..BufLen
    BY <1>1, QuietFacts, BoundAssumption DEF Handler
  <2> QED BY <2>1, QuietFacts DEF Handler
<1>H2. /\ srv'[s] = a
       /\ a.hand = TRUE /\ a.buf = srv[s].buf - 1
       /\ a.pc = srv[s].pc /\ a.ready = srv[s].ready
       /\ a.closed = srv[s].closed /\ a.code = srv[s].code
  BY <1>1, QuietFacts, ZenonT(60) DEF Handler
<1> HIDE DEF a
<1>3. DownKept(s) /\ UpKept(s)
  BY <1>1, DownUnchanged, UpUnchanged DEF Quiet
<1>4. OpenInv(s)'
  BY <1>1, <1>H2, <1>3, QuietFacts DEF OpenInv, DownKept, UpKept, Quiet
<1>5. InputInv(s)'
  BY <1>1, <1>H2, <1>3, QuietFacts, InputKept DEF Quiet
<1>6. TableInv(s)'
  BY <1>1, <1>H2, QuietFacts DEF TableInv, OpenInv, Quiet
<1>7. OutputInv(s)'
  <2>1. InHand(s)' = 1 /\ InHand(s) = 0
    BY <1>1, <1>H2 DEF InHand
  <2>2. InHand(s)' + srv'[s].buf = InHand(s) + srv[s].buf
    BY <1>1, <1>H2, <2>1, QuietFacts
  <2>3. client[s].shown + InHand(s)' + srv'[s].buf
          = client[s].shown + InHand(s) + srv[s].buf
    BY <1>1, <1>H2, <2>1, QuietFacts
  <2> QED BY <1>1, <1>H2, <1>3, <2>3, QuietFacts DEF OutputInv, UpKept, Quiet
<1> QED BY <1>1, <1>H1, <1>H2, <1>4, <1>5, <1>6, <1>7, QuietFacts, QuietAssemble

LEMMA ClientReadsStep ==
    ASSUME IInv, NEW s \in Session, ClientReads(s)
    PROVE  IInv'
<1> DEFINE a == [srv[s] EXCEPT !.hand = FALSE]
           b == [client[s] EXCEPT !.shown = client[s].shown + 1]
<1>1. /\ Quiet
      /\ srv' = [srv EXCEPT ![s] = a]
      /\ client' = [client EXCEPT ![s] = b]
      /\ table' = table
      /\ srv[s].hand /\ client[s].st = "here"
  BY QuietFacts DEF ClientReads, Quiet, server, machine
<1>H1. a \in Handler
  BY <1>1, QuietFacts, ZenonT(40) DEF Handler
<1>H2. /\ srv'[s] = a
       /\ a.hand = FALSE
       /\ a.pc = srv[s].pc /\ a.ready = srv[s].ready
       /\ a.closed = srv[s].closed /\ a.code = srv[s].code
       /\ a.buf = srv[s].buf
  BY <1>1, QuietFacts, ZenonT(60) DEF Handler
<1>C1. b \in Client
  BY <1>1, QuietFacts DEF Client
<1>C2. /\ client'[s] = b
       /\ b.shown = client[s].shown + 1
       /\ b.st = client[s].st /\ b.typed = client[s].typed
       /\ b.eof = client[s].eof /\ b.told = client[s].told
  BY <1>1, QuietFacts DEF Client
<1> HIDE DEF a, b
<1>3. DownKept(s) /\ UpKept(s)
  BY <1>1, DownUnchanged, UpUnchanged DEF Quiet
<1>4. OpenInv(s)'
  BY <1>1, <1>H2, <1>C2, <1>3, QuietFacts DEF OpenInv, DownKept, UpKept, Quiet
<1>5. InputInv(s)'
  BY <1>1, <1>H2, <1>C2, <1>3, QuietFacts, InputKept DEF Quiet
<1>6. TableInv(s)'
  BY <1>1, <1>H2, <1>C2, QuietFacts DEF TableInv, OpenInv, Quiet
<1>7. OutputInv(s)'
  BY <1>1, <1>H2, <1>C2, <1>3, QuietFacts, SMTT(30) DEF OutputInv, OpenInv, TableInv, UpKept, InHand, Quiet
<1> QED BY <1>1, <1>H1, <1>H2, <1>C1, <1>4, <1>5, <1>6, <1>7, QuietFacts, QuietAssemble

LEMMA PipeEndsStep ==
    ASSUME IInv, NEW s \in Session, PipeEnds(s)
    PROVE  IInv'
<1> DEFINE a == [srv[s] EXCEPT !.pc = "closing", !.hand = FALSE]
<1>1. /\ Quiet
      /\ srv' = [srv EXCEPT ![s] = a]
      /\ client' = client
      /\ table' = table
      /\ srv[s].pc = "piping"
      /\ \/ client[s].st # "here"
         \/ ~srv[s].hand /\ srv[s].closed /\ srv[s].buf = 0
  BY QuietFacts DEF PipeEnds, Quiet, server, machine
<1>H1. a \in Handler
  BY <1>1, QuietFacts, ZenonT(40) DEF Handler
<1>H2. /\ srv'[s] = a
       /\ a.pc = "closing" /\ a.hand = FALSE
       /\ a.ready = srv[s].ready /\ a.closed = srv[s].closed
       /\ a.code = srv[s].code /\ a.buf = srv[s].buf
  BY <1>1, QuietFacts DEF Handler
<1> HIDE DEF a
<1>3. DownKept(s) /\ UpKept(s)
  BY <1>1, DownUnchanged, UpUnchanged DEF Quiet
<1>4. OpenInv(s)'
  BY <1>1, <1>H2, <1>3, QuietFacts DEF OpenInv, DownKept, UpKept, Quiet
<1>5. InputInv(s)'
  BY <1>1, <1>H2, <1>3, QuietFacts, InputKept DEF Quiet
<1>6. TableInv(s)'
  BY <1>1, <1>H2, QuietFacts DEF TableInv, OpenInv, Quiet
<1>7. OutputInv(s)'
  BY <1>1, <1>H2, <1>3, QuietFacts, SMTT(30) DEF OutputInv, OpenInv, TableInv, UpKept, InHand, Quiet
<1> QED BY <1>1, <1>H1, <1>H2, <1>4, <1>5, <1>6, <1>7, QuietFacts, QuietAssemble

LEMMA HangUpStep ==
    ASSUME IInv, NEW s \in Session, HangUp(s)
    PROVE  IInv'
<1> DEFINE b == [client[s] EXCEPT !.st = "hungup"]
<1>1. /\ Quiet
      /\ srv' = srv
      /\ client' = [client EXCEPT ![s] = b]
      /\ table' = table
      /\ client[s].st = "here"
  BY QuietFacts DEF HangUp, Quiet, server, machine
<1>C1. b \in Client
  BY <1>1, QuietFacts DEF Client
<1>C2. /\ client'[s] = b
       /\ b.st = "hungup"
       /\ b.typed = client[s].typed /\ b.eof = client[s].eof
       /\ b.shown = client[s].shown /\ b.told = client[s].told
  BY <1>1, QuietFacts DEF Client
<1> HIDE DEF b
<1>3. DownKept(s) /\ UpKept(s)
  BY <1>1, DownUnchanged, UpUnchanged DEF Quiet
<1>4. OpenInv(s)'
  BY <1>1, <1>C2, <1>3, QuietFacts DEF OpenInv, DownKept, UpKept, Quiet
<1>5. InputInv(s)'
  BY <1>1, <1>C2, <1>3, QuietFacts, InputKept DEF Quiet
<1>6. TableInv(s)'
  BY <1>1, <1>C2, QuietFacts DEF TableInv, OpenInv, Quiet
<1>7. OutputInv(s)'
  BY <1>1, <1>C2, <1>3, QuietFacts, SMTT(30) DEF OutputInv, OpenInv, TableInv, UpKept, InHand, Quiet
<1> QED BY <1>1, <1>C1, <1>4, <1>5, <1>6, <1>7, QuietFacts, QuietAssemble

LEMMA LeaveStep ==
    ASSUME IInv, NEW s \in Session, Leave(s)
    PROVE  IInv'
<1> DEFINE b == [client[s] EXCEPT !.st = "left"]
<1>1. /\ Quiet
      /\ srv' = srv
      /\ client' = [client EXCEPT ![s] = b]
      /\ table' = table
      /\ client[s].st # "left"
  BY QuietFacts DEF Leave, Quiet, server, machine
<1>C1. b \in Client
  BY <1>1, QuietFacts DEF Client
<1>C2. /\ client'[s] = b
       /\ b.st = "left"
       /\ b.typed = client[s].typed /\ b.eof = client[s].eof
       /\ b.shown = client[s].shown /\ b.told = client[s].told
  BY <1>1, QuietFacts DEF Client
<1> HIDE DEF b
<1>3. DownKept(s) /\ UpKept(s)
  BY <1>1, DownUnchanged, UpUnchanged DEF Quiet
<1>4. OpenInv(s)'
  BY <1>1, <1>C2, <1>3, QuietFacts DEF OpenInv, DownKept, UpKept, Quiet
<1>5. InputInv(s)'
  BY <1>1, <1>C2, <1>3, QuietFacts, InputKept DEF Quiet
<1>6. TableInv(s)'
  BY <1>1, <1>C2, QuietFacts DEF TableInv, OpenInv, Quiet
<1>7. OutputInv(s)'
  BY <1>1, <1>C2, <1>3, QuietFacts, SMTT(30) DEF OutputInv, OpenInv, TableInv, UpKept, InHand, Quiet
<1> QED BY <1>1, <1>C1, <1>4, <1>5, <1>6, <1>7, QuietFacts, QuietAssemble

-----------------------------------------------------------------------------
(* The steps that send to the agent.                                       *)

Serving ==
    /\ srvUp' = srvUp /\ agtUp' = agtUp /\ lost' = lost
    /\ toServer' = toServer
    /\ sess' = sess /\ inq' = inq /\ proc' = proc /\ stalled' = stalled

LEMMA ServingAssemble ==
    ASSUME IInv, NEW s \in Session, Serving,
           NEW t \in {"open", "data", "eof", "close"},
           \/ ServerSends(t, s) /\ (t = "close" => srv'[s].pc = "done")
           \/ toAgent' = toAgent,
           srv[s].pc = "done" => srv'[s].pc = "done",
           NEW a \in Handler, srv' = [srv EXCEPT ![s] = a],
           NEW b \in Client, client' = [client EXCEPT ![s] = b],
           table' = table \/ table' = table \ {s},
           OpenInv(s)', InputInv(s)', TableInv(s)', OutputInv(s)'
    PROVE  IInv'
<1>1. TypeOK /\ ShutInv /\ SessionInv(s)
  BY DEF IInv
<1>2. /\ toAgent' \in Seq(ToAgent) /\ (~agtUp => toAgent' = toAgent)
      /\ \A x \in Session \ {s} : DownKept(x) /\ CloseKept(x)
  <2>1. CASE ServerSends(t, s)
    <3>1. /\ toAgent' \in Seq(ToAgent) /\ (~agtUp => toAgent' = toAgent)
          /\ \A k, x : x # s => Down(k, x)' = Down(k, x) + 0
      BY <1>1, <2>1, ServerSendsCounts DEF Bit
    <3>2. \A k, x : Down(k, x) \in Nat
      BY <1>1, CountsNat
    <3>3. \A k, x : x # s => Down(k, x)' = Down(k, x)
      BY <3>1, <3>2
    <3>4. \A x \in Session \ {s} :
            NeverAfter(toAgent, Frame("data", x), Frame("eof", x))
             => NeverAfter(toAgent', Frame("data", x), Frame("eof", x))
      BY <1>1, <2>1, ServerSendsCounts
    <3> QED BY <3>1, <3>3, <3>4 DEF DownKept, CloseKept, Serving
  <2>2. CASE toAgent' = toAgent
    BY <1>1, <2>2, DownUnchanged, CloseUnchanged DEF TypeOK, Serving
  <2> QED BY <2>1, <2>2
<1>3. TypeOK'
  BY <1>1, <1>2 DEF TypeOK, Serving
<1>4. ShutInv'
  BY <1>1, <1>2 DEF ShutInv, Serving
<1>5. RunInv(s)'
  BY <1>1, RunKept DEF SessionInv, Serving
<1>6. \A x \in Session \ {s} : SameFor(x) /\ DownKept(x) /\ UpKept(x)
                               /\ CloseKept(x)
  BY <1>1, <1>2, UpUnchanged DEF Serving, SameFor, TypeOK
<1>7. CloseInv(s)'
  <2>1. Down("close", s)' > 0 => Down("close", s) > 0 \/ srv'[s].pc = "done"
    <3>1. CASE ServerSends(t, s) /\ t # "close"
      <4>1. Down("close", s)' = Down("close", s) + 0
        BY <1>1, <3>1, ServerSendsCounts DEF Bit
      <4>2. Down("close", s) \in Nat
        BY <1>1, CountsNat
      <4> QED BY <4>1, <4>2
    <3>2. CASE toAgent' = toAgent
      BY <3>2 DEF Down
    <3> QED BY <3>1, <3>2
  <2> QED BY <1>1, <2>1 DEF SessionInv, CloseInv, Ended, Serving
<1> QED BY <1>3, <1>4, <1>5, <1>6, <1>7, Assemble DEF SessionInv, Serving

\* session.closed once removeSession has run.
Shut(s) == IF s \in table THEN TRUE ELSE srv[s].closed

LEMMA ShutType ==
    ASSUME IInv, NEW s \in Session
    PROVE  Shut(s) \in BOOLEAN
BY QuietFacts DEF Shut, Handler

LEMMA HandlerClosed ==
    ASSUME NEW h \in Handler, NEW c \in BOOLEAN
    PROVE  /\ [h EXCEPT !.closed = c] \in Handler
           /\ \A v \in {"idle", "found", "added", "waiting", "piping", "closing",
                        "done"} : [h EXCEPT !.closed = c, !.pc = v] \in Handler
           /\ \A v \in {"none", "ok", "err"} :
                [h EXCEPT !.closed = c, !.ready = v] \in Handler
           /\ \A v \in Code : [h EXCEPT !.closed = c, !.code = v] \in Handler
BY DEF Handler

LEMMA RemovedIs ==
    ASSUME IInv, NEW s \in Session
    PROVE  /\ Removed(s) = [srv EXCEPT ![s] = [srv[s] EXCEPT !.closed = Shut(s)]]
           /\ [Removed(s) EXCEPT ![s].pc = "done"] =
               [srv EXCEPT ![s] = [srv[s] EXCEPT !.closed = Shut(s), !.pc = "done"]]
           /\ \A v : [Removed(s) EXCEPT ![s].ready = v] =
               [srv EXCEPT ![s] = [srv[s] EXCEPT !.closed = Shut(s), !.ready = v]]
           /\ \A v : [Removed(s) EXCEPT ![s].code = v] =
               [srv EXCEPT ![s] = [srv[s] EXCEPT !.closed = Shut(s), !.code = v]]
<1>1. CASE s \in table
  BY <1>1, QuietFacts DEF Removed, Shut
<1>2. CASE s \notin table
  <2>1. Removed(s) = srv /\ Shut(s) = srv[s].closed
    BY <1>2 DEF Removed, Shut
  <2>2. /\ [srv[s] EXCEPT !.closed = srv[s].closed] = srv[s]
        /\ [srv[s] EXCEPT !.closed = srv[s].closed, !.pc = "done"]
            = [srv[s] EXCEPT !.pc = "done"]
        /\ \A v : [srv[s] EXCEPT !.closed = srv[s].closed, !.ready = v]
            = [srv[s] EXCEPT !.ready = v]
        /\ \A v : [srv[s] EXCEPT !.closed = srv[s].closed, !.code = v]
            = [srv[s] EXCEPT !.code = v]
    BY QuietFacts DEF Handler
  <2> QED BY <2>1, <2>2, QuietFacts
<1> QED BY <1>1, <1>2

\* A close frame counts for nothing.
LEMMA CloseFrameKeeps ==
    ASSUME IInv, NEW s \in Session, ServerSends("close", s)
    PROVE  DownKept(s)
<1>1. TypeOK /\ \A k, x : Down(k, x) \in Nat
  BY CountsNat DEF IInv
<1>2. \A k \in {"open", "data", "eof"} : Down(k, s)' = Down(k, s) + 0
  BY <1>1, ServerSendsCounts DEF Bit
<1>3. \A k \in {"open", "data", "eof"} : Down(k, s)' = Down(k, s)
  BY <1>1, <1>2
<1> QED BY <1>1, <1>3, ServerSendsCounts DEF DownKept

\* Any other frame counts when the connection stands.
LEMMA FrameCounts ==
    ASSUME IInv, NEW t \in {"open", "data", "eof"}, NEW s \in Session,
           ServerSends(t, s), t = "data" => Down("eof", s) = 0
    PROVE  /\ Down(t, s)' = Down(t, s) + Bit(srvUp /\ agtUp)
           /\ \A k \in {"open", "data", "eof"} \ {t} : Down(k, s)' = Down(k, s)
           /\ NeverAfter(toAgent, Frame("data", s), Frame("eof", s))
                => NeverAfter(toAgent', Frame("data", s), Frame("eof", s))
<1>1. TypeOK /\ \A k, x : Down(k, x) \in Nat
  BY CountsNat DEF IInv
<1>2. \A k : Down(k, s)' = Down(k, s) + Bit(srvUp /\ agtUp /\ k = t)
  BY <1>1, ServerSendsCounts DEF Bit
<1>3. \A k : k # t => Down(k, s)' = Down(k, s)
  BY <1>1, <1>2 DEF Bit
<1>4. Down(t, s)' = Down(t, s) + Bit(srvUp /\ agtUp)
  BY <1>2 DEF Bit
<1> QED BY <1>1, <1>3, <1>4, ServerSendsCounts

LEMMA NotReadyHereStep ==
    ASSUME IInv, NEW s \in Session, NEW why \in {"unready", "closed"},
           NotReady(s, why), client[s].st = "here"
    PROVE  IInv'
<1> DEFINE a == [srv[s] EXCEPT !.closed = Shut(s), !.pc = "done"]
           b == [client[s] EXCEPT !.told = why]
<1>1. /\ Serving
      /\ ServerSends("close", s)
      /\ srv' = [srv EXCEPT ![s] = a]
      /\ client' = [client EXCEPT ![s] = b]
      /\ table' = table \ {s}
      /\ srv[s].pc = "waiting"
  BY QuietFacts, RemovedIs DEF NotReady, Tell, Serving, server, machine
<1>H1. a \in Handler
  BY <1>1, QuietFacts, ShutType, HandlerClosed
<1>H2. /\ srv'[s] = a
       /\ a.closed = Shut(s) /\ a.pc = "done"
       /\ a.ready = srv[s].ready /\ a.code = srv[s].code
       /\ a.buf = srv[s].buf /\ a.hand = srv[s].hand
  BY <1>1, QuietFacts DEF Handler
<1>C1. b \in Client
  BY <1>1, QuietFacts, BoundAssumption DEF Client
<1>C2. /\ client'[s] = b
       /\ b.told = why
       /\ b.st = client[s].st /\ b.typed = client[s].typed
       /\ b.eof = client[s].eof /\ b.shown = client[s].shown
  BY <1>1, QuietFacts DEF Client
<1> HIDE DEF a, b
<1>3. UpKept(s)
  BY <1>1, UpUnchanged DEF Serving
<1>4. DownKept(s)
  BY <1>1, CloseFrameKeeps
<1>5. OpenInv(s)'
  BY <1>1, <1>H2, <1>C2, <1>3, <1>4, QuietFacts DEF OpenInv, TableInv, DownKept, UpKept, Serving
<1>6. InputInv(s)'
  BY <1>1, <1>H2, <1>C2, <1>4, QuietFacts, InputKept DEF Serving
<1>7. TableInv(s)'
  BY <1>1, <1>H2, <1>C2, QuietFacts DEF TableInv, OpenInv, Serving
<1>8. OutputInv(s)'
  BY <1>1, <1>H2, <1>C2, <1>3, QuietFacts DEF OutputInv, OpenInv, TableInv, UpKept, InHand, Serving
<1> QED BY <1>1, <1>H1, <1>H2, <1>C1, <1>5, <1>6, <1>7, <1>8, QuietFacts, ServingAssemble

LEMMA FinishHereStep ==
    ASSUME IInv, NEW s \in Session, Finish(s), client[s].st = "here"
    PROVE  IInv'
<1> DEFINE a == [srv[s] EXCEPT !.closed = Shut(s), !.pc = "done"]
           b == [client[s] EXCEPT !.told = srv[s].code]
<1>1. /\ Serving
      /\ ServerSends("close", s)
      /\ srv' = [srv EXCEPT ![s] = a]
      /\ client' = [client EXCEPT ![s] = b]
      /\ table' = table \ {s}
      /\ srv[s].pc = "closing" /\ client[s].st = "here"
  BY QuietFacts, RemovedIs DEF Finish, Serving, server, machine, Tell
<1>H1. a \in Handler
  BY <1>1, QuietFacts, ShutType, HandlerClosed
<1>H2. /\ srv'[s] = a
       /\ a.closed = Shut(s) /\ a.pc = "done"
       /\ a.ready = srv[s].ready /\ a.code = srv[s].code
       /\ a.buf = srv[s].buf /\ a.hand = srv[s].hand
  BY <1>1, QuietFacts DEF Handler
<1>C1. b \in Client
  BY <1>1, QuietFacts, BoundAssumption, SMTT(40) DEF Client, Handler, Code
<1>C2. /\ client'[s] = b
       /\ b.told = srv[s].code
       /\ b.st = client[s].st /\ b.typed = client[s].typed
       /\ b.eof = client[s].eof /\ b.shown = client[s].shown
  BY <1>1, QuietFacts DEF Client, Handler, Code
<1> HIDE DEF a, b
<1>3. UpKept(s)
  BY <1>1, UpUnchanged DEF Serving
<1>4. DownKept(s)
  BY <1>1, CloseFrameKeeps
<1>5. OpenInv(s)'
  BY <1>1, <1>H2, <1>C2, <1>3, <1>4, QuietFacts DEF OpenInv, TableInv, DownKept, UpKept, Serving
<1>6. InputInv(s)'
  BY <1>1, <1>H2, <1>C2, <1>4, QuietFacts, InputKept DEF Serving
<1>7. TableInv(s)'
  BY <1>1, <1>H2, <1>C2, QuietFacts DEF TableInv, OpenInv, Serving
<1>8. OutputInv(s)'
  BY <1>1, <1>H2, <1>C2, <1>3, QuietFacts DEF OutputInv, OpenInv, TableInv, UpKept, InHand, Serving
<1> QED BY <1>1, <1>H1, <1>H2, <1>C1, <1>5, <1>6, <1>7, <1>8, QuietFacts, ServingAssemble

LEMMA NotReadyGoneStep ==
    ASSUME IInv, NEW s \in Session, NEW why \in {"unready", "closed"},
           NotReady(s, why), client[s].st # "here"
    PROVE  IInv'
<1> DEFINE a == [srv[s] EXCEPT !.closed = Shut(s), !.pc = "done"]
<1>1. /\ Serving
      /\ ServerSends("close", s)
      /\ srv' = [srv EXCEPT ![s] = a]
      /\ client' = client
      /\ table' = table \ {s}
      /\ srv[s].pc = "waiting"
  BY QuietFacts, RemovedIs DEF NotReady, Tell, Serving, server, machine
<1>H1. a \in Handler
  BY <1>1, QuietFacts, ShutType, HandlerClosed
<1>H2. /\ srv'[s] = a
       /\ a.closed = Shut(s) /\ a.pc = "done"
       /\ a.ready = srv[s].ready /\ a.code = srv[s].code
       /\ a.buf = srv[s].buf /\ a.hand = srv[s].hand
  BY <1>1, QuietFacts DEF Handler
<1> HIDE DEF a
<1>3. UpKept(s)
  BY <1>1, UpUnchanged DEF Serving
<1>4. DownKept(s)
  BY <1>1, CloseFrameKeeps
<1>5. OpenInv(s)'
  BY <1>1, <1>H2, <1>3, <1>4, QuietFacts DEF OpenInv, TableInv, DownKept, UpKept, Serving
<1>6. InputInv(s)'
  BY <1>1, <1>H2, <1>4, QuietFacts, InputKept DEF Serving
<1>7. TableInv(s)'
  BY <1>1, <1>H2, QuietFacts DEF TableInv, OpenInv, Serving
<1>8. OutputInv(s)'
  BY <1>1, <1>H2, <1>3, QuietFacts DEF OutputInv, OpenInv, TableInv, UpKept, InHand, Serving
<1> QED BY <1>1, <1>H1, <1>H2, <1>5, <1>6, <1>7, <1>8, QuietFacts, ServingAssemble

LEMMA FinishGoneStep ==
    ASSUME IInv, NEW s \in Session, Finish(s), client[s].st # "here"
    PROVE  IInv'
<1> DEFINE a == [srv[s] EXCEPT !.closed = Shut(s), !.pc = "done"]
<1>1. /\ Serving
      /\ ServerSends("close", s)
      /\ srv' = [srv EXCEPT ![s] = a]
      /\ client' = client
      /\ table' = table \ {s}
      /\ srv[s].pc = "closing" /\ client[s].st # "here"
  BY QuietFacts, RemovedIs DEF Finish, Serving, server, machine, Tell
<1>H1. a \in Handler
  BY <1>1, QuietFacts, ShutType, HandlerClosed
<1>H2. /\ srv'[s] = a
       /\ a.closed = Shut(s) /\ a.pc = "done"
       /\ a.ready = srv[s].ready /\ a.code = srv[s].code
       /\ a.buf = srv[s].buf /\ a.hand = srv[s].hand
  BY <1>1, QuietFacts, ZenonT(40) DEF Handler
<1> HIDE DEF a
<1>3. UpKept(s)
  BY <1>1, UpUnchanged DEF Serving
<1>4. DownKept(s)
  BY <1>1, CloseFrameKeeps
<1>5. OpenInv(s)'
  BY <1>1, <1>H2, <1>3, <1>4, QuietFacts DEF OpenInv, TableInv, DownKept, UpKept, Serving
<1>6. InputInv(s)'
  BY <1>1, <1>H2, <1>4, QuietFacts, InputKept DEF Serving
<1>7. TableInv(s)'
  BY <1>1, <1>H2, QuietFacts DEF TableInv, OpenInv, Serving
<1>8. OutputInv(s)'
  BY <1>1, <1>H2, <1>3, QuietFacts DEF OutputInv, OpenInv, TableInv, UpKept, InHand, Serving
<1> QED BY <1>1, <1>H1, <1>H2, <1>5, <1>6, <1>7, <1>8, QuietFacts, ServingAssemble

LEMMA SendOpenUpStep ==
    ASSUME IInv, NEW s \in Session, SendOpen(s), srvUp
    PROVE  IInv'
<1> DEFINE a == [srv[s] EXCEPT !.pc = "waiting"]
<1>1. /\ Serving
      /\ ServerSends("open", s)
      /\ srv' = [srv EXCEPT ![s] = a]
      /\ client' = client
      /\ table' = table
      /\ srv[s].pc = "added" /\ srvUp
  BY QuietFacts DEF SendOpen, Serving, server, machine
<1>H1. a \in Handler
  BY <1>1, QuietFacts DEF Handler
<1>H2. /\ srv'[s] = a
       /\ a.pc = "waiting"
       /\ a.ready = srv[s].ready /\ a.closed = srv[s].closed
       /\ a.code = srv[s].code /\ a.buf = srv[s].buf
       /\ a.hand = srv[s].hand
  BY <1>1, QuietFacts DEF Handler
<1> HIDE DEF a
<1>3. UpKept(s)
  BY <1>1, UpUnchanged DEF Serving
<1>4. /\ Down("open", s)' = Down("open", s) + Bit(srvUp /\ agtUp)
      /\ Down("data", s)' = Down("data", s) /\ Down("eof", s)' = Down("eof", s)
      /\ NeverAfter(toAgent, Frame("data", s), Frame("eof", s))
            => NeverAfter(toAgent', Frame("data", s), Frame("eof", s))
  BY <1>1, QuietFacts, FrameCounts
<1>5a. /\ Down("open", s) \in Nat /\ Down("data", s) \in Nat /\ Down("eof", s) \in Nat
       /\ \A k : Queued(k, s)' = Queued(k, s) /\ Queued(k, s) \in Nat
  BY <1>1, QuietFacts, CountsNat DEF Queued, Serving
<1>5. OpenInv(s)'
  BY <1>1, <1>H2, <1>3, <1>4, <1>5a, QuietFacts DEF OpenInv, UpKept, Serving, Bit
<1>6. InputInv(s)'
  BY <1>1, <1>H2, <1>4, <1>5a, QuietFacts DEF InputInv, Serving
<1>7. TableInv(s)'
  BY <1>1, <1>H2, QuietFacts DEF TableInv, OpenInv, Serving
<1>8. OutputInv(s)'
  BY <1>1, <1>H2, <1>3, QuietFacts, OutputKept DEF Serving
<1> QED BY <1>1, <1>H1, <1>H2, <1>5, <1>6, <1>7, <1>8, QuietFacts, ServingAssemble

LEMMA SendOpenDownHereStep ==
    ASSUME IInv, NEW s \in Session, SendOpen(s), ~srvUp, client[s].st = "here"
    PROVE  IInv'
<1> DEFINE a == [srv[s] EXCEPT !.closed = Shut(s), !.pc = "done"]
           b == [client[s] EXCEPT !.told = "refused"]
<1>1. /\ Serving
      /\ toAgent' = toAgent
      /\ srv' = [srv EXCEPT ![s] = a]
      /\ client' = [client EXCEPT ![s] = b]
      /\ table' = table \ {s}
      /\ srv[s].pc = "added" /\ ~srvUp
  BY QuietFacts, RemovedIs DEF SendOpen, Serving, server, machine, ServerSends, Tell
<1>H1. a \in Handler
  BY <1>1, QuietFacts, ShutType, HandlerClosed
<1>H2. /\ srv'[s] = a
       /\ a.closed = Shut(s) /\ a.pc = "done"
       /\ a.ready = srv[s].ready /\ a.code = srv[s].code
       /\ a.buf = srv[s].buf /\ a.hand = srv[s].hand
  BY <1>1, QuietFacts, ZenonT(40) DEF Handler
<1>C1. b \in Client
  BY <1>1, QuietFacts, BoundAssumption DEF Client
<1>C2. /\ client'[s] = b
       /\ b.told = "refused"
       /\ b.st = client[s].st /\ b.typed = client[s].typed
       /\ b.eof = client[s].eof /\ b.shown = client[s].shown
  BY <1>1, QuietFacts DEF Client
<1> HIDE DEF a, b
<1>3. UpKept(s)
  BY <1>1, UpUnchanged DEF Serving
<1>4. DownKept(s)
  BY <1>1, DownUnchanged
<1>5. OpenInv(s)'
  BY <1>1, <1>H2, <1>C2, <1>3, <1>4, QuietFacts DEF OpenInv, TableInv, DownKept, UpKept, Serving
<1>6. InputInv(s)'
  BY <1>1, <1>H2, <1>C2, <1>4, QuietFacts, InputKept DEF Serving
<1>7. TableInv(s)'
  BY <1>1, <1>H2, <1>C2, QuietFacts DEF TableInv, OpenInv, Serving
<1>8. OutputInv(s)'
  BY <1>1, <1>H2, <1>C2, <1>3, QuietFacts DEF OutputInv, OpenInv, TableInv, UpKept, InHand, Serving
<1> QED BY <1>1, <1>H1, <1>H2, <1>C1, <1>5, <1>6, <1>7, <1>8, QuietFacts, ServingAssemble

LEMMA SendOpenDownGoneStep ==
    ASSUME IInv, NEW s \in Session, SendOpen(s), ~srvUp, client[s].st # "here"
    PROVE  IInv'
<1> DEFINE a == [srv[s] EXCEPT !.closed = Shut(s), !.pc = "done"]
<1>1. /\ Serving
      /\ toAgent' = toAgent
      /\ srv' = [srv EXCEPT ![s] = a]
      /\ client' = client
      /\ table' = table \ {s}
      /\ srv[s].pc = "added" /\ ~srvUp
  BY QuietFacts, RemovedIs DEF SendOpen, Serving, server, machine, ServerSends, Tell
<1>H1. a \in Handler
  BY <1>1, QuietFacts, ShutType, HandlerClosed
<1>H2. /\ srv'[s] = a
       /\ a.closed = Shut(s) /\ a.pc = "done"
       /\ a.ready = srv[s].ready /\ a.code = srv[s].code
       /\ a.buf = srv[s].buf /\ a.hand = srv[s].hand
  BY <1>1, QuietFacts, ZenonT(40) DEF Handler
<1> HIDE DEF a
<1>3. UpKept(s)
  BY <1>1, UpUnchanged DEF Serving
<1>4. DownKept(s)
  BY <1>1, DownUnchanged
<1>5. OpenInv(s)'
  BY <1>1, <1>H2, <1>3, <1>4, QuietFacts DEF OpenInv, TableInv, DownKept, UpKept, Serving
<1>6. InputInv(s)'
  BY <1>1, <1>H2, <1>4, QuietFacts, InputKept DEF Serving
<1>7. TableInv(s)'
  BY <1>1, <1>H2, QuietFacts DEF TableInv, OpenInv, Serving
<1>8. OutputInv(s)'
  BY <1>1, <1>H2, <1>3, QuietFacts DEF OutputInv, OpenInv, TableInv, UpKept, InHand, Serving
<1> QED BY <1>1, <1>H1, <1>H2, <1>5, <1>6, <1>7, <1>8, QuietFacts, ServingAssemble

LEMMA TypeUpStep ==
    ASSUME IInv, NEW s \in Session, Type(s), srvUp
    PROVE  IInv'
<1> DEFINE b == [client[s] EXCEPT !.typed = client[s].typed + 1]
<1>1. /\ Serving
      /\ ServerSends("data", s)
      /\ srv' = srv
      /\ client' = [client EXCEPT ![s] = b]
      /\ table' = table
      /\ srv[s].pc \in {"piping", "closing"} /\ ~client[s].eof
      /\ client[s].st = "here" /\ client[s].typed < MaxIn /\ srvUp
  BY QuietFacts DEF Type, Serving, server, machine, Piping
<1>C1. b \in Client
  <2>1. client[s].typed + 1 \in 0..MaxIn
    BY <1>1, QuietFacts, BoundAssumption
  <2> QED BY <2>1, QuietFacts DEF Client
<1>C2. /\ client'[s] = b
       /\ b.typed = client[s].typed + 1
       /\ b.st = client[s].st /\ b.eof = client[s].eof
       /\ b.shown = client[s].shown /\ b.told = client[s].told
  BY <1>1, QuietFacts DEF Client
<1> HIDE DEF b
<1>3. UpKept(s)
  BY <1>1, UpUnchanged DEF Serving
<1>4. /\ Down("data", s)' = Down("data", s) + Bit(srvUp /\ agtUp)
      /\ Down("open", s)' = Down("open", s) /\ Down("eof", s)' = Down("eof", s)
      /\ NeverAfter(toAgent, Frame("data", s), Frame("eof", s))
            => NeverAfter(toAgent', Frame("data", s), Frame("eof", s))
  BY <1>1, QuietFacts, FrameCounts DEF InputInv
<1>5a. /\ Down("open", s) \in Nat /\ Down("data", s) \in Nat /\ Down("eof", s) \in Nat
       /\ \A k : Queued(k, s)' = Queued(k, s) /\ Queued(k, s) \in Nat
  BY <1>1, QuietFacts, CountsNat DEF Queued, Serving
<1>5. OpenInv(s)'
  BY <1>1, <1>C2, <1>3, <1>4, <1>5a, QuietFacts DEF OpenInv, UpKept, Serving, Bit
<1>6. InputInv(s)'
  <2>1. (s \in sess /\ agtUp => client[s].typed
                         = proc[s].fed + Queued("data", s) + Down("data", s))'
    <3> SUFFICES ASSUME s \in sess, agtUp
                 PROVE  client'[s].typed = proc'[s].fed + Queued("data", s)'
                                           + Down("data", s)'
      BY <1>1 DEF Serving
    <3>1. agtUp /\ client[s].typed = proc[s].fed + Queued("data", s) + Down("data", s)
      BY QuietFacts DEF InputInv
    <3>2. /\ Down("data", s)' = Down("data", s) + 1
          /\ Queued("data", s)' = Queued("data", s) /\ Queued("data", s) \in Nat
          /\ proc'[s].fed = proc[s].fed /\ client'[s].typed = client[s].typed + 1
      BY <3>1, <1>1, <1>C2, <1>4, <1>5a DEF Serving, Bit
    <3>3. proc[s].fed \in Nat /\ client[s].typed \in Nat
      BY QuietFacts
    <3> QED BY <3>1, <3>2, <3>3, <1>5a
  <2>2. /\ proc'[s].fed + Queued("data", s)' <= client'[s].typed
        /\ Queued("eof", s)' = 0
    <3>1. proc[s].fed \in Nat /\ client[s].typed \in Nat
          /\ proc[s].fed + Queued("data", s) <= client[s].typed
          /\ Queued("eof", s) = 0
      BY <1>1, QuietFacts DEF InputInv
    <3>2. proc'[s].fed = proc[s].fed /\ client'[s].typed = client[s].typed + 1
      BY <1>1, <1>C2 DEF Serving
    <3> QED BY <3>1, <3>2, <1>5a
  <2> QED BY <1>1, <1>C2, <1>4, <1>5a, <2>1, <2>2, QuietFacts
          DEF InputInv, Serving, Bit
<1>7. TableInv(s)'
  BY <1>1, <1>C2, QuietFacts DEF TableInv, OpenInv, Serving
<1>8. OutputInv(s)'
  BY <1>1, <1>C2, <1>3, QuietFacts DEF OutputInv, OpenInv, TableInv, UpKept, InHand, Serving
<1> QED BY <1>1, <1>C1, <1>5, <1>6, <1>7, <1>8, QuietFacts, ServingAssemble

LEMMA TypeDownStep ==
    ASSUME IInv, NEW s \in Session, Type(s), ~srvUp
    PROVE  IInv'
<1> DEFINE a == [srv[s] EXCEPT !.closed = Shut(s)]
           b == [client[s] EXCEPT !.eof = TRUE]
<1>1. /\ Serving
      /\ toAgent' = toAgent
      /\ srv' = [srv EXCEPT ![s] = a]
      /\ client' = [client EXCEPT ![s] = b]
      /\ table' = table \ {s}
      /\ srv[s].pc \in {"piping", "closing"} /\ client[s].st = "here"
  BY QuietFacts, RemovedIs DEF Type, Serving, server, machine, Piping
<1>H1. a \in Handler
  BY <1>1, QuietFacts, ShutType, HandlerClosed
<1>H2. /\ srv'[s] = a
       /\ a.closed = Shut(s)
       /\ a.pc = srv[s].pc /\ a.ready = srv[s].ready
       /\ a.code = srv[s].code /\ a.buf = srv[s].buf
       /\ a.hand = srv[s].hand
  BY <1>1, QuietFacts DEF Handler
<1>C1. b \in Client
  BY QuietFacts, ZenonT(40) DEF Client
<1>C2. /\ client'[s] = b
       /\ b.eof = TRUE
       /\ b.st = client[s].st /\ b.typed = client[s].typed
       /\ b.shown = client[s].shown /\ b.told = client[s].told
  BY <1>1, QuietFacts DEF Client
<1> HIDE DEF a, b
<1>3. UpKept(s)
  BY <1>1, UpUnchanged DEF Serving
<1>4. DownKept(s)
  BY <1>1, DownUnchanged
<1>5. OpenInv(s)'
  BY <1>1, <1>H2, <1>C2, <1>3, <1>4, QuietFacts DEF OpenInv, TableInv, DownKept, UpKept, Serving
<1>6. InputInv(s)'
  <2>1. \A k : Queued(k, s)' = Queued(k, s)
    BY <1>1 DEF Queued, Serving
  <2> QED BY <1>1, <1>C2, <1>4, <2>1, QuietFacts DEF InputInv, DownKept, Serving
<1>7. TableInv(s)'
  BY <1>1, <1>H2, <1>C2, QuietFacts DEF TableInv, OpenInv, Serving
<1>8. OutputInv(s)'
  BY <1>1, <1>H2, <1>C2, <1>3, QuietFacts DEF OutputInv, OpenInv, TableInv, UpKept, InHand, Serving
<1> QED BY <1>1, <1>H1, <1>H2, <1>C1, <1>5, <1>6, <1>7, <1>8, QuietFacts, ServingAssemble

LEMMA CloseStdinPlainStep ==
    ASSUME IInv, NEW s \in Session, CloseStdin(s), s \notin Pty
    PROVE  IInv'
<1> DEFINE b == [client[s] EXCEPT !.eof = TRUE]
<1>1. /\ Serving
      /\ ServerSends("eof", s)
      /\ srv' = srv
      /\ client' = [client EXCEPT ![s] = b]
      /\ table' = table
      /\ srv[s].pc \in {"piping", "closing"}
  BY QuietFacts DEF CloseStdin, Serving, server, machine, Piping
<1>C1. b \in Client
  BY <1>1, QuietFacts, ZenonT(40) DEF Client
<1>C2. /\ client'[s] = b
       /\ b.eof = TRUE
       /\ b.st = client[s].st /\ b.typed = client[s].typed
       /\ b.shown = client[s].shown /\ b.told = client[s].told
  BY <1>1, QuietFacts DEF Client
<1> HIDE DEF b
<1>3. UpKept(s)
  BY <1>1, UpUnchanged DEF Serving
<1>4. /\ Down("eof", s)' = Down("eof", s) + Bit(srvUp /\ agtUp)
      /\ Down("open", s)' = Down("open", s) /\ Down("data", s)' = Down("data", s)
      /\ NeverAfter(toAgent, Frame("data", s), Frame("eof", s))
            => NeverAfter(toAgent', Frame("data", s), Frame("eof", s))
  BY <1>1, QuietFacts, FrameCounts
<1>5a. /\ Down("open", s) \in Nat /\ Down("data", s) \in Nat /\ Down("eof", s) \in Nat
       /\ \A k : Queued(k, s)' = Queued(k, s) /\ Queued(k, s) \in Nat
  BY <1>1, QuietFacts, CountsNat DEF Queued, Serving
<1>5. OpenInv(s)'
  BY <1>1, <1>C2, <1>3, <1>4, <1>5a, QuietFacts DEF OpenInv, UpKept, Serving, Bit
<1>6. InputInv(s)'
  BY <1>1, <1>C2, <1>4, <1>5a, QuietFacts DEF InputInv, Serving
<1>7. TableInv(s)'
  BY <1>1, <1>C2, QuietFacts DEF TableInv, OpenInv, Serving
<1>8. OutputInv(s)'
  BY <1>1, <1>C2, <1>3, QuietFacts DEF OutputInv, OpenInv, TableInv, UpKept, InHand, Serving
<1> QED BY <1>1, <1>C1, <1>5, <1>6, <1>7, <1>8, QuietFacts, ServingAssemble

LEMMA CloseStdinPtyStep ==
    ASSUME IInv, NEW s \in Session, CloseStdin(s), s \in Pty
    PROVE  IInv'
<1> DEFINE b == [client[s] EXCEPT !.eof = TRUE]
<1>1. /\ Serving
      /\ toAgent' = toAgent
      /\ srv' = srv
      /\ client' = [client EXCEPT ![s] = b]
      /\ table' = table
      /\ srv[s].pc \in {"piping", "closing"}
  BY QuietFacts DEF CloseStdin, Serving, server, machine, Piping
<1>C1. b \in Client
  BY <1>1, QuietFacts, ZenonT(40) DEF Client
<1>C2. /\ client'[s] = b
       /\ b.eof = TRUE
       /\ b.st = client[s].st /\ b.typed = client[s].typed
       /\ b.shown = client[s].shown /\ b.told = client[s].told
  BY <1>1, QuietFacts DEF Client
<1> HIDE DEF b
<1>3. UpKept(s)
  BY <1>1, UpUnchanged DEF Serving
<1>4. DownKept(s)
  BY <1>1, DownUnchanged
<1>5. OpenInv(s)'
  BY <1>1, <1>C2, <1>3, <1>4, QuietFacts DEF OpenInv, TableInv, DownKept, UpKept, Serving
<1>6. InputInv(s)'
  <2>1. \A k : Queued(k, s)' = Queued(k, s)
    BY <1>1 DEF Queued, Serving
  <2> QED BY <1>1, <1>C2, <1>4, <2>1, QuietFacts DEF InputInv, DownKept, Serving
<1>7. TableInv(s)'
  BY <1>1, <1>C2, QuietFacts DEF TableInv, OpenInv, Serving
<1>8. OutputInv(s)'
  BY <1>1, <1>C2, <1>3, QuietFacts DEF OutputInv, OpenInv, TableInv, UpKept, InHand, Serving
<1> QED BY <1>1, <1>C1, <1>5, <1>6, <1>7, <1>8, QuietFacts, ServingAssemble

LEMMA InputEndsPlainStep ==
    ASSUME IInv, NEW s \in Session, InputEnds(s), s \notin Pty
    PROVE  IInv'
<1> DEFINE b == [client[s] EXCEPT !.eof = TRUE]
<1>1. /\ Serving
      /\ ServerSends("eof", s)
      /\ srv' = srv
      /\ client' = [client EXCEPT ![s] = b]
      /\ table' = table
      /\ srv[s].pc \in {"piping", "closing"}
  BY QuietFacts DEF InputEnds, Serving, server, machine, Piping
<1>C1. b \in Client
  BY <1>1, QuietFacts, ZenonT(40) DEF Client
<1>C2. /\ client'[s] = b
       /\ b.eof = TRUE
       /\ b.st = client[s].st /\ b.typed = client[s].typed
       /\ b.shown = client[s].shown /\ b.told = client[s].told
  BY <1>1, QuietFacts DEF Client
<1> HIDE DEF b
<1>3. UpKept(s)
  BY <1>1, UpUnchanged DEF Serving
<1>4. /\ Down("eof", s)' = Down("eof", s) + Bit(srvUp /\ agtUp)
      /\ Down("open", s)' = Down("open", s) /\ Down("data", s)' = Down("data", s)
      /\ NeverAfter(toAgent, Frame("data", s), Frame("eof", s))
            => NeverAfter(toAgent', Frame("data", s), Frame("eof", s))
  BY <1>1, QuietFacts, FrameCounts
<1>5a. /\ Down("open", s) \in Nat /\ Down("data", s) \in Nat /\ Down("eof", s) \in Nat
       /\ \A k : Queued(k, s)' = Queued(k, s) /\ Queued(k, s) \in Nat
  BY <1>1, QuietFacts, CountsNat DEF Queued, Serving
<1>5. OpenInv(s)'
  BY <1>1, <1>C2, <1>3, <1>4, <1>5a, QuietFacts DEF OpenInv, UpKept, Serving, Bit
<1>6. InputInv(s)'
  BY <1>1, <1>C2, <1>4, <1>5a, QuietFacts DEF InputInv, Serving
<1>7. TableInv(s)'
  BY <1>1, <1>C2, QuietFacts DEF TableInv, OpenInv, Serving
<1>8. OutputInv(s)'
  BY <1>1, <1>C2, <1>3, QuietFacts DEF OutputInv, OpenInv, TableInv, UpKept, InHand, Serving
<1> QED BY <1>1, <1>C1, <1>5, <1>6, <1>7, <1>8, QuietFacts, ServingAssemble

LEMMA InputEndsPtyStep ==
    ASSUME IInv, NEW s \in Session, InputEnds(s), s \in Pty
    PROVE  IInv'
<1> DEFINE a == [srv[s] EXCEPT !.closed = Shut(s)]
           b == [client[s] EXCEPT !.eof = TRUE]
<1>1. /\ Serving
      /\ toAgent' = toAgent
      /\ srv' = [srv EXCEPT ![s] = a]
      /\ client' = [client EXCEPT ![s] = b]
      /\ table' = table \ {s}
      /\ srv[s].pc \in {"piping", "closing"}
  BY QuietFacts, RemovedIs DEF InputEnds, Serving, server, machine, Piping
<1>H1. a \in Handler
  BY <1>1, QuietFacts, ShutType, HandlerClosed
<1>H2. /\ srv'[s] = a
       /\ a.closed = Shut(s)
       /\ a.pc = srv[s].pc /\ a.ready = srv[s].ready
       /\ a.code = srv[s].code /\ a.buf = srv[s].buf
       /\ a.hand = srv[s].hand
  BY <1>1, QuietFacts DEF Handler
<1>C1. b \in Client
  BY <1>1, QuietFacts, ZenonT(40) DEF Client
<1>C2. /\ client'[s] = b
       /\ b.eof = TRUE
       /\ b.st = client[s].st /\ b.typed = client[s].typed
       /\ b.shown = client[s].shown /\ b.told = client[s].told
  BY <1>1, QuietFacts DEF Client
<1> HIDE DEF a, b
<1>3. UpKept(s)
  BY <1>1, UpUnchanged DEF Serving
<1>4. DownKept(s)
  BY <1>1, DownUnchanged
<1>5. OpenInv(s)'
  BY <1>1, <1>H2, <1>C2, <1>3, <1>4, QuietFacts DEF OpenInv, TableInv, DownKept, UpKept, Serving
<1>6. InputInv(s)'
  <2>1. \A k : Queued(k, s)' = Queued(k, s)
    BY <1>1 DEF Queued, Serving
  <2> QED BY <1>1, <1>C2, <1>4, <2>1, QuietFacts DEF InputInv, DownKept, Serving
<1>7. TableInv(s)'
  BY <1>1, <1>H2, <1>C2, QuietFacts DEF TableInv, OpenInv, Serving
<1>8. OutputInv(s)'
  BY <1>1, <1>H2, <1>C2, <1>3, QuietFacts DEF OutputInv, OpenInv, TableInv, UpKept, InHand, Serving
<1> QED BY <1>1, <1>H1, <1>H2, <1>C1, <1>5, <1>6, <1>7, <1>8, QuietFacts, ServingAssemble

-----------------------------------------------------------------------------
(* The read loop hands a frame out.                                        *)

Reading(s) ==
    /\ srvUp' = srvUp /\ agtUp' = agtUp /\ lost' = lost
    /\ toAgent' = toAgent /\ client' = client
    /\ sess' = sess /\ inq' = inq /\ proc' = proc
    /\ stalled' \subseteq Session
    /\ toServer # << >> /\ Head(toServer).s = s /\ toServer' = Tail(toServer)

\* What s has under way once a frame of its has been read.
LEMMA ReadCounts ==
    ASSUME IInv, NEW s \in Session, Reading(s)
    PROVE  /\ Up("ok", s) = Up("ok", s)' + Bit(Head(toServer).t = "ok")
           /\ Up("data", s) = Up("data", s)' + Bit(Head(toServer).t = "data")
           /\ UpEnds(s) = UpEnds(s)' + Bit(Head(toServer).t = "close")
           /\ UpOwn(s) = UpOwn(s)' + Bit(Head(toServer).t = "close"
                                         /\ Head(toServer).code = "own")
           /\ Up("ok", s)' \in Nat /\ Up("data", s)' \in Nat
           /\ UpEnds(s)' \in Nat /\ UpOwn(s)' \in Nat
           /\ NeverAfter(toServer', Frame("data", s), Ends(s))
           /\ Head(toServer).t = "close" => Up("data", s)' = 0
           /\ Head(toServer) \in ToServer
<1>1. TypeOK /\ toServer # << >> /\ toServer' = Tail(toServer)
      /\ Head(toServer).s = s
  BY DEF IInv, Reading
<1>2. NeverAfter(toServer, Frame("data", s), Ends(s))
  BY DEF IInv, SessionInv, OutputInv
<1>3. \A k, x : k # "close" =>
          Up(k, x) = Up(k, x)' + Bit(k = Head(toServer).t /\ x = Head(toServer).s)
  BY <1>1, ServerTakesCounts
<1>4. /\ Up("ok", s) = Up("ok", s)' + Bit(Head(toServer).t = "ok")
      /\ Up("data", s) = Up("data", s)' + Bit(Head(toServer).t = "data")
  BY <1>1, <1>3 DEF Bit
<1>5. /\ UpEnds(s) = UpEnds(s)' + Bit(Head(toServer).t = "close")
      /\ UpOwn(s) = UpOwn(s)' + Bit(Head(toServer).t = "close"
                                    /\ Head(toServer).code = "own")
  BY <1>1, ServerTakesCounts DEF Bit
<1> QED BY <1>1, <1>2, <1>4, <1>5, ServerTakesCounts

\* Nothing but an err frame has come from a session that was not opened.
LEMMA ReadFresh ==
    ASSUME IInv, NEW s \in Session, Reading(s), proc[s].st = "none"
    PROVE  /\ Up("ok", s)' = 0 /\ Up("data", s)' = 0 /\ UpEnds(s)' = 0
           /\ Head(toServer).t \notin {"ok", "data", "close"}
<1>1. Up("ok", s) = 0 /\ Up("data", s) = 0 /\ UpEnds(s) = 0
  BY QuietFacts DEF OpenInv
<1>2. \A n \in Nat, b \in BOOLEAN : 0 = n + Bit(b) => n = 0 /\ ~b
  BY DEF Bit
<1> QED BY <1>1, <1>2, ReadCounts

LEMMA SignalledType ==
    ASSUME IInv, NEW s \in Session, NEW v \in {"ok", "err"}
    PROVE  Signalled(s, v) \in {"none", "ok", "err"}
BY QuietFacts DEF Signalled, Handler

LEMMA ReadingAssemble ==
    ASSUME IInv, NEW s \in Session, Reading(s),
           NEW a \in Handler, srv' = [srv EXCEPT ![s] = a],
           table' = table \/ table' = table \ {s}, a.pc = srv[s].pc,
           OpenInv(s)', TableInv(s)', OutputInv(s)'
    PROVE  IInv'
<1>1. TypeOK /\ ShutInv /\ SessionInv(s)
  BY DEF IInv
<1>2. /\ toServer' \in Seq(ToServer) /\ Len(toServer') <= NetLen
      /\ \A x \in Session \ {s} : UpKept(x)
  <2>1. TypeOK /\ toServer # << >> /\ toServer' = Tail(toServer)
        /\ Head(toServer).s = s
    BY <1>1 DEF Reading
  <2>2. \A k, x : Up(k, x)' \in Nat /\ UpEnds(x)' \in Nat /\ UpOwn(x)' \in Nat
    BY <2>1, ServerTakesCounts
  <2>3. \A k, x : k # "close" /\ x # s => Up(k, x) = Up(k, x)' + 0
    BY <2>1, ServerTakesCounts DEF Bit
  <2>4. \A x : x # s => UpEnds(x) = UpEnds(x)' + 0 /\ UpOwn(x) = UpOwn(x)' + 0
    BY <2>1, ServerTakesCounts DEF Bit
  <2>5. \A k, x : k # "close" /\ x # s => Up(k, x) = Up(k, x)'
    BY <2>2, <2>3
  <2>6. \A x : x # s => UpEnds(x) = UpEnds(x)' /\ UpOwn(x) = UpOwn(x)'
    <3> TAKE x
    <3> HAVE x # s
    <3>1. UpEnds(x)' \in Nat /\ UpOwn(x)' \in Nat
      BY <2>2
    <3> QED BY <2>4, <3>1
  <2> QED BY <2>1, <2>5, <2>6, ServerTakesCounts DEF UpKept
<1>3. TypeOK'
  BY <1>1, <1>2 DEF TypeOK, Reading
<1>4. ShutInv'
  BY <1>1 DEF ShutInv, Reading
<1>5. RunInv(s)'
  BY <1>1, RunKept DEF SessionInv, Reading
<1>6. InputInv(s)'
  BY <1>1, InputKept, DownUnchanged DEF SessionInv, Reading
<1>7. \A x \in Session \ {s} : SameFor(x) /\ DownKept(x) /\ UpKept(x)
                               /\ CloseKept(x)
  BY <1>1, <1>2, DownUnchanged, CloseUnchanged DEF Reading, SameFor, TypeOK
<1>8. CloseInv(s)'
  <2>1. srv'[s].pc = srv[s].pc
    BY <1>1 DEF TypeOK
  <2> QED BY <1>1, <2>1, CloseUnchanged, CloseInvKept DEF SessionInv, Reading
<1> QED BY <1>3, <1>4, <1>5, <1>6, <1>7, <1>8, Assemble
        DEF SessionInv, Reading

LEMMA ReadUnknownStep ==
    ASSUME IInv, NEW s \in Session, ReadUnknown, Head(toServer).s = s
    PROVE  IInv'
<1> DEFINE a == srv[s]
<1>1. /\ Reading(s)
      /\ srv' = [srv EXCEPT ![s] = a]
      /\ table' = table
      /\ s \notin table
  BY QuietFacts DEF ReadUnknown, Reading, IsNext, TypeOK, server, machine
<1>H1. a \in Handler
  BY <1>1, QuietFacts DEF Handler
<1>H2. /\ srv'[s] = a
       /\ a.pc = srv[s].pc /\ a.ready = srv[s].ready
       /\ a.closed = srv[s].closed /\ a.code = srv[s].code
       /\ a.buf = srv[s].buf /\ a.hand = srv[s].hand
  BY <1>1, QuietFacts DEF Handler
<1> HIDE DEF a
<1>2. DownKept(s)
  BY <1>1, DownUnchanged DEF Reading
<1>3. OpenInv(s)'
  BY <1>1, <1>H2, <1>2, QuietFacts, ReadFresh DEF OpenInv, DownKept, Reading, Signalled
<1>4. TableInv(s)'
  BY <1>1, <1>H2, QuietFacts DEF TableInv, Reading
<1>5. OutputInv(s)'
  BY <1>1, <1>H2, QuietFacts, ReadCounts DEF OutputInv, TableInv, InHand, Reading, Bit
<1> QED BY <1>1, <1>H1, <1>H2, <1>3, <1>4, <1>5, QuietFacts, ReadingAssemble

LEMMA ReadOKStep ==
    ASSUME IInv, NEW s \in Session, ReadOK(s)
    PROVE  IInv'
<1> DEFINE a == [srv[s] EXCEPT !.ready = Signalled(s, "ok")]
<1>1. /\ Reading(s)
      /\ srv' = [srv EXCEPT ![s] = a]
      /\ table' = table
      /\ s \in table
      /\ Head(toServer).t = "ok"
  BY QuietFacts DEF ReadOK, Reading, IsNext, TypeOK, server, machine
<1>H1. a \in Handler
  BY <1>1, QuietFacts, SignalledType DEF Handler
<1>H2. /\ srv'[s] = a
       /\ a.ready = Signalled(s, "ok")
       /\ a.pc = srv[s].pc /\ a.closed = srv[s].closed
       /\ a.code = srv[s].code /\ a.buf = srv[s].buf
       /\ a.hand = srv[s].hand
  BY <1>1, QuietFacts DEF Handler
<1> HIDE DEF a
<1>2. DownKept(s)
  BY <1>1, DownUnchanged DEF Reading
<1>3. OpenInv(s)'
  BY <1>1, <1>H2, <1>2, QuietFacts, ReadFresh DEF OpenInv, DownKept, Reading, Signalled
<1>4. TableInv(s)'
  BY <1>1, <1>H2, QuietFacts DEF TableInv, Reading
<1>5. OutputInv(s)'
  BY <1>1, <1>H2, QuietFacts, ReadCounts DEF OutputInv, TableInv, InHand, Reading, Bit
<1> QED BY <1>1, <1>H1, <1>H2, <1>3, <1>4, <1>5, QuietFacts, ReadingAssemble

LEMMA ReadDataStep ==
    ASSUME IInv, NEW s \in Session, ReadData(s)
    PROVE  IInv'
<1> DEFINE a == [srv[s] EXCEPT !.buf = srv[s].buf + 1]
<1>1. /\ Reading(s)
      /\ srv' = [srv EXCEPT ![s] = a]
      /\ table' = table
      /\ s \in table
      /\ Head(toServer).t = "data"
      /\ srv[s].buf < BufLen
  BY QuietFacts DEF ReadData, Reading, IsNext, TypeOK, server, machine
<1>H1. a \in Handler
  <2>1. srv[s].buf + 1 \in 0..BufLen
    BY <1>1, QuietFacts, BoundAssumption DEF Handler
  <2> QED BY <2>1, QuietFacts DEF Handler
<1>H2. /\ srv'[s] = a
       /\ a.buf = srv[s].buf + 1
       /\ a.pc = srv[s].pc /\ a.ready = srv[s].ready
       /\ a.closed = srv[s].closed /\ a.code = srv[s].code
       /\ a.hand = srv[s].hand
  BY <1>1, QuietFacts DEF Handler
<1> HIDE DEF a
<1>2. DownKept(s)
  BY <1>1, DownUnchanged DEF Reading
<1>3. OpenInv(s)'
  BY <1>1, <1>H2, <1>2, QuietFacts, ReadFresh DEF OpenInv, DownKept, Reading, Signalled
<1>4. TableInv(s)'
  BY <1>1, <1>H2, QuietFacts DEF TableInv, Reading
<1>5. OutputInv(s)'
  <2>1. /\ Up("data", s) = Up("data", s)' + 1 /\ UpEnds(s)' = UpEnds(s)
        /\ UpOwn(s)' = UpOwn(s) /\ NeverAfter(toServer', Frame("data", s), Ends(s))
    BY <1>1, ReadCounts DEF Bit
  <2>2. InHand(s)' = InHand(s) /\ srv'[s].buf = srv[s].buf + 1
        /\ InHand(s) \in Nat /\ Up("data", s)' \in Nat
    BY <1>1, <1>H2, ReadCounts DEF InHand
  <2>3. srv[s].buf \in Nat /\ client[s].shown \in Nat
    BY QuietFacts
  <2>4. client[s].shown + InHand(s)' + srv'[s].buf + Up("data", s)'
          = client[s].shown + InHand(s) + srv[s].buf + Up("data", s)
    BY <2>1, <2>2, <2>3
  <2>5. srv[s].code = "255" /\ s \in table
    BY <1>1, QuietFacts DEF TableInv
  <2>6. srv[s].pc # "closing" \/ client[s].st # "here"
    BY <1>1, QuietFacts DEF OutputInv, TableInv
  <2> QED BY <1>1, <1>H2, <2>1, <2>4, <2>5, <2>6, QuietFacts DEF OutputInv, Reading
<1> QED BY <1>1, <1>H1, <1>H2, <1>3, <1>4, <1>5, QuietFacts, ReadingAssemble

LEMMA StallStep ==
    ASSUME IInv, NEW s \in Session, Stall(s)
    PROVE  IInv'
<1> DEFINE a == [srv[s] EXCEPT !.closed = Shut(s)]
<1>1. /\ Reading(s)
      /\ srv' = [srv EXCEPT ![s] = a]
      /\ table' = table \ {s}
      /\ s \in table
      /\ Head(toServer).t = "data"
  BY QuietFacts, RemovedIs DEF Stall, Reading, IsNext, TypeOK, server, machine
<1>H1. a \in Handler
  BY <1>1, QuietFacts, ShutType, HandlerClosed
<1>H2. /\ srv'[s] = a
       /\ a.closed = Shut(s)
       /\ a.pc = srv[s].pc /\ a.ready = srv[s].ready
       /\ a.code = srv[s].code /\ a.buf = srv[s].buf
       /\ a.hand = srv[s].hand
  BY <1>1, QuietFacts DEF Handler
<1> HIDE DEF a
<1>2. DownKept(s)
  BY <1>1, DownUnchanged DEF Reading
<1>3. OpenInv(s)'
  BY <1>1, <1>H2, <1>2, QuietFacts, ReadFresh DEF OpenInv, DownKept, Reading, Signalled
<1>4. TableInv(s)'
  BY <1>1, <1>H2, QuietFacts DEF TableInv, Reading
<1>5. OutputInv(s)'
  BY <1>1, <1>H2, QuietFacts, ReadCounts DEF OutputInv, TableInv, InHand, Reading, Bit
<1> QED BY <1>1, <1>H1, <1>H2, <1>3, <1>4, <1>5, QuietFacts, ReadingAssemble

LEMMA ReadErrStep ==
    ASSUME IInv, NEW s \in Session, ReadErr(s)
    PROVE  IInv'
<1> DEFINE a == [srv[s] EXCEPT !.closed = Shut(s), !.ready = Signalled(s, "err")]
<1>1. /\ Reading(s)
      /\ srv' = [srv EXCEPT ![s] = a]
      /\ table' = table \ {s}
      /\ s \in table
      /\ Head(toServer).t = "err"
  <2>1. srv' = [Removed(s) EXCEPT ![s].ready = Signalled(s, "err")]
    BY DEF ReadErr
  <2>2. srv' = [srv EXCEPT ![s] = a]
    BY <2>1, RemovedIs
  <2> QED BY <2>2, QuietFacts DEF ReadErr, Reading, IsNext, TypeOK, server, machine
<1>H1. a \in Handler
  BY QuietFacts, ShutType, SignalledType, HandlerClosed
<1>H2. /\ srv'[s] = a
       /\ a.closed = Shut(s) /\ a.ready = Signalled(s, "err")
       /\ a.pc = srv[s].pc /\ a.code = srv[s].code
       /\ a.buf = srv[s].buf /\ a.hand = srv[s].hand
  BY <1>1, QuietFacts DEF Handler
<1> HIDE DEF a
<1>2. DownKept(s)
  BY <1>1, DownUnchanged DEF Reading
<1>3. OpenInv(s)'
  BY <1>1, <1>H2, <1>2, QuietFacts, ReadFresh DEF OpenInv, DownKept, Reading, Signalled
<1>4. TableInv(s)'
  BY <1>1, <1>H2, QuietFacts DEF TableInv, Reading
<1>5. OutputInv(s)'
  BY <1>1, <1>H2, QuietFacts, ReadCounts DEF OutputInv, TableInv, InHand, Reading, Bit
<1> QED BY <1>1, <1>H1, <1>H2, <1>3, <1>4, <1>5, QuietFacts, ReadingAssemble

LEMMA ReadCloseStep ==
    ASSUME IInv, NEW s \in Session, ReadClose(s)
    PROVE  IInv'
<1> DEFINE a == [srv[s] EXCEPT !.closed = Shut(s), !.code = Head(toServer).code]
<1>1. /\ Reading(s)
      /\ srv' = [srv EXCEPT ![s] = a]
      /\ table' = table \ {s}
      /\ s \in table
      /\ Head(toServer).t = "close"
  <2>1. srv' = [Removed(s) EXCEPT ![s].code = Head(toServer).code]
    BY DEF ReadClose
  <2>2. srv' = [srv EXCEPT ![s] = a]
    BY <2>1, RemovedIs
  <2> QED BY <2>2, QuietFacts DEF ReadClose, Reading, IsNext, TypeOK, server, machine
<1>H1. a \in Handler
  <2>1. Head(toServer).code \in Code
    BY <1>1, ReadCounts DEF ToServer
  <2> QED BY <2>1, QuietFacts, ShutType, HandlerClosed
<1>H2. /\ srv'[s] = a
       /\ a.closed = Shut(s) /\ a.code = Head(toServer).code
       /\ a.pc = srv[s].pc /\ a.ready = srv[s].ready
       /\ a.buf = srv[s].buf /\ a.hand = srv[s].hand
  BY <1>1, QuietFacts DEF Handler
<1> HIDE DEF a
<1>2. DownKept(s)
  BY <1>1, DownUnchanged DEF Reading
<1>3. OpenInv(s)'
  BY <1>1, <1>H2, <1>2, QuietFacts, ReadFresh DEF OpenInv, DownKept, Reading, Signalled
<1>4. TableInv(s)'
  BY <1>1, <1>H2, QuietFacts DEF TableInv, Reading
<1>5. OutputInv(s)'
  <2>1. /\ Up("data", s) = Up("data", s)' /\ Up("data", s)' = 0
        /\ UpEnds(s) = UpEnds(s)' + 1 /\ UpEnds(s)' \in Nat /\ UpOwn(s)' \in Nat
        /\ UpOwn(s) = UpOwn(s)' + Bit(Head(toServer).code = "own")
        /\ NeverAfter(toServer', Frame("data", s), Ends(s))
    BY <1>1, ReadCounts DEF Bit
  <2>2. UpEnds(s) > 0 /\ (UpOwn(s)' > 0 => UpOwn(s) > 0)
    BY <2>1 DEF Bit
  <2>3. Head(toServer).code = "own" => proc[s].st = "exited"
    BY <2>1, QuietFacts DEF Bit, OutputInv
  <2>4. client[s].st = "here" =>
           proc[s].made = client[s].shown + InHand(s) + srv[s].buf + 0
    BY <1>1, <2>1, QuietFacts DEF OutputInv
  <2>5. client[s].st = "here" =>
           proc[s].made = client[s].shown + InHand(s) + srv[s].buf
    BY <2>4, QuietFacts DEF InHand
  <2>6. InHand(s)' = InHand(s)
    BY <1>1, <1>H2 DEF InHand
  <2> QED BY <1>1, <1>H2, <2>1, <2>2, <2>3, <2>5, <2>6, QuietFacts
          DEF OutputInv, Reading
<1> QED BY <1>1, <1>H1, <1>H2, <1>3, <1>4, <1>5, QuietFacts, ReadingAssemble

-----------------------------------------------------------------------------
(* The agent's steps.                                                      *)

Working ==
    /\ srvUp' = srvUp /\ agtUp' = agtUp /\ lost' = lost /\ table' = table
    /\ srv' = srv /\ stalled' = stalled /\ client' = client

LEMMA GroundNat ==
    ASSUME IInv, NEW s \in Session
    PROVE  /\ Up("ok", s) \in Nat /\ Up("data", s) \in Nat
           /\ UpEnds(s) \in Nat /\ UpOwn(s) \in Nat
           /\ Down("open", s) \in Nat /\ Down("data", s) \in Nat
           /\ Down("eof", s) \in Nat /\ InHand(s) \in Nat
           /\ Down("close", s) \in Nat
           /\ Queued("data", s) \in Nat /\ Queued("eof", s) \in Nat
<1>1. TypeOK
  BY DEF IInv
<1>2. UpEnds(s) \in Nat /\ UpOwn(s) \in Nat
  BY <1>1, CountNat DEF TypeOK, UpEnds, UpOwn
<1>3. \A k : Up(k, s) \in Nat /\ Down(k, s) \in Nat /\ Queued(k, s) \in Nat
  BY <1>1, CountsNat
<1> QED BY <1>2, <1>3 DEF InHand

LEMMA AgentFacts ==
    ASSUME IInv, NEW s \in Session
    PROVE  /\ inq \in [Session -> Seq({"data", "eof"})]
           /\ inq[s] \in Seq({"data", "eof"})
           /\ inq = [inq EXCEPT ![s] = inq[s]]
           /\ proc \in [Session -> Process] /\ proc[s] \in Process
           /\ proc = [proc EXCEPT ![s] = proc[s]]
           /\ sess \subseteq Session
BY DEF IInv, TypeOK

Takes(s) == agtUp /\ toAgent # << >> /\ Head(toAgent).s = s
            /\ toAgent' = Tail(toAgent)

LEMMA TakesCounts ==
    ASSUME IInv, NEW s \in Session, Takes(s)
    PROVE  /\ Down("open", s) = Down("open", s)' + Bit(Head(toAgent).t = "open")
           /\ Down("data", s) = Down("data", s)' + Bit(Head(toAgent).t = "data")
           /\ Down("eof", s) = Down("eof", s)' + Bit(Head(toAgent).t = "eof")
           /\ Down("close", s) =
                Down("close", s)' + Bit(Head(toAgent).t = "close")
           /\ Down("close", s)' \in Nat
           /\ Down("open", s)' \in Nat /\ Down("data", s)' \in Nat
           /\ Down("eof", s)' \in Nat
           /\ NeverAfter(toAgent', Frame("data", s), Frame("eof", s))
           /\ Head(toAgent).t = "eof" => Down("data", s)' = 0
           /\ Head(toAgent) \in ToAgent
           /\ toAgent' \in Seq(ToAgent)
           /\ \A x \in Session \ {s} :
                DownKept(x) /\ Down("close", x)' = Down("close", x)
<1>1. TypeOK /\ toAgent # << >> /\ toAgent' = Tail(toAgent)
      /\ Head(toAgent).s = s
  BY DEF IInv, Takes
<1>2. NeverAfter(toAgent, Frame("data", s), Frame("eof", s))
  BY DEF IInv, SessionInv, InputInv
<1>3. \A k, x : Down(k, x) = Down(k, x)'
                    + Bit(k = Head(toAgent).t /\ x = Head(toAgent).s)
  BY <1>1, AgentTakesCounts
<1>4. /\ Down("open", s) = Down("open", s)' + Bit(Head(toAgent).t = "open")
      /\ Down("data", s) = Down("data", s)' + Bit(Head(toAgent).t = "data")
      /\ Down("eof", s) = Down("eof", s)' + Bit(Head(toAgent).t = "eof")
      /\ Down("close", s) =
            Down("close", s)' + Bit(Head(toAgent).t = "close")
  BY <1>1, <1>3 DEF Bit
<1>5. \A k, x : Down(k, x)' \in Nat
  BY <1>1, AgentTakesCounts
<1>6. \A k, x : x # s => Down(k, x) = Down(k, x)' + 0
  BY <1>1, <1>3 DEF Bit
<1>7. \A x \in Session \ {s} :
        DownKept(x) /\ Down("close", x)' = Down("close", x)
  <2>1. \A k, x : x # s => Down(k, x) = Down(k, x)'
    BY <1>5, <1>6
  <2> QED BY <1>1, <2>1, AgentTakesCounts DEF DownKept
<1> QED BY <1>1, <1>2, <1>4, <1>5, <1>7, AgentTakesCounts

LEMMA SentCounts ==
    ASSUME IInv, NEW s \in Session, NEW f \in ToServer, f.s = s, AgentSends(f),
           f.t = "data" => UpEnds(s) = 0
    PROVE  /\ Up("ok", s)' = Up("ok", s) + Bit(srvUp /\ agtUp /\ f.t = "ok")
           /\ Up("data", s)' = Up("data", s) + Bit(srvUp /\ agtUp /\ f.t = "data")
           /\ UpEnds(s)' = UpEnds(s) + Bit(srvUp /\ agtUp /\ f.t = "close")
           /\ UpOwn(s)' = UpOwn(s) + Bit(srvUp /\ agtUp /\ f.t = "close"
                                         /\ f.code = "own")
           /\ NeverAfter(toServer', Frame("data", s), Ends(s))
           /\ toServer' \in Seq(ToServer) /\ Len(toServer') <= NetLen
           /\ ~srvUp => toServer' = toServer
           /\ \A x \in Session \ {s} : UpKept(x)
<1>1. /\ TypeOK /\ NeverAfter(toServer, Frame("data", s), Ends(s))
      /\ \A k, x : Up(k, x) \in Nat
      /\ \A x : UpEnds(x) \in Nat /\ UpOwn(x) \in Nat
  BY CountsNat DEF IInv, SessionInv, OutputInv
<1>2. \A k, x : k # "close" => Up(k, x)' =
                Up(k, x) + Bit(srvUp /\ agtUp /\ k = f.t /\ x = f.s)
  BY <1>1, AgentSendsCounts
<1>3. /\ Up("ok", s)' = Up("ok", s) + Bit(srvUp /\ agtUp /\ f.t = "ok")
      /\ Up("data", s)' = Up("data", s) + Bit(srvUp /\ agtUp /\ f.t = "data")
  BY <1>2 DEF Bit
<1>4. /\ UpEnds(s)' = UpEnds(s) + Bit(srvUp /\ agtUp /\ f.t = "close")
      /\ UpOwn(s)' = UpOwn(s) + Bit(srvUp /\ agtUp /\ f.t = "close"
                                    /\ f.code = "own")
  BY <1>1, AgentSendsCounts DEF Bit
<1>5. /\ \A k, x : k # "close" /\ x # s => Up(k, x)' = Up(k, x) + 0
      /\ \A x : x # s => UpEnds(x)' = UpEnds(x) + 0 /\ UpOwn(x)' = UpOwn(x) + 0
  BY <1>1, AgentSendsCounts DEF Bit
<1>6. \A x \in Session \ {s} : UpKept(x)
  <2>1. /\ \A k, x : k # "close" /\ x # s => Up(k, x)' = Up(k, x)
        /\ \A x : x # s => UpEnds(x)' = UpEnds(x) /\ UpOwn(x)' = UpOwn(x)
    BY <1>1, <1>5
  <2> QED BY <1>1, <2>1, AgentSendsCounts DEF UpKept
<1> QED BY <1>1, <1>3, <1>4, <1>6, AgentSendsCounts

\* The frame that opens a session finds it untouched.
LEMMA OpenFresh ==
    ASSUME IInv, NEW s \in Session, Takes(s), Head(toAgent).t = "open"
    PROVE  /\ proc[s].st = "none" /\ s \notin sess /\ inq[s] = << >>
           /\ srv[s].pc \notin {"idle", "found", "added"}
           /\ Down("open", s)' = 0 /\ Down("data", s)' = 0 /\ Down("eof", s)' = 0
<1>1. Down("open", s) = Down("open", s)' + 1 /\ Down("open", s)' \in Nat
      /\ Down("data", s) = Down("data", s)' + 0 /\ Down("data", s)' \in Nat
      /\ Down("eof", s) = Down("eof", s)' + 0 /\ Down("eof", s)' \in Nat
  BY TakesCounts DEF Bit
<1>2. Down("open", s) <= 1 /\ (Down("open", s) = 1 => proc[s].st = "none")
      /\ (srv[s].pc \in {"idle", "found", "added"} => Down("open", s) = 0)
  BY QuietFacts DEF OpenInv
<1>3. Down("open", s)' = 0 /\ Down("open", s) = 1
  BY <1>1, <1>2
<1>4. proc[s].st = "none"
  BY <1>2, <1>3
<1>5. s \notin sess
  BY <1>4, QuietFacts DEF RunInv
<1>6. inq[s] = << >> /\ Down("data", s) = 0 /\ Down("eof", s) = 0
  BY <1>4, QuietFacts DEF OpenInv
<1> QED BY <1>1, <1>2, <1>3, <1>4, <1>5, <1>6

\* What the kill makes of a process.
Stopped(s) == IF proc[s].st = "running" THEN "killed" ELSE proc[s].st

LEMMA StoppedIs ==
    ASSUME IInv, NEW s \in Session
    PROVE  /\ Stopped(s) \in {"none", "failed", "running", "exited", "killed"}
           /\ Stopped(s) # "running"
           /\ Stopped(s) = "exited" <=> proc[s].st = "exited"
           /\ Stopped(s) = "none" <=> proc[s].st = "none"
           /\ proc[s].st = "killed" => Stopped(s) = "killed"
BY AgentFacts DEF Stopped, Process

\* The agent's steps that open nothing.
LEMMA OpenKept ==
    ASSUME IInv, NEW s \in Session, Working, UpKept(s),
           Down("open", s)' = Down("open", s),
           proc'[s].st = "none" <=> proc[s].st = "none",
           proc'[s].fed = proc[s].fed, proc'[s].eof = proc[s].eof,
           proc'[s].made = proc[s].made,
           proc[s].st = "none" => /\ Down("data", s)' = 0 /\ Down("eof", s)' = 0
                                  /\ inq'[s] = << >>
    PROVE  OpenInv(s)'
<1>1. OpenInv(s)
  BY QuietFacts
<1>2. Up("ok", s)' = Up("ok", s) /\ Up("data", s)' = Up("data", s)
      /\ UpEnds(s)' = UpEnds(s)
  BY DEF UpKept
<1> QED BY <1>1, <1>2 DEF OpenInv, Working

LEMMA WorkingAssemble ==
    ASSUME IInv, NEW s \in Session, Working,
           toAgent' = toAgent \/ Takes(s),
           toServer' = toServer
             \/ \E f \in ToServer : f.s = s /\ AgentSends(f)
                                    /\ (f.t = "data" => UpEnds(s) = 0),
           sess' = sess \/ sess' = sess \ {s} \/ (sess' = sess \cup {s} /\ agtUp),
           NEW q \in Seq({"data", "eof"}), inq' = [inq EXCEPT ![s] = q],
           NEW pr \in Process, proc' = [proc EXCEPT ![s] = pr],
           \/ pr.shut = proc[s].shut /\ pr.full = proc[s].full
           \/ pr.shut # "no" => srv[s].pc = "done" \/ ~agtUp \/ pr.full,
           RunInv(s)', OpenInv(s)', InputInv(s)', OutputInv(s)'
    PROVE  IInv'
<1>1. TypeOK /\ ShutInv /\ SessionInv(s)
  BY DEF IInv
<1>2. /\ toAgent' \in Seq(ToAgent) /\ (~agtUp => toAgent' = toAgent)
      /\ \A x \in Session \ {s} : DownKept(x) /\ CloseKept(x)
      /\ Down("close", s)' > 0 => Down("close", s) > 0
  <2>1. CASE toAgent' = toAgent
    BY <1>1, <2>1, DownUnchanged, CloseUnchanged DEF TypeOK, Working, Down
  <2>2. CASE Takes(s)
    <3>1. Down("close", s)' > 0 => Down("close", s) > 0
      BY <2>2, TakesCounts DEF Bit
    <3> QED BY <2>2, <3>1, TakesCounts DEF Takes, CloseKept, Working
  <2> QED BY <2>1, <2>2
<1>3. /\ toServer' \in Seq(ToServer) /\ Len(toServer') <= NetLen
      /\ ~srvUp => toServer' = toServer
      /\ \A x \in Session \ {s} : UpKept(x)
  <2>1. CASE toServer' = toServer
    BY <1>1, <2>1, UpUnchanged DEF TypeOK
  <2> QED BY <2>1, SentCounts
<1>4. TypeOK'
  BY <1>1, <1>2, <1>3 DEF TypeOK, Working
<1>5. ShutInv'
  BY <1>1, <1>2, <1>3 DEF ShutInv, Working
<1>6. TableInv(s)'
  BY <1>1 DEF SessionInv, TableInv, Working
<1>7. \A x \in Session \ {s} : SameFor(x) /\ DownKept(x) /\ UpKept(x)
                               /\ CloseKept(x)
  BY <1>1, <1>2, <1>3 DEF Working, SameFor, TypeOK
<1>8. CloseInv(s)'
  <2>1. proc'[s] = pr
    BY <1>1 DEF TypeOK
  <2> QED BY <1>1, <1>2, <2>1 DEF SessionInv, CloseInv, Ended, Working
<1> QED BY <1>4, <1>5, <1>6, <1>7, <1>8, Assemble DEF SessionInv, Working

LEMMA OpenOKStep ==
    ASSUME IInv, NEW s \in Session, Open(s), s \in sess'
    PROVE  IInv'
<1> DEFINE pr == [proc[s] EXCEPT !.st = "running"]
           q == inq[s]
           f == [t |-> "ok", s |-> s]
<1>0. Takes(s) /\ Head(toAgent).t = "open"
  BY DEF Open, IsNext, Takes
<1>1. /\ Working
      /\ Takes(s)
      /\ f \in ToServer /\ f.s = s /\ AgentSends(f)
      /\ sess' = sess \cup {s}
      /\ proc' = [proc EXCEPT ![s] = pr]
      /\ inq' = [inq EXCEPT ![s] = q]
      /\ Head(toAgent).t = "open" /\ proc[s].st = "none" /\ s \notin sess
      /\ agtUp /\ proc[s].shut = "no"
  BY AgentFacts, <1>0, OpenFresh
     DEF Open, Working, Takes, IsNext, server, ToServer, Code, Busy
<1>P1. pr \in Process /\ q \in Seq({"data", "eof"})
  BY <1>1, AgentFacts, ZenonT(120) DEF Process
<1>P2. /\ proc'[s] = pr /\ inq'[s] = q
       /\ pr.shut = proc[s].shut /\ pr.full = proc[s].full
       /\ pr.st = "running"
       /\ pr.reaped = proc[s].reaped /\ pr.made = proc[s].made
       /\ pr.fed = proc[s].fed /\ pr.eof = proc[s].eof
  BY <1>1, AgentFacts, ZenonT(40) DEF Process
<1>F. f.t = "ok"
  OBVIOUS
<1> HIDE DEF pr, q, f
<1>2. /\ inq[s] = << >> /\ srv[s].pc \notin {"idle", "found", "added"}
      /\ Down("open", s)' = 0 /\ Down("data", s)' = 0 /\ Down("eof", s)' = 0
  BY <1>1, OpenFresh
<1>3. /\ Up("data", s)' = Up("data", s) /\ UpEnds(s)' = UpEnds(s)
      /\ UpOwn(s)' = UpOwn(s)
      /\ NeverAfter(toServer', Frame("data", s), Ends(s))
  BY <1>1, <1>F, SentCounts, GroundNat DEF Bit
<1>4. /\ Up("data", s) = 0 /\ UpEnds(s) = 0 /\ proc[s].made = 0 /\ proc[s].fed = 0
      /\ ~proc[s].eof /\ ~proc[s].reaped /\ client[s].typed = 0
      /\ UpOwn(s) = 0 /\ srv[s].code = "255" /\ client[s].told # "own"
  BY <1>1, QuietFacts, GroundNat DEF OpenInv, OutputInv, RunInv
<1>5. RunInv(s)'
  BY <1>1, <1>P2, <1>4, QuietFacts DEF RunInv
<1>6. OpenInv(s)'
  BY <1>1, <1>P2, <1>2 DEF OpenInv, Working
<1>7. InputInv(s)'
  <2>1. Queued("data", s)' = 0 /\ Queued("eof", s)' = 0
    BY <1>2, <1>P2, CountEmpty DEF Queued, q
  <2> QED BY <1>1, <1>P2, <1>2, <1>4, <2>1, QuietFacts, TakesCounts
          DEF InputInv, Working, q
<1>8. OutputInv(s)'
  <2>1. InHand(s)' = InHand(s)
    BY <1>1 DEF InHand, Working
  <2>2. OutputInv(s)
    BY QuietFacts
  <2> QED BY <1>1, <1>P2, <1>3, <1>4, <2>1, <2>2 DEF OutputInv, Working
<1> QED BY <1>1, <1>P1, <1>P2, <1>F, <1>5, <1>6, <1>7, <1>8, WorkingAssemble

LEMMA OpenErrStep ==
    ASSUME IInv, NEW s \in Session, Open(s), s \notin sess'
    PROVE  IInv'
<1> DEFINE pr == [proc[s] EXCEPT !.st = "failed"]
           q == inq[s]
           f == [t |-> "err", s |-> s]
<1>0. Takes(s) /\ Head(toAgent).t = "open"
  BY DEF Open, IsNext, Takes
<1>1. /\ Working
      /\ Takes(s)
      /\ f \in ToServer /\ f.s = s /\ AgentSends(f)
      /\ sess' = sess
      /\ proc' = [proc EXCEPT ![s] = pr]
      /\ inq' = [inq EXCEPT ![s] = q]
      /\ Head(toAgent).t = "open" /\ proc[s].st = "none" /\ s \notin sess
      /\ agtUp /\ proc[s].shut = "no"
  BY AgentFacts, <1>0, OpenFresh
     DEF Open, Working, Takes, IsNext, server, ToServer, Code, Busy
<1>P1. pr \in Process /\ q \in Seq({"data", "eof"})
  BY <1>1, AgentFacts, ZenonT(120) DEF Process
<1>P2. /\ proc'[s] = pr /\ inq'[s] = q
       /\ pr.shut = proc[s].shut /\ pr.full = proc[s].full
       /\ pr.st = "failed"
       /\ pr.reaped = proc[s].reaped /\ pr.made = proc[s].made
       /\ pr.fed = proc[s].fed /\ pr.eof = proc[s].eof
  BY <1>1, AgentFacts, ZenonT(40) DEF Process
<1>F. f.t = "err"
  OBVIOUS
<1> HIDE DEF pr, q, f
<1>2. /\ inq[s] = << >> /\ srv[s].pc \notin {"idle", "found", "added"}
      /\ Down("open", s)' = 0 /\ Down("data", s)' = 0 /\ Down("eof", s)' = 0
  BY <1>1, OpenFresh
<1>3. /\ Up("data", s)' = Up("data", s) /\ UpEnds(s)' = UpEnds(s)
      /\ UpOwn(s)' = UpOwn(s)
      /\ NeverAfter(toServer', Frame("data", s), Ends(s))
  BY <1>1, <1>F, SentCounts, GroundNat, SMTT(60) DEF Bit
<1>4. /\ Up("data", s) = 0 /\ UpEnds(s) = 0 /\ proc[s].made = 0 /\ proc[s].fed = 0
      /\ ~proc[s].eof /\ ~proc[s].reaped /\ client[s].typed = 0
      /\ UpOwn(s) = 0 /\ srv[s].code = "255" /\ client[s].told # "own"
  BY <1>1, QuietFacts, GroundNat DEF OpenInv, OutputInv, RunInv
<1>5. RunInv(s)'
  BY <1>1, <1>P2, <1>4, QuietFacts DEF RunInv
<1>6. OpenInv(s)'
  BY <1>1, <1>P2, <1>2 DEF OpenInv, Working
<1>7. InputInv(s)'
  <2>1. Queued("data", s)' = 0 /\ Queued("eof", s)' = 0
    BY <1>2, <1>P2, CountEmpty DEF Queued, q
  <2> QED BY <1>1, <1>P2, <1>2, <1>4, <2>1, QuietFacts, TakesCounts
          DEF InputInv, Working, q
<1>8. OutputInv(s)'
  <2>1. InHand(s)' = InHand(s)
    BY <1>1 DEF InHand, Working
  <2>2. OutputInv(s)
    BY QuietFacts
  <2> QED BY <1>1, <1>P2, <1>3, <1>4, <2>1, <2>2 DEF OutputInv, Working
<1> QED BY <1>1, <1>P1, <1>P2, <1>F, <1>5, <1>6, <1>7, <1>8, WorkingAssemble

LEMMA ExitStep ==
    ASSUME IInv, NEW s \in Session, Exit(s)
    PROVE  IInv'
<1> DEFINE pr == [proc[s] EXCEPT !.st = "exited"]
           q == inq[s]
<1>1. /\ Working
      /\ toAgent' = toAgent
      /\ toServer' = toServer
      /\ sess' = sess
      /\ proc' = [proc EXCEPT ![s] = pr]
      /\ inq' = [inq EXCEPT ![s] = q]
      /\ proc[s].st = "running"
  BY AgentFacts DEF Exit, Working, Takes, IsNext, server, ToServer, Code
<1>P1. pr \in Process /\ q \in Seq({"data", "eof"})
  BY <1>1, AgentFacts, ZenonT(40) DEF Process
<1>P2. /\ proc'[s] = pr /\ inq'[s] = q
       /\ pr.shut = proc[s].shut /\ pr.full = proc[s].full
       /\ pr.st = "exited"
       /\ pr.reaped = proc[s].reaped /\ pr.made = proc[s].made
       /\ pr.fed = proc[s].fed /\ pr.eof = proc[s].eof
  BY <1>1, AgentFacts DEF Process
<1> HIDE DEF pr, q
<1>D. DownKept(s)
  BY <1>1, DownUnchanged
<1>U. UpKept(s)
  BY <1>1, UpUnchanged
<1>5. RunInv(s)'
  BY <1>1, <1>P2, QuietFacts DEF RunInv
<1>6. OpenInv(s)'
  BY <1>1, <1>P2, <1>D, <1>U, QuietFacts DEF OpenInv, DownKept, UpKept, Working, Bit
<1>7. InputInv(s)'
  BY <1>1, <1>P2, <1>D, QuietFacts, InputKept DEF Working, q
<1>8. OutputInv(s)'
  BY <1>1, <1>P2, <1>D, <1>U, QuietFacts DEF OutputInv, UpKept, InHand, Working, Bit
<1> QED BY <1>1, <1>P1, <1>P2, <1>5, <1>6, <1>7, <1>8, WorkingAssemble

LEMMA OutputStep ==
    ASSUME IInv, NEW s \in Session, Output(s)
    PROVE  IInv'
<1> DEFINE pr == [proc[s] EXCEPT !.made = proc[s].made + 1]
           q == inq[s]
           f == [t |-> "data", s |-> s]
<1>1. /\ Working
      /\ toAgent' = toAgent
      /\ f \in ToServer /\ f.s = s /\ AgentSends(f)
      /\ sess' = sess
      /\ proc' = [proc EXCEPT ![s] = pr]
      /\ inq' = [inq EXCEPT ![s] = q]
      /\ proc[s].st = "running"
      /\ agtUp
  BY AgentFacts DEF Output, Working, Takes, IsNext, server, ToServer, Code
<1>P1. pr \in Process /\ q \in Seq({"data", "eof"})
  <2>1. proc[s].made + 1 \in Nat
    BY QuietFacts
  <2> QED BY <2>1, AgentFacts DEF Process
<1>P2. /\ proc'[s] = pr /\ inq'[s] = q
       /\ pr.shut = proc[s].shut /\ pr.full = proc[s].full
       /\ pr.made = proc[s].made + 1
       /\ pr.st = proc[s].st /\ pr.reaped = proc[s].reaped
       /\ pr.fed = proc[s].fed /\ pr.eof = proc[s].eof
  BY <1>1, AgentFacts, SMTT(60) DEF Process
<1>F. f.t = "data"
  OBVIOUS
<1> HIDE DEF pr, q, f
<1>D. DownKept(s)
  BY <1>1, DownUnchanged
<1>0. UpEnds(s) = 0
  BY <1>1, QuietFacts, GroundNat DEF OutputInv, RunInv
<1>3. /\ Up("ok", s)' = Up("ok", s) /\ UpEnds(s)' = UpEnds(s)
      /\ UpOwn(s)' = UpOwn(s)
      /\ NeverAfter(toServer', Frame("data", s), Ends(s))
      /\ Up("data", s)' = Up("data", s) + Bit(srvUp)
  BY <1>1, <1>0, <1>F, SentCounts, GroundNat DEF Bit
<1>4. Up("data", s) \in Nat /\ UpOwn(s) = 0 /\ InHand(s) \in Nat
      /\ srv[s].code # "own" /\ client[s].told # "own"
  BY <1>1, QuietFacts, GroundNat DEF OutputInv
<1>5. RunInv(s)'
  BY <1>1, <1>P2, QuietFacts DEF RunInv
<1>6. OpenInv(s)'
  BY <1>1, <1>P2, <1>D, QuietFacts DEF OpenInv, DownKept, Working
<1>7. InputInv(s)'
  BY <1>1, <1>P2, <1>D, QuietFacts, InputKept DEF Working, q
<1>8. OutputInv(s)'
  <2>1. ASSUME s \in table, client[s].st = "here"
        PROVE  proc'[s].made =
                 client[s].shown + InHand(s) + srv[s].buf + Up("data", s)'
    <3>1. srvUp
      BY <1>1, <2>1, QuietFacts DEF TableInv, OpenInv
    <3>2. Up("data", s)' = Up("data", s) + 1
      BY <1>3, <3>1 DEF Bit
    <3>3. proc[s].made = client[s].shown + InHand(s) + srv[s].buf + Up("data", s)
      BY <2>1, QuietFacts DEF OutputInv
    <3>4. srv[s].buf \in Nat /\ client[s].shown \in Nat /\ proc[s].made \in Nat
      BY QuietFacts, SMTT(40)
    <3>5. proc'[s].made = proc[s].made + 1
      BY <1>P2
    <3>6. Up("data", s) \in Nat /\ InHand(s) \in Nat
      BY <1>4
    <3> QED BY <3>2, <3>3, <3>4, <3>5, <3>6, SMTT(40)
  <2>2. InHand(s)' = InHand(s)
    BY <1>1 DEF InHand, Working
  <2> QED BY <1>1, <1>P2, <1>0, <1>3, <1>4, <2>1, <2>2, QuietFacts
          DEF OutputInv, Working
<1> QED BY <1>0, <1>1, <1>P1, <1>P2, <1>F, <1>5, <1>6, <1>7, <1>8, WorkingAssemble

LEMMA ReapExitedStep ==
    ASSUME IInv, NEW s \in Session, Reap(s), proc[s].st = "exited"
    PROVE  IInv'
<1> DEFINE pr == [proc[s] EXCEPT !.reaped = TRUE]
           q == inq[s]
           f == [t |-> "close", s |-> s, code |-> "own"]
<1>1. /\ Working
      /\ toAgent' = toAgent
      /\ f \in ToServer /\ f.s = s /\ AgentSends(f)
      /\ sess' = sess \ {s}
      /\ proc' = [proc EXCEPT ![s] = pr]
      /\ inq' = [inq EXCEPT ![s] = q]
      /\ proc[s].st = "exited" /\ ~proc[s].reaped
  BY AgentFacts DEF Reap, Working, Takes, IsNext, server, ToServer, Code
<1>P1. pr \in Process /\ q \in Seq({"data", "eof"})
  BY <1>1, AgentFacts, ZenonT(40) DEF Process
<1>P2. /\ proc'[s] = pr /\ inq'[s] = q
       /\ pr.shut = proc[s].shut /\ pr.full = proc[s].full
       /\ pr.reaped = TRUE
       /\ pr.st = proc[s].st /\ pr.made = proc[s].made
       /\ pr.fed = proc[s].fed /\ pr.eof = proc[s].eof
  BY <1>1, AgentFacts DEF Process
<1>F. f.t = "close" /\ f.code = "own"
  OBVIOUS
<1> HIDE DEF pr, q, f
<1>D. DownKept(s)
  BY <1>1, DownUnchanged
<1>3. /\ Up("ok", s)' = Up("ok", s) /\ Up("data", s)' = Up("data", s)
      /\ UpOwn(s)' = UpOwn(s) + Bit(srvUp /\ agtUp /\ "own" = "own")
      /\ NeverAfter(toServer', Frame("data", s), Ends(s))
  BY <1>1, <1>F, SentCounts, GroundNat, SMTT(60) DEF Bit
<1>4. UpOwn(s) \in Nat /\ (UpOwn(s)' > 0 => proc[s].st = "exited")
  BY <1>1, <1>3, QuietFacts, GroundNat DEF OutputInv, Bit
<1>5. RunInv(s)'
  BY <1>1, <1>P2, QuietFacts DEF RunInv
<1>6. OpenInv(s)'
  BY <1>1, <1>P2, <1>D, QuietFacts DEF OpenInv, DownKept, Working
<1>7. InputInv(s)'
  BY <1>1, <1>P2, <1>D, QuietFacts, InputKept DEF Working, q
<1>8. OutputInv(s)'
  <2>1. InHand(s)' = InHand(s)
    BY <1>1 DEF InHand, Working
  <2>2. OutputInv(s)
    BY QuietFacts
  <2> QED BY <1>1, <1>P2, <1>3, <1>4, <2>1, <2>2 DEF OutputInv, Working
<1> QED BY <1>1, <1>P1, <1>P2, <1>F, <1>5, <1>6, <1>7, <1>8, WorkingAssemble

LEMMA ReapKilledStep ==
    ASSUME IInv, NEW s \in Session, Reap(s), proc[s].st = "killed"
    PROVE  IInv'
<1> DEFINE pr == [proc[s] EXCEPT !.reaped = TRUE]
           q == inq[s]
           f == [t |-> "close", s |-> s, code |-> "killed"]
<1>1. /\ Working
      /\ toAgent' = toAgent
      /\ f \in ToServer /\ f.s = s /\ AgentSends(f)
      /\ sess' = sess \ {s}
      /\ proc' = [proc EXCEPT ![s] = pr]
      /\ inq' = [inq EXCEPT ![s] = q]
      /\ proc[s].st = "killed" /\ ~proc[s].reaped
  BY AgentFacts DEF Reap, Working, Takes, IsNext, server, ToServer, Code
<1>P1. pr \in Process /\ q \in Seq({"data", "eof"})
  BY <1>1, AgentFacts, ZenonT(40) DEF Process
<1>P2. /\ proc'[s] = pr /\ inq'[s] = q
       /\ pr.shut = proc[s].shut /\ pr.full = proc[s].full
       /\ pr.reaped = TRUE
       /\ pr.st = proc[s].st /\ pr.made = proc[s].made
       /\ pr.fed = proc[s].fed /\ pr.eof = proc[s].eof
  BY <1>1, AgentFacts DEF Process
<1>F. f.t = "close" /\ f.code = "killed"
  OBVIOUS
<1> HIDE DEF pr, q, f
<1>D. DownKept(s)
  BY <1>1, DownUnchanged
<1>3. /\ Up("ok", s)' = Up("ok", s) /\ Up("data", s)' = Up("data", s)
      /\ UpOwn(s)' = UpOwn(s)
      /\ NeverAfter(toServer', Frame("data", s), Ends(s))
  BY <1>1, <1>F, SentCounts, GroundNat DEF Bit
<1>4. UpOwn(s) \in Nat /\ (UpOwn(s)' > 0 => proc[s].st = "exited")
  BY <1>1, <1>3, QuietFacts, GroundNat DEF OutputInv, Bit
<1>5. RunInv(s)'
  BY <1>1, <1>P2, QuietFacts DEF RunInv
<1>6. OpenInv(s)'
  BY <1>1, <1>P2, <1>D, QuietFacts DEF OpenInv, DownKept, Working
<1>7. InputInv(s)'
  BY <1>1, <1>P2, <1>D, QuietFacts, InputKept DEF Working, q
<1>8. OutputInv(s)'
  <2>1. InHand(s)' = InHand(s)
    BY <1>1 DEF InHand, Working
  <2>2. OutputInv(s)
    BY QuietFacts
  <2> QED BY <1>1, <1>P2, <1>3, <1>4, <2>1, <2>2 DEF OutputInv, Working
<1> QED BY <1>1, <1>P1, <1>P2, <1>F, <1>5, <1>6, <1>7, <1>8, WorkingAssemble

LEMMA CloseKnownStep ==
    ASSUME IInv, NEW s \in Session, Close(s), s \in sess
    PROVE  IInv'
<1> DEFINE pr == [proc[s] EXCEPT !.shut = "taken", !.full = FALSE]
           q == inq[s]
<1>1. /\ Working
      /\ Takes(s)
      /\ toServer' = toServer
      /\ sess' = sess \ {s}
      /\ proc' = [proc EXCEPT ![s] = pr]
      /\ inq' = [inq EXCEPT ![s] = q]
      /\ Head(toAgent).t = "close" /\ s \in sess
  BY AgentFacts DEF Close, TakeSession, Working, Takes, IsNext, server
<1>P1. pr \in Process /\ q \in Seq({"data", "eof"})
  BY <1>1, AgentFacts, ZenonT(40) DEF Process
<1>P2. /\ proc'[s] = pr /\ inq'[s] = q
       /\ pr.shut = "taken"
       /\ pr.st = proc[s].st /\ pr.reaped = proc[s].reaped
       /\ pr.made = proc[s].made /\ pr.fed = proc[s].fed
       /\ pr.eof = proc[s].eof
  BY <1>1, AgentFacts DEF Process
<1> HIDE DEF pr, q
<1>U. UpKept(s)
  BY <1>1, UpUnchanged
<1>2. /\ Down("open", s)' = Down("open", s) /\ Down("data", s)' \in Nat
      /\ Down("eof", s)' \in Nat
      /\ NeverAfter(toAgent', Frame("data", s), Frame("eof", s))
      /\ Down("data", s)' = Down("data", s) /\ Down("eof", s)' = Down("eof", s)
      /\ Down("close", s) > 0
  BY <1>1, TakesCounts, GroundNat, SMTT(40) DEF Bit
<1>3. srv[s].pc = "done"
  BY <1>2, QuietFacts DEF CloseInv
<1>5. RunInv(s)'
  BY <1>1, <1>P2, QuietFacts DEF RunInv
<1>6. OpenInv(s)'
  <2>1. proc[s].st = "none" => /\ Down("data", s)' = 0 /\ Down("eof", s)' = 0
                               /\ inq'[s] = << >>
    BY <1>1, <1>P2, <1>2, QuietFacts DEF OpenInv, q
  <2> QED BY <1>1, <1>P2, <1>2, <1>U, <2>1, OpenKept
<1>7. InputInv(s)'
  <2>1. DownKept(s)
    BY <1>2 DEF DownKept
  <2> QED BY <1>1, <1>P2, <2>1, QuietFacts, InputKept DEF Working, q
<1>8. OutputInv(s)'
  <2>1. InHand(s)' = InHand(s)
    BY <1>1 DEF InHand, Working
  <2>2. OutputInv(s)
    BY QuietFacts
  <2> QED BY <1>1, <1>P2, <1>U, <2>1, <2>2, ZenonT(40)
          DEF OutputInv, UpKept, Working
<1> QED BY <1>1, <1>3, <1>P1, <1>P2, <1>5, <1>6, <1>7, <1>8, WorkingAssemble

\* The steps of sessionEntry.Close.
LEMMA CloseAllStep ==
    ASSUME IInv, NEW s \in Session, CloseAll(s)
    PROVE  IInv'
<1> DEFINE pr == [proc[s] EXCEPT !.shut = "taken", !.full = FALSE]
           q == inq[s]
<1>1. /\ Working
      /\ toAgent' = toAgent
      /\ toServer' = toServer
      /\ sess' = sess \ {s}
      /\ proc' = [proc EXCEPT ![s] = pr]
      /\ inq' = [inq EXCEPT ![s] = q]
      /\ ~agtUp /\ s \in sess
  BY AgentFacts DEF CloseAll, TakeSession, Working, server
<1>P1. pr \in Process /\ q \in Seq({"data", "eof"})
  BY <1>1, AgentFacts, ZenonT(40) DEF Process
<1>P2. /\ proc'[s] = pr /\ inq'[s] = q
       /\ pr.shut = "taken"
       /\ pr.st = proc[s].st /\ pr.reaped = proc[s].reaped
       /\ pr.made = proc[s].made /\ pr.fed = proc[s].fed
       /\ pr.eof = proc[s].eof
  BY <1>1, AgentFacts, ZenonT(60) DEF Process
<1> HIDE DEF pr, q
<1>D. DownKept(s)
  BY <1>1, DownUnchanged
<1>U. UpKept(s)
  BY <1>1, UpUnchanged
<1>5. RunInv(s)'
  BY <1>1, <1>P2, QuietFacts DEF RunInv
<1>6. OpenInv(s)'
  BY <1>1, <1>P2, <1>D, <1>U, QuietFacts
     DEF OpenInv, DownKept, UpKept, Working, q
<1>7. InputInv(s)'
  BY <1>1, <1>P2, <1>D, QuietFacts, InputKept DEF Working, q
<1>8. OutputInv(s)'
  <2>1. InHand(s)' = InHand(s)
    BY <1>1 DEF InHand, Working
  <2>2. OutputInv(s)
    BY QuietFacts
  <2> QED BY <1>1, <1>P2, <1>U, <2>1, <2>2, ZenonT(40)
          DEF OutputInv, UpKept, Working
<1> QED BY <1>1, <1>P1, <1>P2, <1>5, <1>6, <1>7, <1>8, WorkingAssemble

LEMMA CutInputStep ==
    ASSUME IInv, NEW s \in Session, CutInput(s)
    PROVE  IInv'
<1> DEFINE pr == [proc[s] EXCEPT !.shut = "closed"]
           q == inq[s]
<1>1. /\ Working
      /\ toAgent' = toAgent
      /\ toServer' = toServer
      /\ sess' = sess
      /\ proc' = [proc EXCEPT ![s] = pr]
      /\ inq' = [inq EXCEPT ![s] = q]
      /\ proc[s].shut = "taken"
  BY AgentFacts DEF CutInput, Working, server
<1>P1. pr \in Process /\ q \in Seq({"data", "eof"})
  BY <1>1, AgentFacts, ZenonT(40) DEF Process
<1>P2. /\ proc'[s] = pr /\ inq'[s] = q
       /\ pr.shut = "closed" /\ pr.full = proc[s].full
       /\ pr.st = proc[s].st /\ pr.reaped = proc[s].reaped
       /\ pr.made = proc[s].made /\ pr.fed = proc[s].fed
       /\ pr.eof = proc[s].eof
  BY <1>1, AgentFacts DEF Process
<1> HIDE DEF pr, q
<1>D. DownKept(s)
  BY <1>1, DownUnchanged
<1>U. UpKept(s)
  BY <1>1, UpUnchanged
<1>3. srv[s].pc = "done" \/ ~agtUp \/ pr.full
  BY <1>1, <1>P2, QuietFacts DEF CloseInv, Ended
<1>5. RunInv(s)'
  BY <1>1, <1>P2, QuietFacts DEF RunInv
<1>6. OpenInv(s)'
  BY <1>1, <1>P2, <1>D, <1>U, QuietFacts
     DEF OpenInv, DownKept, UpKept, Working, q
<1>7. InputInv(s)'
  BY <1>1, <1>P2, <1>D, QuietFacts, InputKept DEF Working, q
<1>8. OutputInv(s)'
  <2>1. InHand(s)' = InHand(s)
    BY <1>1 DEF InHand, Working
  <2>2. OutputInv(s)
    BY QuietFacts
  <2> QED BY <1>1, <1>P2, <1>U, <2>1, <2>2, ZenonT(40)
          DEF OutputInv, UpKept, Working
<1> QED BY <1>1, <1>3, <1>P1, <1>P2, <1>5, <1>6, <1>7, <1>8, WorkingAssemble

LEMMA KillStep ==
    ASSUME IInv, NEW s \in Session, Kill(s)
    PROVE  IInv'
<1> DEFINE z == IF proc[s].full THEN "killed" ELSE "no"
           pr == [proc[s] EXCEPT !.st = Stopped(s), !.shut = z]
           q == inq[s]
<1>1. /\ Working
      /\ toAgent' = toAgent
      /\ toServer' = toServer
      /\ sess' = sess
      /\ proc' = [proc EXCEPT ![s] = pr]
      /\ inq' = [inq EXCEPT ![s] = q]
      /\ proc[s].shut = "closed"
  BY AgentFacts DEF Kill, Working, server, Stopped
<1>Z. z \in {"no", "killed"} /\ (z # "no" => proc[s].full)
  OBVIOUS
<1> HIDE DEF z
<1>P1. pr \in Process /\ q \in Seq({"data", "eof"})
  BY <1>1, <1>Z, AgentFacts, StoppedIs, ZenonT(120) DEF Process
<1>P2. /\ proc'[s] = pr /\ inq'[s] = q
       /\ pr.shut = z /\ pr.full = proc[s].full
       /\ pr.st = Stopped(s) /\ pr.reaped = proc[s].reaped
       /\ pr.made = proc[s].made /\ pr.fed = proc[s].fed
       /\ pr.eof = proc[s].eof
  BY <1>1, AgentFacts DEF Process
<1> HIDE DEF pr, q
<1>D. DownKept(s)
  BY <1>1, DownUnchanged
<1>U. UpKept(s)
  BY <1>1, UpUnchanged
<1>3. pr.shut # "no" => pr.full
  BY <1>Z, <1>P2
<1>4. s \notin sess
  BY <1>1, QuietFacts DEF RunInv
<1>5. RunInv(s)'
  BY <1>1, <1>4, <1>P2, QuietFacts, StoppedIs, ZenonT(40) DEF RunInv
<1>6. OpenInv(s)'
  <2>1. proc[s].st = "none" => /\ Down("data", s)' = 0 /\ Down("eof", s)' = 0
                               /\ inq'[s] = << >>
    BY <1>1, <1>P2, <1>D, QuietFacts DEF OpenInv, DownKept, q
  <2>2. Down("open", s)' = Down("open", s)
    BY <1>D DEF DownKept
  <2>3. proc'[s].st = "none" <=> proc[s].st = "none"
    BY <1>P2, StoppedIs
  <2> QED BY <1>1, <1>P2, <1>U, <2>1, <2>2, <2>3, OpenKept
<1>7. InputInv(s)'
  BY <1>1, <1>P2, <1>D, QuietFacts, InputKept DEF Working, q
<1>8. OutputInv(s)'
  <2>1. InHand(s)' = InHand(s)
    BY <1>1 DEF InHand, Working
  <2>2. OutputInv(s)
    BY QuietFacts
  <2> QED BY <1>1, <1>P2, <1>U, <2>1, <2>2, StoppedIs, ZenonT(40)
          DEF OutputInv, UpKept, Working
<1> QED BY <1>1, <1>3, <1>P1, <1>P2, <1>5, <1>6, <1>7, <1>8, WorkingAssemble

LEMMA TellFullStep ==
    ASSUME IInv, NEW s \in Session, TellFull(s)
    PROVE  IInv'
<1> DEFINE pr == [proc[s] EXCEPT !.shut = "no", !.full = FALSE]
           q == inq[s]
           f == [t |-> "err", s |-> s]
<1>1. /\ Working
      /\ toAgent' = toAgent
      /\ f \in ToServer /\ f.s = s /\ AgentSends(f)
      /\ sess' = sess
      /\ proc' = [proc EXCEPT ![s] = pr]
      /\ inq' = [inq EXCEPT ![s] = q]
      /\ proc[s].shut = "killed"
  BY AgentFacts DEF TellFull, Working, server, ToServer
<1>P1. pr \in Process /\ q \in Seq({"data", "eof"})
  BY <1>1, AgentFacts, ZenonT(40) DEF Process
<1>P2. /\ proc'[s] = pr /\ inq'[s] = q
       /\ pr.shut = "no"
       /\ pr.st = proc[s].st /\ pr.reaped = proc[s].reaped
       /\ pr.made = proc[s].made /\ pr.fed = proc[s].fed
       /\ pr.eof = proc[s].eof
  BY <1>1, AgentFacts, ZenonT(60) DEF Process
<1>F. f.t = "err"
  OBVIOUS
<1> HIDE DEF pr, q, f
<1>D. DownKept(s)
  BY <1>1, DownUnchanged
<1>3. /\ Up("ok", s)' = Up("ok", s) /\ Up("data", s)' = Up("data", s)
      /\ UpEnds(s)' = UpEnds(s) /\ UpOwn(s)' = UpOwn(s)
      /\ NeverAfter(toServer', Frame("data", s), Ends(s))
  BY <1>1, <1>F, SentCounts, GroundNat DEF Bit
<1>5. RunInv(s)'
  BY <1>1, <1>P2, QuietFacts DEF RunInv
<1>6. OpenInv(s)'
  BY <1>1, <1>P2, <1>D, <1>3, QuietFacts DEF OpenInv, DownKept, Working, q
<1>7. InputInv(s)'
  BY <1>1, <1>P2, <1>D, QuietFacts, InputKept DEF Working, q
<1>8. OutputInv(s)'
  <2>1. InHand(s)' = InHand(s)
    BY <1>1 DEF InHand, Working
  <2>2. OutputInv(s)
    BY QuietFacts
  <2> QED BY <1>1, <1>P2, <1>3, <2>1, <2>2 DEF OutputInv, Working
<1> QED BY <1>1, <1>P1, <1>P2, <1>F, <1>5, <1>6, <1>7, <1>8, WorkingAssemble

LEMMA CloseUnknownStep ==
    ASSUME IInv, NEW s \in Session, Close(s), s \notin sess
    PROVE  IInv'
<1> DEFINE pr == proc[s]
           q == inq[s]
<1>1. /\ Working
      /\ Takes(s)
      /\ toServer' = toServer
      /\ sess' = sess
      /\ proc' = [proc EXCEPT ![s] = pr]
      /\ inq' = [inq EXCEPT ![s] = q]
      /\ Head(toAgent).t = "close" /\ s \notin sess
  BY AgentFacts DEF Close, Working, Takes, IsNext, server, ToServer, Code
<1>P1. pr \in Process /\ q \in Seq({"data", "eof"})
  BY <1>1, AgentFacts DEF Process
<1>P2. /\ proc'[s] = pr /\ inq'[s] = q
       /\ pr.shut = proc[s].shut /\ pr.full = proc[s].full
       /\ pr.st = proc[s].st /\ pr.reaped = proc[s].reaped
       /\ pr.made = proc[s].made /\ pr.fed = proc[s].fed
       /\ pr.eof = proc[s].eof
  BY <1>1, AgentFacts DEF Process
<1> HIDE DEF pr, q
<1>U. UpKept(s)
  BY <1>1, UpUnchanged
<1>2. /\ Down("open", s)' = Down("open", s) /\ Down("data", s)' \in Nat
      /\ Down("eof", s)' \in Nat
      /\ NeverAfter(toAgent', Frame("data", s), Frame("eof", s))
      /\ Down("data", s)' = Down("data", s) /\ Down("eof", s)' = Down("eof", s)
  BY <1>1, TakesCounts, GroundNat, SMTT(40) DEF Bit
<1>5. RunInv(s)'
  BY <1>1, <1>P2, QuietFacts DEF RunInv
<1>6. OpenInv(s)'
  <2>1. proc[s].st = "none" => /\ Down("data", s)' = 0 /\ Down("eof", s)' = 0
                               /\ inq'[s] = << >>
    BY <1>1, <1>P2, <1>2, QuietFacts DEF OpenInv, q
  <2> QED BY <1>1, <1>P2, <1>2, <1>U, <2>1, OpenKept
<1>7. InputInv(s)'
  <2>1. DownKept(s)
    BY <1>2 DEF DownKept
  <2> QED BY <1>1, <1>P2, <2>1, QuietFacts, InputKept DEF Working, q
<1>8. OutputInv(s)'
  BY <1>1, <1>P2, <1>U, QuietFacts, OutputKept DEF Working, pr
<1> QED BY <1>1, <1>P1, <1>P2, <1>5, <1>6, <1>7, <1>8, WorkingAssemble

LEMMA InputIgnoredStep ==
    ASSUME IInv, NEW s \in Session, Input(s), s \notin sess
    PROVE  IInv'
<1> DEFINE pr == proc[s]
           q == inq[s]
<1>1. /\ Working
      /\ Takes(s)
      /\ toServer' = toServer
      /\ sess' = sess
      /\ proc' = [proc EXCEPT ![s] = pr]
      /\ inq' = [inq EXCEPT ![s] = q]
      /\ Head(toAgent).t \in {"data", "eof"} /\ s \notin sess
  BY AgentFacts DEF Input, Working, Takes, IsNext, server, ToServer, Code
<1>P1. pr \in Process /\ q \in Seq({"data", "eof"})
  BY <1>1, AgentFacts DEF Process
<1>P2. /\ proc'[s] = pr /\ inq'[s] = q
       /\ pr.shut = proc[s].shut /\ pr.full = proc[s].full
       /\ pr.st = proc[s].st /\ pr.reaped = proc[s].reaped
       /\ pr.made = proc[s].made /\ pr.fed = proc[s].fed
       /\ pr.eof = proc[s].eof
  BY <1>1, AgentFacts DEF Process
<1> HIDE DEF pr, q
<1>U. UpKept(s)
  BY <1>1, UpUnchanged
<1>2. /\ Down("open", s)' = Down("open", s) /\ Down("data", s)' \in Nat
      /\ Down("eof", s)' \in Nat
      /\ NeverAfter(toAgent', Frame("data", s), Frame("eof", s))
      /\ Down("data", s) = Down("data", s)' + Bit(Head(toAgent).t = "data")
      /\ Down("eof", s) = Down("eof", s)' + Bit(Head(toAgent).t = "eof")
      /\ Head(toAgent).t = "eof" => Down("data", s)' = 0
  BY <1>1, TakesCounts, GroundNat, SMTT(40) DEF Bit
<1>3. proc[s].st # "none"
  BY <1>1, <1>2, QuietFacts DEF OpenInv, Bit
<1>5. RunInv(s)'
  BY <1>1, <1>P2, QuietFacts DEF RunInv
<1>6. OpenInv(s)'
  <2>1. proc[s].st = "none" => /\ Down("data", s)' = 0 /\ Down("eof", s)' = 0
                               /\ inq'[s] = << >>
    BY <1>1, <1>P2, <1>2, <1>3, QuietFacts DEF OpenInv, q
  <2> QED BY <1>1, <1>P2, <1>2, <1>U, <2>1, OpenKept
<1>7. InputInv(s)'
  <2>1. Queued("data", s)' = Queued("data", s) /\ Queued("eof", s)' = Queued("eof", s)
    BY <1>P2 DEF Queued, q
  <2> QED BY <1>1, <1>P2, <1>2, <2>1, QuietFacts DEF InputInv, Working, q, Bit
<1>8. OutputInv(s)'
  BY <1>1, <1>P2, <1>U, QuietFacts, OutputKept DEF Working, pr
<1> QED BY <1>1, <1>P1, <1>P2, <1>5, <1>6, <1>7, <1>8, WorkingAssemble

LEMMA InputFullStep ==
    ASSUME IInv, NEW s \in Session, Input(s), s \in sess, Len(inq[s]) = QueueLen
    PROVE  IInv'
<1> DEFINE pr == [proc[s] EXCEPT !.shut = "taken", !.full = TRUE]
           q == inq[s]
<1>1. /\ Working
      /\ Takes(s)
      /\ toServer' = toServer
      /\ sess' = sess \ {s}
      /\ proc' = [proc EXCEPT ![s] = pr]
      /\ inq' = [inq EXCEPT ![s] = q]
      /\ Head(toAgent).t \in {"data", "eof"} /\ s \in sess
  <2>1. TakeSession(s, TRUE) /\ UNCHANGED inq
    <3>1. ~(Len(inq[s]) < QueueLen)
      BY BoundAssumption
    <3> QED BY <3>1, Zenon DEF Input
  <2> QED BY <2>1, AgentFacts, ZenonT(60) DEF Input, TakeSession, Working, Takes, server
<1>P1. pr \in Process /\ q \in Seq({"data", "eof"})
  BY <1>1, AgentFacts, ZenonT(40) DEF Process
<1>P2. /\ proc'[s] = pr /\ inq'[s] = q
       /\ pr.shut = "taken" /\ pr.full = TRUE
       /\ pr.st = proc[s].st /\ pr.reaped = proc[s].reaped
       /\ pr.made = proc[s].made /\ pr.fed = proc[s].fed
       /\ pr.eof = proc[s].eof
  BY <1>1, AgentFacts DEF Process
<1> HIDE DEF pr, q
<1>U. UpKept(s)
  BY <1>1, UpUnchanged
<1>2. /\ Down("open", s)' = Down("open", s) /\ Down("data", s)' \in Nat
      /\ Down("eof", s)' \in Nat
      /\ NeverAfter(toAgent', Frame("data", s), Frame("eof", s))
      /\ Down("data", s) = Down("data", s)' + Bit(Head(toAgent).t = "data")
      /\ Down("eof", s) = Down("eof", s)' + Bit(Head(toAgent).t = "eof")
      /\ Head(toAgent).t = "eof" => Down("data", s)' = 0
  BY <1>1, TakesCounts, GroundNat, SMTT(40) DEF Bit
<1>3. proc[s].st # "none"
  BY <1>1, <1>2, QuietFacts DEF OpenInv, Bit
<1>5. RunInv(s)'
  BY <1>1, <1>P2, QuietFacts DEF RunInv
<1>6. OpenInv(s)'
  BY <1>1, <1>P2, <1>2, <1>3, <1>U, OpenKept
<1>7. InputInv(s)'
  <2>1. Queued("data", s)' = Queued("data", s) /\ Queued("eof", s)' = Queued("eof", s)
    BY <1>P2 DEF Queued, q
  <2>2. InputInv(s)
    BY QuietFacts
  <2>3. /\ client' = client /\ s \notin sess'
        /\ proc'[s].fed = proc[s].fed /\ proc'[s].eof = proc[s].eof
        /\ inq'[s] = inq[s]
    BY <1>1, <1>P2 DEF Working, q
  <2>4. /\ Down("data", s) = 0 => Down("data", s)' = 0
        /\ Down("eof", s) = 0 => Down("eof", s)' = 0
    BY <1>2 DEF Bit
  <2> QED BY <1>2, <2>1, <2>2, <2>3, <2>4 DEF InputInv
<1>8. OutputInv(s)'
  <2>1. InHand(s)' = InHand(s)
    BY <1>1 DEF InHand, Working
  <2>2. OutputInv(s)
    BY QuietFacts
  <2> QED BY <1>1, <1>P2, <1>U, <2>1, <2>2, ZenonT(40)
          DEF OutputInv, UpKept, Working
<1> QED BY <1>1, <1>P1, <1>P2, <1>5, <1>6, <1>7, <1>8, WorkingAssemble

LEMMA InputQueuedStep ==
    ASSUME IInv, NEW s \in Session, Input(s), s \in sess, Len(inq[s]) # QueueLen
    PROVE  IInv'
<1> DEFINE pr == proc[s]
           q == Append(inq[s], Head(toAgent).t)
<1>1. /\ Working
      /\ Takes(s)
      /\ toServer' = toServer
      /\ sess' = sess
      /\ proc' = [proc EXCEPT ![s] = pr]
      /\ inq' = [inq EXCEPT ![s] = q]
      /\ Head(toAgent).t \in {"data", "eof"} /\ s \in sess
  BY AgentFacts, BoundAssumption DEF Input, Working, Takes, IsNext, server, ToServer, Code
<1>P1. pr \in Process /\ q \in Seq({"data", "eof"})
  BY <1>1, AgentFacts
<1>P2. /\ proc'[s] = pr /\ inq'[s] = q
       /\ pr.shut = proc[s].shut /\ pr.full = proc[s].full
       /\ pr.st = proc[s].st /\ pr.reaped = proc[s].reaped
       /\ pr.made = proc[s].made /\ pr.fed = proc[s].fed
       /\ pr.eof = proc[s].eof
  BY <1>1, AgentFacts DEF Process
<1> HIDE DEF pr, q
<1>U. UpKept(s)
  BY <1>1, UpUnchanged
<1>2. /\ Down("open", s)' = Down("open", s) /\ Down("data", s)' \in Nat
      /\ Down("eof", s)' \in Nat
      /\ NeverAfter(toAgent', Frame("data", s), Frame("eof", s))
      /\ Down("data", s) = Down("data", s)' + Bit(Head(toAgent).t = "data")
      /\ Down("eof", s) = Down("eof", s)' + Bit(Head(toAgent).t = "eof")
      /\ Head(toAgent).t = "eof" => Down("data", s)' = 0
  BY <1>1, TakesCounts, GroundNat, SMTT(40) DEF Bit
<1>3. proc[s].st # "none"
  BY <1>1, <1>2, QuietFacts DEF OpenInv, Bit
<1>4. /\ Queued("data", s)' = Queued("data", s) + Bit(Head(toAgent).t = "data")
      /\ Queued("eof", s)' = Queued("eof", s) + Bit(Head(toAgent).t = "eof")
      /\ Head(toAgent).t = "data" => Queued("eof", s) = 0
      /\ NeverAfter(inq'[s], {"data"}, {"eof"})
  <2>1. inq'[s] = Append(inq[s], Head(toAgent).t)
    BY <1>P2 DEF q
  <2>2. \A S : Count(inq'[s], S) = Count(inq[s], S) + One(Head(toAgent).t, S)
    <3>1. Head(toAgent).t \in {"data", "eof"} /\ inq[s] \in Seq({"data", "eof"})
      BY <1>1, AgentFacts
    <3> QED BY <2>1, <3>1, CountAppend
  <2>3. Head(toAgent).t = "data" => Queued("eof", s) = 0
    <3>1. Head(toAgent).t = "data" => Down("data", s) # 0
      BY <1>2, GroundNat DEF Bit
    <3>2. Queued("eof", s) > 0 => Down("data", s) = 0
      BY QuietFacts DEF InputInv
    <3> QED BY <3>1, <3>2, GroundNat
  <2>4. NeverAfter(inq[s], {"data"}, {"eof"})
    BY QuietFacts DEF InputInv
  <2>5. NeverAfter(inq'[s], {"data"}, {"eof"})
    <3>1. Head(toAgent).t \in {"data", "eof"} /\ inq[s] \in Seq({"data", "eof"})
      BY <1>1, AgentFacts
    <3>2. ~(Head(toAgent).t \in {"data"}) \/ Count(inq[s], {"eof"}) = 0
      BY <2>3 DEF Queued
    <3> QED BY <2>1, <2>4, <3>1, <3>2, NeverAfterAppend
  <2> QED BY <2>2, <2>3, <2>5 DEF Queued, One, Bit
<1>5. RunInv(s)'
  BY <1>1, <1>P2, QuietFacts DEF RunInv
<1>6. OpenInv(s)'
  <2>1. proc[s].st = "none" => /\ Down("data", s)' = 0 /\ Down("eof", s)' = 0
                               /\ inq'[s] = << >>
    BY <1>1, <1>P2, <1>2, <1>3, QuietFacts DEF OpenInv, q
  <2> QED BY <1>1, <1>P2, <1>2, <1>U, <2>1, OpenKept
<1>7. InputInv(s)'
  <2>1. client[s].typed = proc[s].fed + Queued("data", s) + Down("data", s)
    BY <1>1, QuietFacts DEF InputInv, Takes
  <2>2. Queued("data", s)' + Down("data", s)' = Queued("data", s) + Down("data", s)
    BY <1>1, <1>2, <1>4, GroundNat, SMTT(60) DEF Bit
  <2>3. client[s].typed = proc[s].fed + Queued("data", s)' + Down("data", s)'
    <3>1. Queued("data", s)' \in Nat
      BY <1>4, GroundNat DEF Bit
    <3>2. proc[s].fed \in Nat
      BY QuietFacts
    <3>3. Queued("data", s) \in Nat /\ Down("data", s) \in Nat /\ Down("data", s)' \in Nat
      BY <1>2, GroundNat
    <3> QED BY <2>1, <2>2, <3>1, <3>2, <3>3, SMTT(40)
  <2>4. Head(toAgent).t = "data" => Down("data", s) > 0 /\ Queued("eof", s)' = 0 /\ ~proc[s].eof
    BY <1>1, <1>2, <1>4, QuietFacts, GroundNat, SMTT(60) DEF InputInv, Bit
  <2>5. Head(toAgent).t = "eof" => Down("data", s)' = 0 /\ Queued("data", s)' = Queued("data", s) /\ client[s].eof
    BY <1>1, <1>2, <1>4, QuietFacts, GroundNat DEF InputInv, Bit
  <2>6. ~client[s].eof => Down("eof", s)' = 0 /\ Queued("eof", s)' = 0 /\ ~proc[s].eof
    BY <1>1, <1>2, <1>4, <2>5, QuietFacts, GroundNat DEF InputInv, Bit
  <2>7. proc[s].eof => Queued("data", s)' = 0 /\ proc[s].fed = client[s].typed
    BY <1>1, <2>4, <2>5, QuietFacts DEF InputInv
  <2>8. Queued("eof", s)' > 0 \/ proc[s].eof => Down("data", s)' = 0
    BY <1>1, <2>4, <2>5
  <2>9. /\ proc[s].fed + Queued("data", s)' <= client[s].typed
        /\ Queued("eof", s)' > 0 =>
             client[s].typed = proc[s].fed + Queued("data", s)'
    <3>1. Queued("data", s)' \in Nat /\ proc[s].fed \in Nat
      BY <1>4, GroundNat, QuietFacts DEF Bit
    <3> QED BY <2>3, <2>8, <3>1, <1>2
  <2> QED BY <1>1, <1>P2, <1>2, <1>4, <2>3, <2>6, <2>7, <2>8, <2>9
          DEF InputInv, Working
<1>8. OutputInv(s)'
  BY <1>1, <1>P2, <1>U, QuietFacts, OutputKept DEF Working, pr
<1> QED BY <1>1, <1>P1, <1>P2, <1>5, <1>6, <1>7, <1>8, WorkingAssemble

LEMMA PumpDataStep ==
    ASSUME IInv, NEW s \in Session, PumpInput(s), Head(inq[s]) = "data"
    PROVE  IInv'
<1> DEFINE pr == [proc[s] EXCEPT !.fed = proc[s].fed + 1]
           q == Tail(inq[s])
<1>1. /\ Working
      /\ toAgent' = toAgent
      /\ toServer' = toServer
      /\ sess' = sess
      /\ proc' = [proc EXCEPT ![s] = pr]
      /\ inq' = [inq EXCEPT ![s] = q]
      /\ proc[s].st = "running" /\ inq[s] # << >>
      /\ Head(inq[s]) = "data"
  BY AgentFacts DEF PumpInput, Working, Takes, IsNext, server, ToServer, Code
<1>P1. pr \in Process /\ q \in Seq({"data", "eof"})
  <2>0. q \in Seq({"data", "eof"})
    BY <1>1, AgentFacts
  <2>1. proc[s].fed + 1 \in 0..MaxIn
    <3>1. /\ proc[s].fed \in Nat /\ client[s].typed \in 0..MaxIn
          /\ proc[s].fed + Queued("data", s) <= client[s].typed
          /\ Queued("data", s) \in Nat
      BY <1>1, QuietFacts, GroundNat DEF InputInv, Client
    <3>2. Queued("data", s) # 0
      <4>1. inq[s] \in Seq({"data", "eof"}) /\ 1 \in 1..Len(inq[s])
            /\ inq[s][1] \in {"data"}
        BY <1>1, AgentFacts
      <4> QED BY <4>1, CountZero DEF Queued
    <3>3. MaxIn \in Nat
      BY BoundAssumption
    <3> HIDE DEF pr, q
    <3> QED BY <3>1, <3>2, <3>3
  <2> QED BY <1>1, <2>0, <2>1, AgentFacts, ZenonT(40) DEF Process
<1>P2. /\ proc'[s] = pr /\ inq'[s] = q
       /\ pr.shut = proc[s].shut /\ pr.full = proc[s].full
       /\ pr.fed = proc[s].fed + 1
       /\ pr.st = proc[s].st /\ pr.reaped = proc[s].reaped
       /\ pr.made = proc[s].made /\ pr.eof = proc[s].eof
  BY <1>1, AgentFacts DEF Process
<1> HIDE DEF pr, q
<1>D. DownKept(s)
  BY <1>1, DownUnchanged
<1>U. UpKept(s)
  BY <1>1, UpUnchanged
<1>4. /\ Queued("data", s) = Queued("data", s)' + Bit(Head(inq[s]) = "data")
      /\ Queued("eof", s) = Queued("eof", s)' + Bit(Head(inq[s]) = "eof")
      /\ Queued("data", s)' \in Nat /\ Queued("eof", s)' \in Nat
      /\ NeverAfter(inq'[s], {"data"}, {"eof"})
      /\ Head(inq[s]) = "eof" => Queued("data", s)' = 0
  <2>1. inq'[s] = Tail(inq[s]) /\ inq[s] # << >>
        /\ inq[s] \in Seq({"data", "eof"}) /\ inq'[s] \in Seq({"data", "eof"})
    BY <1>1, <1>P1, <1>P2, AgentFacts DEF q
  <2>2. ASSUME NEW S
        PROVE  /\ Count(inq[s], S) = Count(inq'[s], S) + One(Head(inq[s]), S)
               /\ Count(inq'[s], S) \in Nat
    BY <2>1, CountTail, CountNat
  <2>3. NeverAfter(inq[s], {"data"}, {"eof"})
    BY QuietFacts DEF InputInv
  <2>4. /\ NeverAfter(inq'[s], {"data"}, {"eof"})
        /\ Head(inq[s]) \in {"eof"} => Count(inq'[s], {"data"}) = 0
    BY <2>1, <2>3, NeverAfterTail
  <2> QED BY <2>2, <2>4 DEF Queued, One, Bit
<1>3. /\ proc[s].fed \in Nat /\ client[s].typed \in Nat
      /\ proc[s].fed + Queued("data", s) <= client[s].typed
      /\ Queued("data", s) \in Nat /\ Down("data", s) \in Nat
      /\ s \in sess /\ agtUp =>
           client[s].typed = proc[s].fed + Queued("data", s) + Down("data", s)
      /\ Queued("eof", s) > 0 =>
           client[s].typed = proc[s].fed + Queued("data", s)
  BY <1>1, QuietFacts, GroundNat DEF InputInv
<1>5. RunInv(s)'
  BY <1>1, <1>P2, QuietFacts DEF RunInv
<1>6. OpenInv(s)'
  BY <1>1, <1>P2, <1>D, <1>U, QuietFacts DEF OpenInv, DownKept, UpKept, Working
<1>7. InputInv(s)'
  <2>1. Queued("data", s) = Queued("data", s)' + 1 /\ Queued("eof", s)' = Queued("eof", s)
    BY <1>1, <1>4, GroundNat DEF Bit
  <2>2. /\ s \in sess /\ agtUp =>
             client[s].typed = proc'[s].fed + Queued("data", s)' + Down("data", s)
        /\ proc'[s].fed + Queued("data", s)' <= client[s].typed
        /\ Queued("eof", s) > 0 =>
             client[s].typed = proc'[s].fed + Queued("data", s)'
    BY <1>P2, <1>3, <1>4, <2>1
  <2>3. ~proc[s].eof
    BY <1>4, <2>1, QuietFacts DEF InputInv
  <2> QED BY <1>1, <1>P2, <1>4, <1>D, <2>1, <2>2, <2>3, QuietFacts
          DEF InputInv, DownKept, Working
<1>8. OutputInv(s)'
  <2>1. InHand(s)' = InHand(s)
    BY <1>1 DEF InHand, Working
  <2>2. OutputInv(s)
    BY QuietFacts
  <2> QED BY <1>1, <1>P2, <1>U, <2>1, <2>2 DEF OutputInv, UpKept, Working
<1> QED BY <1>1, <1>P1, <1>P2, <1>5, <1>6, <1>7, <1>8, WorkingAssemble

LEMMA PumpEofStep ==
    ASSUME IInv, NEW s \in Session, PumpInput(s), Head(inq[s]) = "eof"
    PROVE  IInv'
<1> DEFINE pr == [proc[s] EXCEPT !.eof = TRUE]
           q == Tail(inq[s])
<1>1. /\ Working
      /\ toAgent' = toAgent
      /\ toServer' = toServer
      /\ sess' = sess
      /\ proc' = [proc EXCEPT ![s] = pr]
      /\ inq' = [inq EXCEPT ![s] = q]
      /\ proc[s].st = "running" /\ inq[s] # << >>
      /\ Head(inq[s]) = "eof"
  BY AgentFacts DEF PumpInput, Working, Takes, IsNext, server, ToServer, Code
<1>P1. pr \in Process /\ q \in Seq({"data", "eof"})
  <2>0. q \in Seq({"data", "eof"})
    BY <1>1, AgentFacts
  <2> QED BY <1>1, <2>0, AgentFacts, ZenonT(40) DEF Process
<1>P2. /\ proc'[s] = pr /\ inq'[s] = q
       /\ pr.shut = proc[s].shut /\ pr.full = proc[s].full
       /\ pr.eof = TRUE
       /\ pr.st = proc[s].st /\ pr.reaped = proc[s].reaped
       /\ pr.made = proc[s].made /\ pr.fed = proc[s].fed
  BY <1>1, AgentFacts DEF Process
<1> HIDE DEF pr, q
<1>D. DownKept(s)
  BY <1>1, DownUnchanged
<1>U. UpKept(s)
  BY <1>1, UpUnchanged
<1>4. /\ Queued("data", s) = Queued("data", s)' + Bit(Head(inq[s]) = "data")
      /\ Queued("eof", s) = Queued("eof", s)' + Bit(Head(inq[s]) = "eof")
      /\ Queued("data", s)' \in Nat /\ Queued("eof", s)' \in Nat
      /\ NeverAfter(inq'[s], {"data"}, {"eof"})
      /\ Head(inq[s]) = "eof" => Queued("data", s)' = 0
  <2>1. inq'[s] = Tail(inq[s]) /\ inq[s] # << >>
        /\ inq[s] \in Seq({"data", "eof"}) /\ inq'[s] \in Seq({"data", "eof"})
    BY <1>1, <1>P1, <1>P2, AgentFacts DEF q
  <2>2. ASSUME NEW S
        PROVE  /\ Count(inq[s], S) = Count(inq'[s], S) + One(Head(inq[s]), S)
               /\ Count(inq'[s], S) \in Nat
    BY <2>1, CountTail, CountNat
  <2>3. NeverAfter(inq[s], {"data"}, {"eof"})
    BY QuietFacts DEF InputInv
  <2>4. /\ NeverAfter(inq'[s], {"data"}, {"eof"})
        /\ Head(inq[s]) \in {"eof"} => Count(inq'[s], {"data"}) = 0
    BY <2>1, <2>3, NeverAfterTail
  <2> QED BY <2>2, <2>4 DEF Queued, One, Bit
<1>3. /\ proc[s].fed \in Nat /\ client[s].typed \in Nat
      /\ Queued("eof", s) > 0 =>
           client[s].typed = proc[s].fed + Queued("data", s)
  BY <1>1, QuietFacts, GroundNat DEF InputInv
<1>5. RunInv(s)'
  BY <1>1, <1>P2, QuietFacts DEF RunInv
<1>6. OpenInv(s)'
  BY <1>1, <1>P2, <1>D, <1>U, QuietFacts DEF OpenInv, DownKept, UpKept, Working
<1>7. InputInv(s)'
  <2>1. Queued("data", s) = Queued("data", s)' /\ Queued("data", s)' = 0
        /\ Queued("eof", s) > 0
    BY <1>1, <1>4, GroundNat DEF Bit
  <2>2. Down("data", s) = 0 /\ client[s].eof
    BY <2>1, QuietFacts DEF InputInv
  <2>3. proc[s].fed = client[s].typed
    BY <1>3, <2>1, <2>2
  <2> QED BY <1>1, <1>P2, <1>4, <1>D, <2>1, <2>2, <2>3, QuietFacts
          DEF InputInv, DownKept, Working
<1>8. OutputInv(s)'
  <2>1. InHand(s)' = InHand(s)
    BY <1>1 DEF InHand, Working
  <2>2. OutputInv(s)
    BY QuietFacts
  <2> QED BY <1>1, <1>P2, <1>U, <2>1, <2>2 DEF OutputInv, UpKept, Working
<1> QED BY <1>1, <1>P1, <1>P2, <1>5, <1>6, <1>7, <1>8, WorkingAssemble


\* The connection is shut on the server's side.
LEMMA ShutdownStep ==
    ASSUME IInv, Shutdown
    PROVE  IInv'
<1>1. TypeOK /\ ShutInv /\ \A x \in Session : SessionInv(x)
  BY DEF IInv
<1>2. /\ srvUp' = FALSE /\ table' = {} /\ toServer' = << >>
      /\ client' = client /\ toAgent' = toAgent /\ agtUp' = agtUp /\ sess' = sess
      /\ inq' = inq /\ proc' = proc /\ stalled' = stalled /\ lost' \in BOOLEAN
      /\ srv' = [x \in Session |->
                   IF x \in table THEN [srv[x] EXCEPT !.closed = TRUE] ELSE srv[x]]
  BY <1>1 DEF Shutdown, machine, TypeOK
<1>3. TypeOK'
  <2>1. srv' \in [Session -> Handler]
    BY <1>1, <1>2, HandlerClosed DEF TypeOK
  <2>2. toServer' \in Seq(ToServer) /\ Len(toServer') <= NetLen
    BY <1>2, BoundAssumption
  <2> QED BY <1>1, <1>2, <2>1, <2>2 DEF TypeOK
<1>4. ShutInv'
  BY <1>1, <1>2 DEF ShutInv
<1>5. ASSUME NEW x \in Session
      PROVE  SessionInv(x)'
  <2>1. /\ Up("ok", x)' = 0 /\ Up("data", x)' = 0 /\ UpEnds(x)' = 0 /\ UpOwn(x)' = 0
        /\ NeverAfter(toServer', Frame("data", x), Ends(x))
    BY <1>2, CountEmpty, NeverAfterEmpty DEF Up, UpEnds, UpOwn
  <2>2. /\ srv'[x].pc = srv[x].pc /\ srv'[x].ready = srv[x].ready
        /\ srv'[x].code = srv[x].code /\ srv'[x].buf = srv[x].buf
        /\ srv'[x].hand = srv[x].hand
        /\ srv'[x].closed = srv[x].closed \/ x \in table
    BY <1>1, <1>2 DEF TypeOK, Handler
  <2>3. DownKept(x)
    BY <1>2, DownUnchanged
  <2>4. RunInv(x)'
    BY <1>1, <1>2, RunKept DEF SessionInv
  <2>5. OpenInv(x)'
    BY <1>1, <1>2, <2>1, <2>2, <2>3 DEF SessionInv, OpenInv, DownKept
  <2>6. InputInv(x)'
    BY <1>1, <1>2, <2>3, InputKept DEF SessionInv
  <2>7. TableInv(x)'
    BY <1>1, <1>2, <2>2 DEF SessionInv, TableInv
  <2>8. OutputInv(x)'
    <3>1. InHand(x)' = InHand(x)
      BY <2>2 DEF InHand
    <3> QED BY <1>1, <1>2, <2>1, <2>2, <3>1 DEF SessionInv, OutputInv
  <2>9. CloseInv(x)'
    BY <1>1, <1>2, <2>2, CloseUnchanged, CloseInvKept DEF SessionInv
  <2> QED BY <2>4, <2>5, <2>6, <2>7, <2>8, <2>9 DEF SessionInv
<1> QED BY <1>3, <1>4, <1>5 DEF IInv

\* The agent's loop ends.
LEMMA LoopEndsStep ==
    ASSUME IInv, LoopEnds, lost' \in BOOLEAN
    PROVE  IInv'
<1>1. TypeOK /\ ShutInv /\ \A x \in Session : SessionInv(x)
  BY DEF IInv
<1>2. /\ agtUp' = FALSE /\ sess' = sess /\ toAgent' = << >> /\ proc' = proc
      /\ srvUp' = srvUp /\ table' = table /\ srv' = srv /\ stalled' = stalled
      /\ client' = client /\ toServer' = toServer /\ inq' = inq
  BY DEF LoopEnds, server
<1>3. TypeOK'
  <2>1. toAgent' \in Seq(ToAgent)
    BY <1>2
  <2> QED BY <1>1, <1>2, <2>1 DEF TypeOK
<1>4. ShutInv'
  BY <1>1, <1>2 DEF ShutInv
<1>5. ASSUME NEW x \in Session
      PROVE  SessionInv(x)'
  <2>1. /\ Down("open", x)' = 0 /\ Down("data", x)' = 0 /\ Down("eof", x)' = 0
        /\ Down("close", x)' = 0
        /\ NeverAfter(toAgent', Frame("data", x), Frame("eof", x))
    BY <1>2, CountEmpty, NeverAfterEmpty DEF Down
  <2>2. UpKept(x)
    BY <1>2, UpUnchanged
  <2>3. RunInv(x)'
    BY <1>1, <1>2, RunKept DEF SessionInv
  <2>4. OpenInv(x)'
    BY <1>1, <1>2, <2>1, <2>2 DEF SessionInv, OpenInv, UpKept
  <2>5. InputInv(x)'
    <3>1. Queued("data", x)' = Queued("data", x) /\ Queued("eof", x)' = Queued("eof", x)
      BY <1>2 DEF Queued
    <3> QED BY <1>1, <1>2, <2>1, <3>1 DEF SessionInv, InputInv
  <2>6. TableInv(x)'
    BY <1>1, <1>2 DEF SessionInv, TableInv
  <2>7. OutputInv(x)'
    BY <1>1, <1>2, <2>2, OutputKept DEF SessionInv
  <2>8. CloseInv(x)'
    BY <1>2, <2>1 DEF CloseInv, Ended
  <2> QED BY <2>3, <2>4, <2>5, <2>6, <2>7, <2>8 DEF SessionInv
<1> QED BY <1>3, <1>4, <1>5 DEF IInv

LEMMA StutterStep ==
    ASSUME IInv, UNCHANGED vars
    PROVE  IInv'
<1>1. \A x \in Session : SameFor(x) /\ DownKept(x) /\ UpKept(x)
                         /\ CloseKept(x)
  BY DownUnchanged, UpUnchanged, CloseUnchanged DEF vars, SameFor
<1>2. TypeOK' /\ ShutInv' /\ srvUp' = srvUp
  BY DEF IInv, TypeOK, ShutInv, vars
<1> QED BY <1>1, <1>2, Others DEF IInv

LEMMA InitIInv == Init => IInv
<1> SUFFICES ASSUME Init
             PROVE  IInv
  OBVIOUS
<1>1. TypeOK
  <2>1. 0 \in 0..BufLen /\ 0 \in 0..MaxIn /\ 0 <= NetLen
    BY BoundAssumption
  <2>2. srv \in [Session -> Handler]
    BY <2>1 DEF Init, Handler, Code
  <2>3. client \in [Session -> Client]
    BY <2>1 DEF Init, Client
  <2>4. proc \in [Session -> Process]
    BY <2>1 DEF Init, Process
  <2>5. toServer \in Seq(ToServer) /\ Len(toServer) <= NetLen
        /\ toAgent \in Seq(ToAgent) /\ inq \in [Session -> Seq({"data", "eof"})]
    BY <2>1 DEF Init
  <2> QED BY <2>2, <2>3, <2>4, <2>5 DEF Init, TypeOK
<1>2. ShutInv
  BY DEF Init, ShutInv
<1>3. ASSUME NEW s \in Session
      PROVE  SessionInv(s)
  <2>1. /\ \A k : Down(k, s) = 0 /\ Up(k, s) = 0
        /\ UpEnds(s) = 0 /\ UpOwn(s) = 0
        /\ NeverAfter(toAgent, Frame("data", s), Frame("eof", s))
        /\ NeverAfter(toServer, Frame("data", s), Ends(s))
    BY CountEmpty, NeverAfterEmpty DEF Init, Down, Up, UpEnds, UpOwn
  <2>2. /\ \A k : Queued(k, s) = 0
        /\ NeverAfter(inq[s], {"data"}, {"eof"})
    BY CountEmpty, NeverAfterEmpty DEF Init, Queued
  <2>3. RunInv(s)
    BY DEF Init, RunInv
  <2>4. OpenInv(s)
    BY <2>1 DEF Init, OpenInv
  <2>5. InputInv(s)
    BY <2>1, <2>2 DEF Init, InputInv
  <2>6. TableInv(s)
    BY DEF Init, TableInv
  <2>7. OutputInv(s)
    BY <2>1 DEF Init, OutputInv, InHand
  <2>8. CloseInv(s)
    BY <2>1 DEF Init, CloseInv
  <2> QED BY <2>3, <2>4, <2>5, <2>6, <2>7, <2>8 DEF SessionInv
<1> QED BY <1>1, <1>2, <1>3 DEF IInv

-----------------------------------------------------------------------------
(* The invariant, and what it gives.                                       *)

LEMMA HandlerKeeps ==
    ASSUME IInv, NEW s \in Session, HandlerStep(s)
    PROVE  IInv'
<1>1. CASE Find(s)
  BY <1>1, FindStep
<1>2. CASE Refuse(s)
  BY <1>2, RefuseHereStep, RefuseGoneStep
<1>3. CASE AddSession(s)
  BY <1>3, AddSessionStep
<1>4. CASE SendOpen(s)
  BY <1>4, SendOpenUpStep, SendOpenDownHereStep, SendOpenDownGoneStep
<1>5. CASE Ready(s)
  BY <1>5, ReadyStep
<1>6. CASE ReadyErr(s) \/ ReadyClosed(s) \/ ReadyTimeout(s)
  <2>1. PICK why \in {"unready", "closed"} : NotReady(s, why)
    BY <1>6 DEF ReadyErr, ReadyClosed, ReadyTimeout
  <2> QED BY <2>1, NotReadyHereStep, NotReadyGoneStep
<1>7. CASE Take(s)
  BY <1>7, TakeStep
<1>8. CASE PipeEnds(s)
  BY <1>8, PipeEndsStep
<1>9. CASE Finish(s)
  BY <1>9, FinishHereStep, FinishGoneStep
<1> QED BY <1>1, <1>2, <1>3, <1>4, <1>5, <1>6, <1>7, <1>8, <1>9 DEF HandlerStep

LEMMA ClientKeeps ==
    ASSUME IInv, NEW s \in Session, ClientStep(s) \/ InputEnds(s)
    PROVE  IInv'
<1>1. CASE ClientReads(s)
  BY <1>1, ClientReadsStep
<1>2. CASE Type(s)
  BY <1>2, TypeUpStep, TypeDownStep
<1>3. CASE CloseStdin(s)
  BY <1>3, CloseStdinPlainStep, CloseStdinPtyStep
<1>4. CASE HangUp(s)
  BY <1>4, HangUpStep
<1>5. CASE Leave(s)
  BY <1>5, LeaveStep
<1>6. CASE InputEnds(s)
  BY <1>6, InputEndsPlainStep, InputEndsPtyStep
<1> QED BY <1>1, <1>2, <1>3, <1>4, <1>5, <1>6 DEF ClientStep

LEMMA ReadLoopKeeps ==
    ASSUME IInv, ReadLoop \/ \E s \in Session : Stall(s)
    PROVE  IInv'
<1>1. CASE ReadUnknown
  <2>1. Head(toServer).s \in Session
    BY <1>1 DEF ReadUnknown, IInv, TypeOK, ToServer
  <2> QED BY <1>1, <2>1, ReadUnknownStep
<1>2. ASSUME NEW s \in Session,
             ReadOK(s) \/ ReadData(s) \/ ReadErr(s) \/ ReadClose(s) \/ Stall(s)
      PROVE  IInv'
  BY <1>2, ReadOKStep, ReadDataStep, ReadErrStep, ReadCloseStep, StallStep
<1> QED BY <1>1, <1>2 DEF ReadLoop

LEMMA AgentKeeps ==
    ASSUME IInv, NEW s \in Session,
           \/ Open(s) \/ Input(s) \/ Close(s) \/ CloseStep(s)
           \/ Output(s) \/ Exit(s) \/ Reap(s) \/ PumpInput(s)
    PROVE  IInv'
<1>1. CASE Open(s)
  BY <1>1, OpenOKStep, OpenErrStep
<1>2. CASE Input(s)
  BY <1>2, InputIgnoredStep, InputFullStep, InputQueuedStep
<1>3. CASE Close(s)
  BY <1>3, CloseKnownStep, CloseUnknownStep
<1>4. CASE Output(s)
  BY <1>4, OutputStep
<1>5. CASE Exit(s)
  BY <1>5, ExitStep
<1>6. CASE Reap(s)
  BY <1>6, ReapExitedStep, ReapKilledStep DEF Reap
<1>7. CASE PumpInput(s)
  <2>1. Head(inq[s]) \in {"data", "eof"}
    BY <1>7, AgentFacts DEF PumpInput
  <2> QED BY <1>7, <2>1, PumpDataStep, PumpEofStep
<1>8. CASE CloseStep(s)
  BY <1>8, CutInputStep, KillStep, TellFullStep, CloseAllStep DEF CloseStep
<1> QED BY <1>1, <1>2, <1>3, <1>4, <1>5, <1>6, <1>7, <1>8

LEMMA NextIInv == IInv /\ [Next]_vars => IInv'
<1> SUFFICES ASSUME IInv, [Next]_vars
             PROVE  IInv'
  OBVIOUS
<1>1. CASE UNCHANGED vars
  BY <1>1, StutterStep
<1>2. ASSUME NEW s \in Session, HandlerStep(s)
      PROVE  IInv'
  BY <1>2, HandlerKeeps
<1>3. ASSUME NEW s \in Session, ClientStep(s) \/ InputEnds(s)
      PROVE  IInv'
  BY <1>3, ClientKeeps
<1>4. CASE ReadLoop \/ \E s \in Session : Stall(s)
  BY <1>4, ReadLoopKeeps
<1>5. ASSUME NEW s \in Session,
             Output(s) \/ Exit(s) \/ Reap(s) \/ PumpInput(s)
      PROVE  IInv'
  BY <1>5, AgentKeeps
<1>6. CASE AgentLoop
  BY <1>6, AgentKeeps DEF AgentLoop
<1>7. CASE Shutdown
  BY <1>7, ShutdownStep
<1>8. CASE Disconnect \/ AgentWriteTimeout
  <2>1. LoopEnds /\ lost' \in BOOLEAN
    BY <1>8 DEF Disconnect, AgentWriteTimeout, IInv, TypeOK
  <2> QED BY <2>1, LoopEndsStep
<1> QED BY <1>1, <1>2, <1>3, <1>4, <1>5, <1>6, <1>7, <1>8 DEF Next

\* The bookkeeping holds in every state: nothing typed and nothing written is
\* lost or counted twice between the two ends, whatever fails and when.
THEOREM SessionInvariant == Spec => []IInv
<1>1. Init => IInv
  BY InitIInv
<1>2. IInv /\ [Next]_vars => IInv'
  BY NextIInv
<1> QED BY <1>1, <1>2, PTL DEF Spec

\* A client that is given the process's own code has been given all the
\* output, and the process ended by itself (hub.go: addSession, pipe).
THEOREM OwnCodeIsComplete == Spec => []OwnCodeMeansComplete
<1>1. IInv => OwnCodeMeansComplete
  BY DEF IInv, SessionInv, OutputInv, OwnCodeMeansComplete
<1> QED BY <1>1, SessionInvariant, PTL

\* A process that reads the end of its input has been fed all of it, unless
\* sessionEntry.Close has cut it off: then the server has ended the session,
\* the connection is gone, or the input queue was full (client.go: pushInput,
\* pumpInput, execProc.Close).
THEOREM EofIsComplete == Spec => []EofMeansComplete
<1>1. IInv => EofMeansComplete
  <2> SUFFICES ASSUME IInv, NEW s \in Session, proc[s].eof \/ Cut(s)
               PROVE  \/ proc[s].fed = client[s].typed
                      \/ ~proc[s].eof /\ Ended(s)
    BY DEF EofMeansComplete, Ended
  <2>1. CASE proc[s].eof
    BY <2>1, QuietFacts DEF InputInv
  <2>2. CASE Cut(s) /\ ~proc[s].eof
    BY <2>2, QuietFacts DEF Cut, CloseInv
  <2> QED BY <2>1, <2>2
<1> QED BY <1>1, SessionInvariant, PTL

\* A process that runs is in the agent's table, where a close frame or the end
\* of the connection finds it, or is being closed.
THEOREM RunningCanBeStopped == Spec => []RunningIsReachable
<1>1. IInv => RunningIsReachable
  BY DEF IInv, SessionInv, RunInv, RunningIsReachable
<1> QED BY <1>1, SessionInvariant, PTL
=============================================================================
