----------------------------- MODULE HostProofs -----------------------------
(***************************************************************************)
(* Theorems about what runs beside the sessions of an agent: its mirror    *)
(* terminals by name (MirrorRegistry), the output of one of them           *)
(* (MirrorStream), the news of its versions (SelfUpdate), and the server's *)
(* feed of events (MonitorFeed).  They hold for any number of names,       *)
(* openers, mirrors, connections, releases and events, and any limits.     *)
(***************************************************************************)
EXTENDS MirrorRegistry, MirrorStream, SelfUpdate, MonitorFeed, FiniteSetTheorems, TLAPS

-----------------------------------------------------------------------------
(* MirrorRegistry.                                                         *)

Mirror == [st : {"loose", "kept", "over", "forgotten"}, name : MirrorName,
           runs : BOOLEAN, idle : BOOLEAN]
Opening == [pc : {"idle"}] \cup [pc : {"start"}, name : MirrorName]
           \cup [pc : {"register"}, name : MirrorName, i : Num] \cup [pc : {"kill"}, i : Num]
Sweeping == [rounds : Nat, doomed : SUBSET Num, target : Num \cup {0}, of : Num \cup {0}]

TypeInv ==
    /\ mirrors \in [MirrorName -> Num \cup {0}] /\ mir \in [Num -> Mirror \cup {NoMirror}]
    /\ opener \in [Opener -> Opening] /\ sweep \in Sweeping

\* What somebody holds the number of has been started.
Started(i) == mir[i] \in Mirror
HeldAreStarted ==
    /\ \A n \in MirrorName : mirrors[n] # 0 => Started(mirrors[n])
    /\ \A o \in Opener : opener[o].pc = "kill" => Started(opener[o].i)
    /\ \A i \in sweep.doomed : Started(i)
    /\ sweep.of # 0 => sweep.target # 0 /\ Started(sweep.target)

\* An opener that is about to register has a process nobody else has, under the
\* name it asked for.
OpenersFit ==
    \A o \in Opener : opener[o].pc = "register" =>
       /\ Started(opener[o].i) /\ mir[opener[o].i].st = "loose"
       /\ mir[opener[o].i].name = opener[o].name
       /\ \A q \in Opener : opener[q].pc = "register" /\ opener[q].i = opener[o].i => q = o

KeptMirror == {i \in Num : mir[i].st = "kept"}

RegInv == TypeInv /\ HeldAreStarted /\ OpenersFit /\ MirrorsInOrder

LEMMA NoMirrorIsNone == NoMirror \notin Mirror /\ NoMirror.st = "none"
  BY DEF NoMirror, Mirror

LEMMA KeptIsFinite == IsFiniteSet(KeptMirror) /\ Cardinality(KeptMirror) \in Nat
<1>1. IsFiniteSet(Num)
  BY FS_Interval, RegistryAssumption DEF Num
<1> QED BY <1>1, FS_Subset, FS_CardinalityType DEF KeptMirror

LEMMA RegInitially == RegistryInit => RegInv
<1> SUFFICES ASSUME RegistryInit PROVE RegInv
  OBVIOUS
<1>1. TypeInv
  BY DEF RegistryInit, TypeInv, Opening, Sweeping
<1>2. HeldAreStarted /\ OpenersFit
  BY DEF RegistryInit, HeldAreStarted, OpenersFit
<1>3. KeptMirror = {} /\ \A i \in Num : mir[i].st = "none"
  BY NoMirrorIsNone DEF RegistryInit, KeptMirror
<1>4. Cardinality({}) <= MaxMirrors
  BY FS_EmptySet, RegistryAssumption
<1>5. MirrorsInOrder
  BY <1>3, <1>4 DEF MirrorsInOrder, KeptMirror
<1> QED BY <1>1, <1>2, <1>5 DEF RegInv

-----------------------------------------------------------------------------
\* A step that neither starts nor registers a mirror, nor moves one on, keeps
\* the order; closing one is such a step.
LEMMA QuietKeeps ==
    ASSUME RegInv, TypeInv', HeldAreStarted',
           \A i \in Num : (Started(i) => Started(i)') /\ mir'[i].st = mir[i].st
                          /\ (Started(i) => mir'[i].name = mir[i].name),
           UNCHANGED mirrors,
           \A o \in Opener : opener'[o].pc = "register" => opener'[o] = opener[o],
           \A o \in Opener : opener[o].pc = "register" => opener'[o] = opener[o]
    PROVE  RegInv'
<1> USE DEF RegInv
<1>1. \A o \in Opener : opener[o].pc = "register" => opener[o].i \in Num
  BY DEF TypeInv, Opening
<1>2. OpenersFit'
  BY <1>1 DEF OpenersFit
<1>3. KeptMirror' = KeptMirror /\ Cardinality(KeptMirror) <= MaxMirrors
  BY DEF KeptMirror, MirrorsInOrder
<1>4. \A i \in Num : mir[i].st # "none" => Started(i)
  BY NoMirrorIsNone DEF TypeInv, Started
<1>5. \A i \in Num : mir'[i].st = "kept" => mirrors'[mir'[i].name] = i
  BY <1>4 DEF MirrorsInOrder
<1>6. \A i \in Num : mir'[i].st = "loose" => \E o \in Opener : opener'[o].pc = "register" /\ opener'[o].i = i
  BY DEF MirrorsInOrder
<1>7. MirrorsInOrder'
  BY <1>3, <1>5, <1>6 DEF MirrorsInOrder, KeptMirror
<1> QED BY <1>2, <1>7

LEMMA ClosedIsQuiet ==
    ASSUME RegInv, NEW j \in Num, Started(j), mir' = Closed(j)
    PROVE  /\ mir' \in [Num -> Mirror \cup {NoMirror}]
           /\ \A i \in Num : (Started(i) => Started(i)') /\ mir'[i].st = mir[i].st
                             /\ (Started(i) => mir'[i].name = mir[i].name)
<1>1. mir' = [mir EXCEPT ![j] = [mir[j] EXCEPT !.runs = FALSE, !.idle = FALSE]]
  BY DEF Closed, RegInv, TypeInv
<1>2. [mir[j] EXCEPT !.runs = FALSE, !.idle = FALSE] \in Mirror
  BY DEF Started, Mirror
<1>3. [mir[j] EXCEPT !.runs = FALSE, !.idle = FALSE].st = mir[j].st
      /\ [mir[j] EXCEPT !.runs = FALSE, !.idle = FALSE].name = mir[j].name
  BY DEF Started, Mirror
<1> QED BY <1>1, <1>2, <1>3 DEF RegInv, TypeInv, Started

LEMMA LookKeeps ==
    ASSUME RegInv, NEW o \in Opener, NEW n \in MirrorName, Look(o, n) PROVE RegInv'
<1>1. opener' \in [Opener -> Opening] /\ UNCHANGED <<mirrors, mir, sweep>>
  BY DEF Look, RegInv, TypeInv, Opening
<1>2. \A q \in Opener : opener'[q] = opener[q]
         \/ (opener[q].pc = "idle" /\ opener'[q].pc = "start")
  BY DEF Look, RegInv, TypeInv
<1>3. TypeInv' /\ HeldAreStarted'
  BY <1>1, <1>2 DEF RegInv, TypeInv, HeldAreStarted, Started
<1> QED BY <1>1, <1>2, <1>3, QuietKeeps DEF Started

LEMMA KillKeeps ==
    ASSUME RegInv, NEW o \in Opener, NEW n \in MirrorName, Kill(o, n) PROVE RegInv'
<1> USE DEF RegInv
<1>1. CASE opener[o].pc = "idle"
  <2>1. /\ opener' = [opener EXCEPT ![o] = [pc |-> "kill", i |-> mirrors[n]]]
        /\ mirrors[n] # 0 /\ UNCHANGED <<mirrors, mir, sweep>>
    BY <1>1 DEF Kill
  <2>2. mirrors[n] \in Num /\ Started(mirrors[n])
    BY <2>1 DEF TypeInv, HeldAreStarted
  <2>3. opener' \in [Opener -> Opening]
    BY <2>1, <2>2 DEF TypeInv, Opening
  <2>4. \A q \in Opener : IF q = o THEN opener'[q] = [pc |-> "kill", i |-> mirrors[n]]
                          ELSE opener'[q] = opener[q]
    BY <2>1 DEF TypeInv
  <2>5. TypeInv' /\ HeldAreStarted'
    BY <2>1, <2>2, <2>3, <2>4 DEF TypeInv, HeldAreStarted, Started
  <2> QED BY <1>1, <2>1, <2>4, <2>5, QuietKeeps DEF Started
<1>2. CASE opener[o].pc = "kill"
  <2>1. opener[o].i \in Num /\ Started(opener[o].i)
    BY <1>2 DEF TypeInv, Opening, HeldAreStarted
  <2>2. mir' = Closed(opener[o].i) /\ opener' = [opener EXCEPT ![o] = [pc |-> "idle"]]
        /\ UNCHANGED <<mirrors, sweep>>
    BY <1>2 DEF Kill, Finished
  <2>3. /\ mir' \in [Num -> Mirror \cup {NoMirror}]
        /\ \A i \in Num : (Started(i) => Started(i)') /\ mir'[i].st = mir[i].st
                          /\ (Started(i) => mir'[i].name = mir[i].name)
    BY <2>1, <2>2, ClosedIsQuiet
  <2>4. \A q \in Opener : IF q = o THEN opener'[q] = [pc |-> "idle"] ELSE opener'[q] = opener[q]
    BY <2>2 DEF TypeInv
  <2>5. opener' \in [Opener -> Opening]
    BY <2>2 DEF TypeInv, Opening
  <2>6. TypeInv'
    BY <2>2, <2>3, <2>5 DEF TypeInv
  <2>7. \A q \in Opener : opener[q].pc = "kill" => opener[q].i \in Num
    BY DEF TypeInv, Opening
  <2>8. HeldAreStarted'
    BY <2>2, <2>3, <2>4, <2>7 DEF TypeInv, HeldAreStarted, Sweeping
  <2> QED BY <1>2, <2>2, <2>3, <2>4, <2>6, <2>8, QuietKeeps
<1> QED BY <1>1, <1>2 DEF Kill

LEMMA StartKeeps == ASSUME RegInv, NEW o \in Opener, startPty(o) PROVE RegInv'
<1> USE DEF RegInv
<1>1. CASE Finished(o) /\ UNCHANGED mir
  <2>1. opener' \in [Opener -> Opening] /\ UNCHANGED <<mirrors, mir, sweep>>
    BY <1>1 DEF startPty, Finished, TypeInv, Opening
  <2>2. \A q \in Opener : opener'[q] = opener[q] \/ (q = o /\ opener'[q].pc = "idle")
    BY <1>1 DEF Finished, TypeInv
  <2>3. opener[o].pc = "start"
    BY DEF startPty
  <2>4. TypeInv' /\ HeldAreStarted'
    BY <2>1, <2>2 DEF TypeInv, HeldAreStarted, Started
  <2> QED BY <2>1, <2>2, <2>3, <2>4, QuietKeeps DEF Started
<1>2. ASSUME NEW i \in Num, mir[i] = NoMirror,
             mir' = [mir EXCEPT ![i] = [st |-> "loose", name |-> opener[o].name, runs |-> TRUE,
                                        idle |-> FALSE]],
             opener' = [opener EXCEPT ![o] = [pc |-> "register", name |-> opener[o].name, i |-> i]]
      PROVE  RegInv'
  <2>1. opener[o].name \in MirrorName /\ opener[o].pc = "start" /\ UNCHANGED <<mirrors, sweep>>
    BY DEF startPty, TypeInv, Opening
  <2>2. mir'[i] = [st |-> "loose", name |-> opener[o].name, runs |-> TRUE, idle |-> FALSE]
    BY <1>2 DEF TypeInv
  <2>3. mir'[i] \in Mirror /\ mir'[i].st = "loose" /\ mir'[i].name = opener[o].name
    BY <2>1, <2>2 DEF Mirror
  <2>4. \A j \in Num : j # i => mir'[j] = mir[j]
    BY <1>2 DEF TypeInv
  <2>5. opener'[o] = [pc |-> "register", name |-> opener[o].name, i |-> i]
        /\ \A q \in Opener : q # o => opener'[q] = opener[q]
    BY <1>2 DEF TypeInv
  <2>6. mir' \in [Num -> Mirror \cup {NoMirror}]
    BY <1>2, <2>1 DEF TypeInv, Mirror
  <2>7. opener' \in [Opener -> Opening]
    BY <1>2, <2>1 DEF TypeInv, Opening
  <2>8. TypeInv'
    BY <2>1, <2>6, <2>7 DEF TypeInv
  <2>9. \A j \in Num : Started(j) => Started(j)' /\ mir'[j] = mir[j]
    BY <1>2, <2>4, NoMirrorIsNone DEF Started
  <2>10. HeldAreStarted'
    <3>1. \A q \in Opener : opener[q].pc = "kill" => opener[q].i \in Num
      BY DEF TypeInv, Opening
    <3>2. \A n \in MirrorName : mirrors[n] # 0 => mirrors[n] \in Num
      BY DEF TypeInv
    <3>3. sweep.doomed \subseteq Num /\ (sweep.target # 0 => sweep.target \in Num)
      BY DEF TypeInv, Sweeping
    <3> QED BY <2>1, <2>5, <2>9, <3>1, <3>2, <3>3 DEF HeldAreStarted
  <2>11. \A q \in Opener : opener[q].pc = "register" => opener[q].i \in Num /\ opener[q].i # i
    BY <1>2, NoMirrorIsNone DEF OpenersFit, Started, TypeInv, Opening
  <2>12. OpenersFit'
    BY <2>3, <2>5, <2>9, <2>11 DEF OpenersFit, Started
  <2>13. KeptMirror' = KeptMirror
    BY <1>2, <2>3, <2>4, NoMirrorIsNone DEF KeptMirror
  <2>14. \A j \in Num : mir'[j].st = "kept" => mirrors'[mir'[j].name] = j
    BY <2>1, <2>3, <2>4 DEF MirrorsInOrder
  <2>15. ASSUME NEW j \in Num, mir'[j].st = "loose"
         PROVE  \E q \in Opener : opener'[q].pc = "register" /\ opener'[q].i = j
    <3>1. CASE j = i
      BY <2>5, <3>1
    <3>2. CASE j # i
      BY <2>1, <2>4, <2>5, <2>15, <3>2 DEF MirrorsInOrder
    <3> QED BY <3>1, <3>2
  <2>16. MirrorsInOrder'
    BY <2>13, <2>14, <2>15 DEF MirrorsInOrder, KeptMirror
  <2> QED BY <2>8, <2>10, <2>12, <2>16
<1> QED BY <1>1, <1>2 DEF startPty

-----------------------------------------------------------------------------
\* Mirrors that are kept have names of their own, all taken.
LEMMA FewerKeptThanTaken ==
    ASSUME RegInv
    PROVE  Cardinality(KeptMirror) <= Cardinality({n \in MirrorName : Taken(n)})
<1> DEFINE T == {n \in MirrorName : Taken(n)}
           f == [i \in KeptMirror |-> mir[i].name]
<1>1. \A i \in KeptMirror : /\ mir[i].name \in MirrorName /\ mirrors[mir[i].name] = i
                      /\ i # 0 /\ ~ Dead(i)
  BY NoMirrorIsNone DEF RegInv, TypeInv, Mirror, KeptMirror, MirrorsInOrder, Dead, Num
<1>2. \A i \in KeptMirror : mir[i].name \in T
  BY <1>1 DEF Taken
<1>3. f \in [KeptMirror -> T] /\ \A i, j \in KeptMirror : f[i] = f[j] => i = j
  BY <1>1, <1>2
<1>4. f \in Injection(KeptMirror, T)
  BY <1>3 DEF Injection, IsInjective
<1>5. IsFiniteSet(T)
  BY FS_Subset, RegistryAssumption
<1> QED BY <1>4, <1>5, FS_Injection

LEMMA RegisterKeeps == ASSUME RegInv, NEW o \in Opener, Register(o) PROVE RegInv'
<1> USE DEF RegInv
<1> DEFINE n == opener[o].name
           i == opener[o].i
<1>1. /\ n \in MirrorName /\ i \in Num /\ Started(i)
      /\ mir[i].st = "loose" /\ mir[i].name = n
  BY DEF Register, TypeInv, Opening, OpenersFit
<1>2. opener' = [opener EXCEPT ![o] = [pc |-> "idle"]] /\ UNCHANGED sweep
  BY DEF Register, Finished
<1>3. opener' \in [Opener -> Opening]
      /\ \A q \in Opener : IF q = o THEN opener'[q].pc = "idle" ELSE opener'[q] = opener[q]
  BY <1>2 DEF TypeInv, Opening
<1>4. \A q \in Opener : q # o /\ opener[q].pc = "register" => opener[q].i \in Num /\ opener[q].i # i
  BY DEF Register, TypeInv, Opening, OpenersFit
<1>5. \A q \in Opener : opener[q].pc = "kill" => opener[q].i \in Num
  BY DEF TypeInv, Opening
<1>6. sweep.doomed \subseteq Num /\ (sweep.target # 0 => sweep.target \in Num)
  BY DEF TypeInv, Sweeping
<1> HIDE DEF n, i
<1>7. CASE Taken(n) \/ full
  <2>1. mir' = [Closed(i) EXCEPT ![i].st = "forgotten"] /\ UNCHANGED mirrors
    BY <1>7 DEF Register, n, i
  <2>2. mir' = [mir EXCEPT ![i] = [mir[i] EXCEPT !.runs = FALSE, !.idle = FALSE, !.st = "forgotten"]]
    BY <2>1, <1>1 DEF Closed, TypeInv
  <2>3. [mir[i] EXCEPT !.runs = FALSE, !.idle = FALSE, !.st = "forgotten"] \in Mirror
    BY <1>1 DEF Started, Mirror
  <2>4. /\ mir' \in [Num -> Mirror \cup {NoMirror}] /\ mir'[i] \in Mirror
        /\ \A j \in Num : j # i => mir'[j] = mir[j]
    BY <1>1, <2>2, <2>3 DEF TypeInv
  <2>5. mir'[i].st = "forgotten"
    BY <1>1, <2>2 DEF TypeInv, Started, Mirror
  <2>6. TypeInv'
    BY <1>2, <1>3, <2>1, <2>4 DEF TypeInv
  <2>7. \A j \in Num : Started(j) => Started(j)'
    BY <2>4 DEF Started
  <2>8. HeldAreStarted'
    BY <1>2, <1>3, <1>5, <1>6, <2>1, <2>7 DEF HeldAreStarted, TypeInv
  <2>9. OpenersFit'
    BY <1>3, <1>4, <2>4 DEF OpenersFit, Started
  <2>10. KeptMirror' = KeptMirror
    BY <1>1, <2>4, <2>5 DEF KeptMirror
  <2>11. \A j \in Num : mir'[j].st = "kept" => mirrors'[mir'[j].name] = j
    BY <2>1, <2>4, <2>5 DEF MirrorsInOrder
  <2>12. \A j \in Num : mir'[j].st = "loose"
            => \E q \in Opener : opener'[q].pc = "register" /\ opener'[q].i = j
    <3>1. SUFFICES ASSUME NEW j \in Num, mir'[j].st = "loose"
                   PROVE  \E q \in Opener : opener'[q].pc = "register" /\ opener'[q].i = j
      OBVIOUS
    <3>2. j # i /\ mir[j].st = "loose"
      BY <2>4, <2>5, <3>1
    <3>3. PICK q \in Opener : opener[q].pc = "register" /\ opener[q].i = j
      BY <3>2 DEF MirrorsInOrder
    <3>4. q # o
      BY <3>2, <3>3 DEF i
    <3> QED BY <1>3, <3>3, <3>4
  <2>13. MirrorsInOrder'
    BY <2>10, <2>11, <2>12 DEF MirrorsInOrder, KeptMirror
  <2> QED BY <2>6, <2>8, <2>9, <2>13
<1>8. CASE ~ Taken(n) /\ ~ full
  <2>1. mir' = [mir EXCEPT ![i].st = "kept"] /\ mirrors' = [mirrors EXCEPT ![n] = i]
    BY <1>8 DEF Register, n, i
  <2>2. [mir[i] EXCEPT !.st = "kept"] \in Mirror
    BY <1>1 DEF Started, Mirror
  <2>3. /\ mir' \in [Num -> Mirror \cup {NoMirror}] /\ mir'[i] \in Mirror
        /\ \A j \in Num : j # i => mir'[j] = mir[j]
    BY <1>1, <2>1, <2>2 DEF TypeInv
  <2>4. mir'[i].st = "kept" /\ mir'[i].name = n
    BY <1>1, <2>1 DEF TypeInv, Started, Mirror
  <2>5. /\ mirrors' \in [MirrorName -> Num \cup {0}] /\ mirrors'[n] = i
        /\ \A k \in MirrorName : k # n => mirrors'[k] = mirrors[k]
    BY <1>1, <2>1 DEF TypeInv
  <2>6. TypeInv'
    BY <1>2, <1>3, <2>3, <2>5 DEF TypeInv
  <2>7. \A j \in Num : Started(j) => Started(j)'
    BY <2>3 DEF Started
  <2>8. \A j \in Num : j = i => Started(j)'
    BY <2>3 DEF Started
  <2>9. HeldAreStarted'
    BY <1>1, <1>2, <1>3, <1>5, <1>6, <2>5, <2>7, <2>8 DEF HeldAreStarted, TypeInv
  <2>10. OpenersFit'
    BY <1>3, <1>4, <2>3 DEF OpenersFit, Started
  \* Nobody kept has the name: it would be taken.
  <2>11. \A j \in Num : mir[j].st = "kept" => mir[j].name \in MirrorName /\ mir[j].name # n
    BY <1>8, NoMirrorIsNone DEF MirrorsInOrder, Taken, Dead, TypeInv, Mirror, Num
  <2>12. \A j \in Num : mir'[j].st = "kept" => mirrors'[mir'[j].name] = j
    BY <2>3, <2>4, <2>5, <2>11 DEF MirrorsInOrder
  <2>13. \A j \in Num : mir'[j].st = "loose"
            => \E q \in Opener : opener'[q].pc = "register" /\ opener'[q].i = j
    <3>1. SUFFICES ASSUME NEW j \in Num, mir'[j].st = "loose"
                   PROVE  \E q \in Opener : opener'[q].pc = "register" /\ opener'[q].i = j
      OBVIOUS
    <3>2. j # i /\ mir[j].st = "loose"
      BY <2>3, <2>4, <3>1
    <3>3. PICK q \in Opener : opener[q].pc = "register" /\ opener[q].i = j
      BY <3>2 DEF MirrorsInOrder
    <3>4. q # o
      BY <3>2, <3>3 DEF i
    <3> QED BY <1>3, <3>3, <3>4
  <2>14. KeptMirror' = KeptMirror \cup {i} /\ i \notin KeptMirror
    BY <1>1, <2>3, <2>4 DEF KeptMirror
  <2>15. Cardinality(KeptMirror') <= MaxMirrors
    <3> DEFINE T == {k \in MirrorName : Taken(k)}
    <3>1. Cardinality(KeptMirror') = Cardinality(KeptMirror) + 1
      BY <2>14, KeptIsFinite, FS_AddElement
    <3>2. Cardinality(KeptMirror) <= Cardinality(T)
      BY FewerKeptThanTaken
    <3>3. ~ (Cardinality(T) >= MaxMirrors)
      BY <1>8 DEF full
    <3>4. T \in SUBSET MirrorName
      OBVIOUS
    <3> HIDE DEF T
    <3>5. Cardinality(T) \in Nat
      BY <3>4, FS_Subset, FS_CardinalityType, RegistryAssumption
    <3>6. MaxMirrors \in Nat
      BY RegistryAssumption
    <3> QED BY <3>1, <3>2, <3>3, <3>5, <3>6, KeptIsFinite
  <2>16. MirrorsInOrder'
    BY <2>12, <2>13, <2>15 DEF MirrorsInOrder, KeptMirror
  <2> QED BY <2>6, <2>9, <2>10, <2>16
<1> QED BY <1>7, <1>8


LEMMA LifeKeeps ==
    ASSUME RegInv, NEW i \in Num,
           ProcessEnds(i) \/ \E idle \in BOOLEAN : Rests(i, idle)
    PROVE  RegInv'
<1> USE DEF RegInv
<1>1. UNCHANGED <<mirrors, opener, sweep>> /\ Started(i)
  BY NoMirrorIsNone DEF ProcessEnds, Rests, TypeInv, Started
<1>2. /\ mir' \in [Num -> Mirror \cup {NoMirror}]
      /\ \A j \in Num : (Started(j) => Started(j)') /\ mir'[j].st = mir[j].st
                        /\ (Started(j) => mir'[j].name = mir[j].name)
  <2>1. CASE ProcessEnds(i)
    BY <1>1, <2>1, ClosedIsQuiet DEF ProcessEnds
  <2>2. ASSUME NEW idle \in BOOLEAN, Rests(i, idle)
        PROVE  /\ mir' \in [Num -> Mirror \cup {NoMirror}]
               /\ \A j \in Num : (Started(j) => Started(j)') /\ mir'[j].st = mir[j].st
                                 /\ (Started(j) => mir'[j].name = mir[j].name)
    <3>1. mir' = [mir EXCEPT ![i] = [mir[i] EXCEPT !.idle = idle]]
      BY <2>2 DEF Rests, TypeInv
    <3>2. /\ [mir[i] EXCEPT !.idle = idle] \in Mirror
          /\ [mir[i] EXCEPT !.idle = idle].st = mir[i].st
          /\ [mir[i] EXCEPT !.idle = idle].name = mir[i].name
      BY <1>1 DEF Started, Mirror
    <3> QED BY <3>1, <3>2 DEF TypeInv, Started
  <2> QED BY <2>1, <2>2
<1>3. TypeInv'
  BY <1>1, <1>2 DEF TypeInv
<1>4. HeldAreStarted'
  BY <1>1, <1>2 DEF HeldAreStarted, TypeInv, Opening, Sweeping
<1> QED BY <1>1, <1>2, <1>3, <1>4, QuietKeeps

LEMMA SweepKeeps == ASSUME RegInv, sweepIdle \/ SweepOne PROVE RegInv'
<1> USE DEF RegInv
<1>1. CASE UNCHANGED <<mirrors, mir, opener>> /\ sweep' \in Sweeping
           /\ (\A i \in sweep'.doomed : Started(i))
           /\ (sweep'.of # 0 => sweep'.target # 0 /\ Started(sweep'.target))
  <2>1. TypeInv' /\ HeldAreStarted'
    BY <1>1 DEF TypeInv, HeldAreStarted, Started
  <2> QED BY <1>1, <2>1, QuietKeeps DEF Started
<1>2. CASE sweepIdle
  <2>1. Doomed \subseteq Num /\ sweep.rounds + 1 \in Nat /\ \A i \in Doomed : Started(i)
    BY DEF Doomed, TypeInv, Sweeping, HeldAreStarted, Num
  <2>2. sweep' = [sweep EXCEPT !.rounds = sweep.rounds + 1, !.doomed = Doomed] /\ sweep.of = 0
    BY <1>2 DEF sweepIdle
  <2>3. sweep' \in Sweeping /\ sweep'.of = 0 /\ sweep'.doomed = Doomed
    BY <2>1, <2>2 DEF TypeInv, Sweeping
  <2> QED BY <1>1, <1>2, <2>1, <2>3 DEF sweepIdle
<1>3. ASSUME sweep.of = 0, NEW i \in sweep.doomed, UNCHANGED <<mirrors, mir, opener, slain>>,
             sweep' = [sweep EXCEPT !.doomed = @ \ {i},
                                    !.of = IF mirrors[mir[i].name] = 0 THEN 0 ELSE i,
                                    !.target = mirrors[mir[i].name]]
      PROVE  RegInv'
  <2>1. i \in Num /\ mir[i].name \in MirrorName
    BY <1>3 DEF HeldAreStarted, Started, TypeInv, Sweeping, Mirror
  <2>2. mirrors[mir[i].name] \in Num \cup {0}
    BY <2>1 DEF TypeInv
  <2>3. /\ sweep'.of = IF mirrors[mir[i].name] = 0 THEN 0 ELSE i
        /\ sweep'.target = mirrors[mir[i].name] /\ sweep'.doomed = sweep.doomed \ {i}
    BY <1>3 DEF TypeInv, Sweeping
  <2>4. sweep' \in Sweeping
    BY <1>3, <2>1, <2>2 DEF TypeInv, Sweeping
  <2>5. sweep'.of # 0 => sweep'.target # 0 /\ Started(sweep'.target)
    BY <2>1, <2>3 DEF HeldAreStarted
  <2>6. \A j \in sweep'.doomed : Started(j)
    BY <2>3 DEF HeldAreStarted
  <2> QED BY <1>1, <1>3, <2>4, <2>5, <2>6
<1>4. ASSUME sweep.of # 0, mir' = Closed(sweep.target), UNCHANGED <<mirrors, opener>>,
             sweep' = [sweep EXCEPT !.of = 0, !.target = 0]
      PROVE  RegInv'
  <2>1. sweep.target \in Num /\ Started(sweep.target)
    BY <1>4 DEF HeldAreStarted, TypeInv, Sweeping
  <2>2. sweep' \in Sweeping /\ sweep'.of = 0 /\ sweep'.doomed = sweep.doomed
        /\ sweep.doomed \subseteq Num
    BY <1>4 DEF TypeInv, Sweeping
  <2>3. /\ mir' \in [Num -> Mirror \cup {NoMirror}]
        /\ \A j \in Num : (Started(j) => Started(j)') /\ mir'[j].st = mir[j].st
                          /\ (Started(j) => mir'[j].name = mir[j].name)
    BY <1>4, <2>1, ClosedIsQuiet
  <2>4. TypeInv'
    BY <1>4, <2>2, <2>3 DEF TypeInv
  <2>5. HeldAreStarted'
    BY <1>4, <2>2, <2>3 DEF HeldAreStarted, TypeInv, Opening
  <2> QED BY <1>4, <2>3, <2>4, <2>5, QuietKeeps
<1> QED BY <1>2, <1>3, <1>4 DEF SweepOne


\* First dead, then off the list: the mirror is not kept any more when its name
\* goes, and the name goes only if it is still its own.
LEMMA PumpKeeps == ASSUME RegInv, NEW i \in Num, PumpExits(i) \/ remove(i) PROVE RegInv'
<1> USE DEF RegInv
<1>1. UNCHANGED <<opener, sweep>> /\ Started(i) /\ mir[i].st \in {"kept", "over"}
      /\ mir[i].name \in MirrorName
  BY NoMirrorIsNone DEF PumpExits, remove, Dead, TypeInv, Started, Mirror
<1>2. PICK st \in {"over", "forgotten"} : mir' = [mir EXCEPT ![i] = [mir[i] EXCEPT !.st = st]]
  BY DEF PumpExits, remove, TypeInv
<1>3. [mir[i] EXCEPT !.st = st] \in Mirror /\ [mir[i] EXCEPT !.st = st].st = st
  BY <1>1 DEF Started, Mirror
<1>4. /\ mir' \in [Num -> Mirror \cup {NoMirror}] /\ mir'[i] \in Mirror /\ mir'[i].st = st
      /\ \A j \in Num : j # i => mir'[j] = mir[j]
  BY <1>2, <1>3 DEF TypeInv
<1>5. /\ mirrors' \in [MirrorName -> Num \cup {0}]
      /\ \A n \in MirrorName : mirrors'[n] = mirrors[n] \/ (mirrors[n] = i /\ mirrors'[n] = 0)
  BY <1>1 DEF PumpExits, remove, OffList, TypeInv
<1>6. TypeInv'
  BY <1>1, <1>4, <1>5 DEF TypeInv
<1>7. \A j \in Num : Started(j) => Started(j)'
  BY <1>4 DEF Started
<1>8. HeldAreStarted'
  BY <1>1, <1>5, <1>7 DEF HeldAreStarted, TypeInv, Opening, Sweeping
<1>9. \A o \in Opener : opener[o].pc = "register" => opener[o].i \in Num /\ opener[o].i # i
  BY <1>1 DEF OpenersFit, TypeInv, Opening
<1>10. OpenersFit'
  BY <1>1, <1>4, <1>9 DEF OpenersFit, Started
<1>11. \A j \in Num : mir[j].st = "kept" => mir[j].name \in MirrorName
  BY NoMirrorIsNone DEF TypeInv, Mirror
<1>12. \A j \in Num : mir'[j].st = "kept" => mirrors'[mir'[j].name] = j
  BY <1>4, <1>5, <1>11 DEF MirrorsInOrder
<1>13. \A j \in Num : mir'[j].st = "loose" => \E o \in Opener : opener'[o].pc = "register" /\ opener'[o].i = j
  BY <1>1, <1>4 DEF MirrorsInOrder
<1>14. KeptMirror' \subseteq KeptMirror /\ Cardinality(KeptMirror) <= MaxMirrors
  BY <1>4 DEF KeptMirror, MirrorsInOrder
<1>15. Cardinality(KeptMirror') \in Nat /\ Cardinality(KeptMirror') <= Cardinality(KeptMirror)
  BY <1>14, KeptIsFinite, FS_Subset, FS_CardinalityType
<1>16. Cardinality(KeptMirror') <= MaxMirrors
  BY <1>14, <1>15, KeptIsFinite, RegistryAssumption
<1>17. MirrorsInOrder'
  BY <1>12, <1>13, <1>16 DEF MirrorsInOrder, KeptMirror
<1> QED BY <1>6, <1>8, <1>10, <1>17

LEMMA RegStep == RegInv /\ [RegistryNext]_gvars => RegInv'
<1> SUFFICES ASSUME RegInv, [RegistryNext]_gvars PROVE RegInv'
  OBVIOUS
<1>1. CASE UNCHANGED gvars
  <2>1. TypeInv' /\ HeldAreStarted'
    BY <1>1 DEF gvars, RegInv, TypeInv, HeldAreStarted, Started
  <2> QED BY <1>1, <2>1, QuietKeeps DEF gvars, Started
<1>2. CASE RegistryNext
  BY <1>2, LookKeeps, StartKeeps, RegisterKeeps, KillKeeps, LifeKeeps, PumpKeeps, SweepKeeps
  DEF RegistryNext
<1> QED BY <1>1, <1>2

\* However many open a name at once and however soon it is used again, a kept
\* mirror is the one its name leads to, one that is not registered is its
\* opener's, and no more are kept than may be (mirror.go: open, pump, kill).
THEOREM MirrorsStayInOrder == RegistrySpec => []MirrorsInOrder
<1>1. RegInv => MirrorsInOrder
  BY DEF RegInv
<1> QED BY <1>1, RegInitially, RegStep, PTL DEF RegistrySpec

-----------------------------------------------------------------------------
(* MirrorStream.                                                           *)

StreamSpec == StreamInit /\ [][StreamNext]_zvars

AttOf == [st : {"none", "in", "left", "kicked", "ending", "told", "lost"}, q : Seq(Nat),
          got : Seq(Nat), stop : BOOLEAN, shut : BOOLEAN, done : BOOLEAN, failed : BOOLEAN,
          drain : {"no", "looked", "halted"}, size : Nat, seq : Nat]

StreamTypes ==
    /\ prog = [out |-> prog.out, ends |-> prog.ends, exited |-> prog.exited,
               size |-> prog.size, turns |-> prog.turns]
    /\ prog.out \in Nat /\ prog.ends \in BOOLEAN /\ prog.exited \in BOOLEAN /\ prog.turns \in Nat
    /\ prog.exited => prog.ends
    /\ att \in [Att -> AttOf]

Run(s) == \A n \in 1 .. Len(s) - 1 : s[n + 1] = s[n] + 1

\* All the output has been sent or waits to be.
UpTo(r, out) ==
    /\ r.q # <<>> => r.q[Len(r.q)] = out
    /\ r.q = <<>> /\ r.got # <<>> => r.got[Len(r.got)] = out

\* One connection, when there are out pieces and exit has run or not.  Whoever
\* has a closed queue and is not done may still be told, even if Drain has given
\* it up.
AttInv(r, out, exited) ==
    /\ Run(r.got) /\ Run(r.q)
    /\ r.got # <<>> /\ r.q # <<>> => r.q[1] = r.got[Len(r.got)] + 1
    /\ r.st = "none" => r = NewAtt
    /\ r.st = "in" => ~ r.stop /\ ~ r.done /\ ~ r.shut
    /\ r.st = "ending" => ~ r.stop /\ ~ r.done /\ r.shut
    /\ r.shut => exited
    /\ r.st = "in" \/ (r.shut /\ ~ r.done) => UpTo(r, out)
    /\ r.st = "told" => r.done /\ exited /\ (r.got # <<>> => r.got[Len(r.got)] = out)

StreamInv == StreamTypes /\ \A a \in Att : AttInv(att[a], prog.out, prog.exited)

LEMMA NewAttFacts ==
    /\ NewAtt \in AttOf /\ NewAtt.st = "none" /\ NewAtt.q = <<>> /\ NewAtt.got = <<>>
    /\ ~ NewAtt.stop /\ ~ NewAtt.shut /\ ~ NewAtt.done /\ ~ NewAtt.failed
BY DEF NewAtt, AttOf

\* One connection changes while the program does not.
LEMMA OneAtt ==
    ASSUME StreamInv, NEW a \in Att, NEW r \in AttOf, att' = [att EXCEPT ![a] = r],
           AttInv(r, prog.out, prog.exited), NEW size, NEW turns \in Nat,
           prog' = [out |-> prog.out, ends |-> prog.ends, exited |-> prog.exited,
                    size |-> size, turns |-> turns]
    PROVE  StreamInv'
<1>1. /\ prog'.out = prog.out /\ prog'.ends = prog.ends /\ prog'.exited = prog.exited
      /\ prog'.size = size /\ prog'.turns = turns
  OBVIOUS
<1>2. StreamTypes'
  BY <1>1 DEF StreamInv, StreamTypes
<1>3. \A b \in Att : AttInv(att'[b], prog.out, prog.exited)
  BY DEF StreamInv, StreamTypes
<1> QED BY <1>1, <1>2, <1>3 DEF StreamInv

\* Only the terminal's size is of interest to it.
LEMMA ProgSized ==
    ASSUME StreamInv, NEW size, NEW turns,
           prog' = [prog EXCEPT !.size = size, !.turns = turns]
    PROVE  prog' = [out |-> prog.out, ends |-> prog.ends, exited |-> prog.exited,
                    size |-> size, turns |-> turns]
<1>1. PICK o, e, x, s, t : prog = [out |-> o, ends |-> e, exited |-> x, size |-> s, turns |-> t]
  BY DEF StreamInv, StreamTypes
<1>2. prog' = [out |-> o, ends |-> e, exited |-> x, size |-> size, turns |-> turns]
  BY <1>1
<1> QED BY <1>1, <1>2

LEMMA ProgAsItIs ==
    ASSUME StreamInv
    PROVE  /\ prog = [out |-> prog.out, ends |-> prog.ends, exited |-> prog.exited,
                      size |-> prog.size, turns |-> prog.turns]
           /\ prog.turns \in Nat /\ prog.out \in Nat
           /\ \A size : [prog EXCEPT !.size = size] = [prog EXCEPT !.size = size, !.turns = prog.turns]
<1>1. PICK o, e, x, s, t : prog = [out |-> o, ends |-> e, exited |-> x, size |-> s, turns |-> t]
  BY DEF StreamInv, StreamTypes
<1> QED BY <1>1 DEF StreamInv, StreamTypes

LEMMA ProgShape ==
    ASSUME StreamInv
    PROVE  \E u, e, x, s, t :
             /\ u \in Nat /\ e \in BOOLEAN /\ x \in BOOLEAN /\ t \in Nat
             /\ prog = [out |-> u, ends |-> e, exited |-> x, size |-> s, turns |-> t]
<1>1. PICK u, e, x, s, t : /\ u = prog.out /\ e = prog.ends /\ x = prog.exited
                           /\ s = prog.size /\ t = prog.turns
  OBVIOUS
<1>2. u \in Nat /\ e \in BOOLEAN /\ x \in BOOLEAN /\ t \in Nat
  BY <1>1 DEF StreamInv, StreamTypes
<1>3. prog = [out |-> u, ends |-> e, exited |-> x, size |-> s, turns |-> t]
  BY <1>1 DEF StreamInv, StreamTypes
<1> QED BY <1>2, <1>3

\* A call of the terminal on behalf of one connection.
LEMMA KeepTail ==
    ASSUME StreamInv, NEW k, k = keepTail
    PROVE  /\ k \in Seq(Nat) /\ Run(k) /\ (k # <<>> => k[Len(k)] = prog.out)
<1>1. PICK o \in Nat : o = prog.out
  BY ProgAsItIs
<1>2. PICK n \in Nat, d \in Nat : /\ n = IF o < Kept THEN o ELSE Kept
                                  /\ d = IF o < Kept THEN 0 ELSE o - Kept
  BY StreamAssumption
<1>3. n + d = o
  BY <1>2, StreamAssumption
<1>4. k = [i \in 1 .. n |-> i + d]
  BY <1>1, <1>2 DEF keepTail
<1>5. k \in Seq(Nat) /\ Len(k) = n
  <2>1. k \in [1 .. n -> Nat]
    BY <1>4
  <2> QED BY <1>4, <2>1
<1>6. Run(k)
  BY <1>4, <1>5 DEF Run
<1>7. k # <<>> => n \in 1 .. n
  BY <1>4, <1>5
<1> QED BY <1>1, <1>3, <1>4, <1>5, <1>6, <1>7

LEMMA AttachStep ==
    ASSUME StreamInv, NEW a \in Att, NEW size \in Nat, attach(a, size)
    PROVE  StreamInv'
<1>1. att[a] = NewAtt
  BY DEF attach, StreamInv, AttInv
<1>2. CASE prog.exited
  <2> DEFINE r == [NewAtt EXCEPT !.st = "left"]
  <2>1. /\ r \in AttOf /\ r.st = "left" /\ r.q = <<>> /\ r.got = <<>> /\ ~ r.shut
    BY NewAttFacts DEF AttOf
  <2>2. att' = [att EXCEPT ![a] = r] /\ prog' = prog
    BY <1>1, <1>2 DEF attach, StreamInv, StreamTypes
  <2> HIDE DEF r
  <2>3. AttInv(r, prog.out, prog.exited)
    BY <2>1 DEF AttInv, Run
  <2> QED BY <2>1, <2>2, <2>3, ProgAsItIs, OneAtt
<1>3. CASE ~ prog.exited
  <2>1. PICK k : k = keepTail
    OBVIOUS
  <2>2. PICK n \in Nat : n = prog.turns + 1
    <3>1. prog.turns \in Nat
      BY ProgAsItIs
    <3> QED BY <3>1
  <2> DEFINE r == [NewAtt EXCEPT !.st = "in", !.q = k, !.size = size, !.seq = n]
  <2>3. k \in Seq(Nat) /\ Run(k) /\ (k # <<>> => k[Len(k)] = prog.out)
    BY <2>1, KeepTail
  <2>4. /\ r \in AttOf /\ r.st = "in" /\ r.q = k /\ r.got = <<>> /\ ~ r.shut /\ ~ r.stop /\ ~ r.done
    BY <2>3, NewAttFacts DEF AttOf
  <2>5. att' = [att EXCEPT ![a] = r]
    BY <1>1, <1>3, <2>1, <2>2 DEF attach, StreamInv, StreamTypes
  <2>6. PICK s : prog' = [prog EXCEPT !.size = s, !.turns = n]
    <3>1. prog' = [prog EXCEPT !.turns = n, !.size = IF size # 0 THEN size ELSE prog.size]
      BY <1>3, <2>2, ProgAsItIs DEF attach
    <3>2. PICK s : s = IF size # 0 THEN size ELSE prog.size
      OBVIOUS
    <3>3. prog' = [prog EXCEPT !.size = s, !.turns = n]
      BY <3>1, <3>2
    <3> QED BY <3>3
  <2> HIDE DEF r
  <2>7. AttInv(r, prog.out, prog.exited)
    BY <2>3, <2>4 DEF AttInv, Run, UpTo
  <2>8. prog' = [out |-> prog.out, ends |-> prog.ends, exited |-> prog.exited,
                 size |-> s, turns |-> n]
    BY <2>6, ProgSized
  <2> QED BY <2>4, <2>5, <2>7, <2>8, OneAtt
<1> QED BY <1>2, <1>3

\* The rest of the steps change flags, or move the run along.
LEMMA FlagsOnly ==
    ASSUME StreamInv, NEW a \in Att, NEW o, o = att[a], NEW r \in AttOf,
           att' = [att EXCEPT ![a] = r], NEW size,
           prog' = [prog EXCEPT !.size = size], r.got = o.got, r.q = o.q \/ r.q = <<>>,
           r.shut = o.shut, r.st # "none", o.done => r.done,
           r.st = "in" => o.st = "in" /\ ~ r.stop /\ ~ r.done /\ r.q = o.q,
           r.st = "ending" => o.st = "ending" /\ ~ r.stop /\ ~ r.done /\ r.q = o.q,
           r.q = o.q \/ r.done,
           r.st = "told" => o.st = "told" \/ (r.done /\ o.shut /\ ~ o.done /\ o.q = <<>>)
    PROVE  StreamInv'
<1>1. AttInv(o, prog.out, prog.exited) /\ o \in AttOf
  BY DEF StreamInv, StreamTypes
<1>2. Run(<<>>)
  BY DEF Run
<1>3. AttInv(r, prog.out, prog.exited)
  BY <1>1, <1>2 DEF AttInv, UpTo
<1>5. prog' = [out |-> prog.out, ends |-> prog.ends, exited |-> prog.exited,
               size |-> size, turns |-> prog.turns]
  <2>1. PICK u, e, x, s, t : prog = [out |-> u, ends |-> e, exited |-> x, size |-> s, turns |-> t]
    BY DEF StreamInv, StreamTypes
  <2>2. prog' = [out |-> u, ends |-> e, exited |-> x, size |-> size, turns |-> t]
    BY <2>1
  <2> QED BY <2>1, <2>2
<1> QED BY <1>3, <1>5, ProgAsItIs, OneAtt

LEMMA AttFlags ==
    ASSUME StreamInv, NEW a \in Att
    PROVE  att[a] \in AttOf /\ (a \in In <=> att[a].st = "in") /\ att \in [Att -> AttOf]
BY DEF StreamInv, StreamTypes, In

LEMMA SendStep ==
    ASSUME StreamInv, NEW a \in Att, SendData(a)
    PROVE  StreamInv'
<1>1. PICK o : o = att[a]
  OBVIOUS
<1>2. o \in AttOf /\ AttInv(o, prog.out, prog.exited) /\ o.q # <<>> /\ o.st # "none"
      /\ o.q \in Seq(Nat) /\ o.got \in Seq(Nat)
  BY <1>1 DEF SendData, Sends, StreamInv, StreamTypes, AttOf
<1>0. PICK h : h = Head(o.q)
  OBVIOUS
<1> DEFINE g == Append(o.got, h)
           t == Tail(o.q)
           r == [o EXCEPT !.got = g, !.q = t]
<1>3. /\ Len(o.q) \in Nat /\ Len(o.q) >= 1 /\ Len(o.got) \in Nat /\ Head(o.q) = o.q[1]
      /\ o.q[1] \in Nat /\ t \in Seq(Nat) /\ Len(t) = Len(o.q) - 1
      /\ \A n \in 1 .. Len(t) : t[n] = o.q[n + 1]
  BY <1>2
<1>4. /\ g \in Seq(Nat) /\ g # <<>> /\ Len(g) = Len(o.got) + 1 /\ g[Len(o.got) + 1] = o.q[1]
      /\ \A n \in 1 .. Len(o.got) : g[n] = o.got[n]
  <2>1. h \in Nat /\ h = o.q[1]
    BY <1>0, <1>3
  <2>2. g \in Seq(Nat) /\ Len(g) = Len(o.got) + 1 /\ g[Len(o.got) + 1] = h
    BY <1>2, <2>1
  <2>3. \A n \in 1 .. Len(o.got) : g[n] = o.got[n]
    BY <1>2, <2>1
  <2>4. g # <<>>
    BY <1>3, <2>2, SMTT(40)
  <2> QED BY <2>1, <2>2, <2>3, <2>4
<1> HIDE DEF g, t
<1>5. /\ r \in AttOf /\ r.got = g /\ r.q = t /\ r.st = o.st /\ r.stop = o.stop
      /\ r.done = o.done /\ r.shut = o.shut
  BY <1>2, <1>3, <1>4 DEF AttOf
<1>6. att' = [att EXCEPT ![a] = r] /\ prog' = prog
  BY <1>1, <1>0, AttFlags DEF SendData, g, t
<1> HIDE DEF r
<1>7. Run(g)
  <2> SUFFICES ASSUME NEW n \in 1 .. Len(g) - 1 PROVE g[n + 1] = g[n] + 1
    BY DEF Run
  <2>1. n \in 1 .. Len(o.got) /\ g[n] = o.got[n] /\ o.got # <<>>
    BY <1>2, <1>3, <1>4
  <2>2. CASE n = Len(o.got)
    BY <1>2, <1>4, <2>1, <2>2 DEF AttInv
  <2>3. CASE n # Len(o.got)
    <3>1. n \in 1 .. Len(o.got) - 1 /\ n + 1 \in 1 .. Len(o.got)
      BY <1>3, <2>1, <2>3
    <3> QED BY <1>2, <1>4, <2>1, <3>1 DEF AttInv, Run
  <2> QED BY <2>2, <2>3
<1>8. Run(t)
  <2> SUFFICES ASSUME NEW n \in 1 .. Len(t) - 1 PROVE t[n + 1] = t[n] + 1
    BY DEF Run
  <2>1. n \in 1 .. Len(t) /\ n + 1 \in 1 .. Len(t) /\ n + 1 \in 1 .. Len(o.q) - 1
    BY <1>3
  <2> QED BY <1>2, <1>3, <2>1 DEF AttInv, Run
<1>9. t # <<>> => t[1] = g[Len(g)] + 1 /\ t[Len(t)] = o.q[Len(o.q)]
  <2> SUFFICES ASSUME t # <<>> PROVE t[1] = g[Len(g)] + 1 /\ t[Len(t)] = o.q[Len(o.q)]
    OBVIOUS
  <2>1. Len(t) >= 1 /\ Len(t) \in 1 .. Len(t) /\ 1 \in 1 .. Len(t) /\ 1 \in 1 .. Len(o.q) - 1
    BY <1>3
  <2>2. t[1] = o.q[2] /\ o.q[2] = o.q[1] + 1
    <3>1. t[1] = o.q[1 + 1]
      BY <1>3, <2>1
    <3>2. o.q[1 + 1] = o.q[1] + 1
      BY <1>2, <2>1 DEF AttInv, Run
    <3> QED BY <3>1, <3>2
  <2>3. g[Len(g)] = o.q[1]
    BY <1>4
  <2>4. t[Len(t)] = o.q[Len(t) + 1] /\ Len(t) + 1 = Len(o.q)
    BY <1>3, <2>1, SMTT(40)
  <2> QED BY <2>2, <2>3, <2>4
<1>10. t = <<>> => g[Len(g)] = o.q[Len(o.q)]
  <2>1. t = <<>> => Len(o.q) = 1
    BY <1>3
  <2> QED BY <1>4, <2>1
<1>11. UpTo(o, prog.out) => UpTo(r, prog.out)
  BY <1>2, <1>4, <1>5, <1>9, <1>10 DEF UpTo
<1>12. AttInv(r, prog.out, prog.exited)
  <2>1. o.st # "told"
    BY <1>1, <1>2 DEF SendData, Sends, AttInv
  <2> QED BY <1>2, <1>4, <1>5, <1>7, <1>8, <1>9, <1>11, <2>1 DEF AttInv
<1> QED BY <1>5, <1>6, <1>12, ProgAsItIs, OneAtt

LEMMA FlagSteps ==
    ASSUME StreamInv, NEW a \in Att,
           \/ detach(a) \/ Stops(a) \/ SendExit(a) \/ SendFails(a) \/ drop(a) \/ Drain(a)
    PROVE  StreamInv'
<1>1. PICK o : o = att[a]
  OBVIOUS
<1>2. o \in AttOf /\ AttInv(o, prog.out, prog.exited) /\ (a \in In <=> o.st = "in")
      /\ <<>> \in Seq(Nat) /\ att \in [Att -> AttOf]
  BY <1>1, AttFlags DEF StreamInv
<1>3. PICK size : prog' = [prog EXCEPT !.size = size]
  <2>1. prog = [prog EXCEPT !.size = prog.size]
    <3>1. PICK u, e, x, s, t : prog = [out |-> u, ends |-> e, exited |-> x, size |-> s, turns |-> t]
      BY DEF StreamInv, StreamTypes
    <3> QED BY <3>1
  <2> QED BY <2>1 DEF detach, Stops, SendExit, SendFails, drop, Drain
<1>4. CASE detach(a)
  <2> DEFINE r == [o EXCEPT !.st = "left", !.stop = TRUE]
  <2>1. /\ r \in AttOf /\ r.got = o.got /\ r.q = o.q /\ r.shut = o.shut /\ r.done = o.done
        /\ r.st = "left"
    BY <1>2 DEF AttOf
  <2>2. att' = [att EXCEPT ![a] = r]
    BY <1>1, <1>2, <1>4 DEF detach, Halted
  <2> HIDE DEF r
  <2> QED BY <1>1, <1>3, <2>1, <2>2, FlagsOnly
<1>5. CASE Stops(a)
  <2> DEFINE r == [o EXCEPT !.done = TRUE, !.q = <<>>]
  <2>1. /\ r \in AttOf /\ r.got = o.got /\ r.q = <<>> /\ r.shut = o.shut /\ r.done
        /\ r.st = o.st
    BY <1>2 DEF AttOf
  <2>2. att' = [att EXCEPT ![a] = r] /\ o.stop /\ o.st # "none"
    BY <1>1, <1>2, <1>5 DEF Stops, Sends
  <2>3. o.st # "in" /\ o.st # "ending"
    BY <1>2, <2>2 DEF AttInv
  <2> HIDE DEF r
  <2> QED BY <1>1, <1>3, <2>1, <2>2, <2>3, FlagsOnly
<1>6. CASE SendExit(a)
  <2> DEFINE r == [o EXCEPT !.st = "told", !.done = TRUE]
  <2>1. /\ r \in AttOf /\ r.got = o.got /\ r.q = o.q /\ r.shut = o.shut /\ r.done
        /\ r.st = "told"
    BY <1>2 DEF AttOf
  <2>2. att' = [att EXCEPT ![a] = r] /\ o.shut /\ ~ o.done /\ o.q = <<>>
    BY <1>1, <1>2, <1>6 DEF SendExit, Sends
  <2> HIDE DEF r
  <2> QED BY <1>1, <1>3, <2>1, <2>2, FlagsOnly
<1>7. CASE SendFails(a)
  <2> DEFINE r == [o EXCEPT !.failed = TRUE]
  <2>1. /\ r \in AttOf /\ r.got = o.got /\ r.q = o.q /\ r.shut = o.shut /\ r.done = o.done
        /\ r.st = o.st /\ r.stop = o.stop
    BY <1>2 DEF AttOf
  <2>2. att' = [att EXCEPT ![a] = r] /\ o.st # "none"
    BY <1>1, <1>2, <1>7 DEF SendFails, Sends
  <2>3. o.st \in {"in", "ending"} => ~ o.stop /\ ~ o.done
    BY <1>2 DEF AttInv
  <2> HIDE DEF r
  <2> QED BY <1>1, <1>3, <2>1, <2>2, <2>3, FlagsOnly, ZenonT(40)
<1>8. CASE drop(a)
  <2> DEFINE st == IF a \in In THEN "kicked" ELSE IF o.st = "ending" THEN "lost" ELSE o.st
             r == [o EXCEPT !.st = st, !.stop = TRUE, !.done = TRUE, !.q = <<>>]
  <2>1. o.failed /\ ~ o.done /\ o.st # "none" /\ o.st # "told"
    <3>1. o.failed /\ ~ o.done
      BY <1>1, <1>8 DEF drop
    <3> QED BY <1>2, <3>1, NewAttFacts DEF AttInv
  <2>2. st \in {"kicked", "lost", "left"} /\ st \notin {"in", "ending", "none", "told"}
    BY <1>2, <2>1 DEF AttOf
  <2>3. att' = [att EXCEPT ![a] = [o EXCEPT !.st = st, !.stop = TRUE, !.done = TRUE, !.q = <<>>]]
    BY <1>1, <1>2, <1>8 DEF drop, Halted
  <2> HIDE DEF st
  <2>4. /\ r \in AttOf /\ r.got = o.got /\ r.q = <<>> /\ r.shut = o.shut /\ r.done
        /\ r.st = st
    BY <1>2, <2>2 DEF AttOf
  <2>5. att' = [att EXCEPT ![a] = r]
    BY <2>3
  <2> HIDE DEF r
  <2> QED BY <1>1, <1>3, <2>2, <2>4, <2>5, FlagsOnly
<1>9. CASE Drain(a)
  <2>0. o.shut /\ o.st # "none" /\ o.st # "in"
    <3>1. o.shut
      BY <1>1, <1>9 DEF Drain
    <3> QED BY <1>2, <3>1, NewAttFacts DEF AttInv
  <2>1. CASE att' = [att EXCEPT ![a].drain = "looked"]
    <3> DEFINE r == [o EXCEPT !.drain = "looked"]
    <3>1. /\ r \in AttOf /\ r.got = o.got /\ r.q = o.q /\ r.shut = o.shut /\ r.done = o.done
          /\ r.st = o.st /\ r.stop = o.stop
      BY <1>2 DEF AttOf
    <3>2. att' = [att EXCEPT ![a] = r]
      BY <1>1, <1>2, <2>1
    <3>3. o.st \in {"in", "ending"} => ~ o.stop /\ ~ o.done
      BY <1>2 DEF AttInv
    <3> HIDE DEF r
    <3> QED BY <1>1, <1>3, <2>0, <3>1, <3>2, <3>3, FlagsOnly, ZenonT(40)
  <2>2. CASE att' = [Halted(a, IF att[a].st = "ending" THEN "lost" ELSE att[a].st)
                       EXCEPT ![a].drain = "halted"]
    <3> DEFINE st == IF o.st = "ending" THEN "lost" ELSE o.st
               r == [o EXCEPT !.st = st, !.stop = TRUE, !.drain = "halted"]
    <3>1. st \in {"kicked", "lost", "left", "told"} /\ (st = "told" => o.st = "told")
      BY <1>2, <2>0 DEF AttOf
    <3>2. att' = [att EXCEPT ![a] = [o EXCEPT !.st = st, !.stop = TRUE, !.drain = "halted"]]
      BY <1>1, <1>2, <2>2 DEF Halted
    <3> HIDE DEF st
    <3>3. /\ r \in AttOf /\ r.got = o.got /\ r.q = o.q /\ r.shut = o.shut /\ r.done = o.done
          /\ r.st = st
      BY <1>2, <3>1 DEF AttOf
    <3>4. att' = [att EXCEPT ![a] = r]
      BY <3>2
    <3> HIDE DEF r
    <3> QED BY <1>1, <1>3, <3>1, <3>3, <3>4, FlagsOnly, ZenonT(40)
  <2> QED BY <1>9, <2>1, <2>2 DEF Drain
<1> QED BY <1>4, <1>5, <1>6, <1>7, <1>8, <1>9

LEMMA ResizeStep ==
    ASSUME StreamInv, NEW a \in Att, NEW size \in Nat, resize(a, size)
    PROVE  StreamInv'
<1>1. PICK o : o = att[a]
  OBVIOUS
<1>2. o \in AttOf /\ AttInv(o, prog.out, prog.exited) /\ (a \in In <=> o.st = "in")
      /\ att \in [Att -> AttOf]
  BY <1>1, AttFlags DEF StreamInv
<1>3. PICK n \in Nat : n = prog.turns + 1
  <2>1. prog.turns \in Nat
    BY ProgAsItIs
  <2> QED BY <2>1
<1>4. prog' = [out |-> prog.out, ends |-> prog.ends, exited |-> prog.exited,
               size |-> size, turns |-> n]
  <2>1. PICK u, e, x, s, t : prog = [out |-> u, ends |-> e, exited |-> x, size |-> s, turns |-> t]
    BY DEF StreamInv, StreamTypes
  <2>2. prog' = [prog EXCEPT !.size = size, !.turns = n]
    BY <1>3, <2>1 DEF resize
  <2>3. prog' = [out |-> u, ends |-> e, exited |-> x, size |-> size, turns |-> n]
    BY <2>1, <2>2
  <2> QED BY <2>1, <2>3
<1>5. CASE a \in In
  <2> DEFINE r == [o EXCEPT !.size = size, !.seq = n]
  <2>1. r \in AttOf /\ r.got = o.got /\ r.q = o.q /\ r.shut = o.shut /\ r.done = o.done
        /\ r.st = o.st /\ r.stop = o.stop
    BY <1>2, <1>3 DEF AttOf
  <2>2. att' = [att EXCEPT ![a] = r]
    BY <1>1, <1>2, <1>3, <1>5 DEF resize
  <2>3. AttInv(r, prog.out, prog.exited)
    <3>1. o.st = "in"
      BY <1>2, <1>5
    <3> HIDE DEF r
    <3> QED BY <1>2, <2>1, <3>1 DEF AttInv, UpTo
  <2> HIDE DEF r
  <2> QED BY <1>4, <2>1, <2>2, <2>3, OneAtt
<1>6. CASE a \notin In
  <2>1. att' = [att EXCEPT ![a] = o]
    BY <1>1, <1>2, <1>6 DEF resize
  <2> QED BY <1>2, <1>4, <2>1, OneAtt
<1> QED BY <1>5, <1>6

LEMMA BroadcastStep ==
    ASSUME StreamInv, broadcast
    PROVE  StreamInv'
<1>1. PICK u, e, x, s, t :
        /\ u \in Nat /\ e \in BOOLEAN /\ x \in BOOLEAN /\ t \in Nat
        /\ prog = [out |-> u, ends |-> e, exited |-> x, size |-> s, turns |-> t]
  BY ProgShape
<1>2. PICK s2 : prog' = [prog EXCEPT !.out = u + 1, !.size = s2]
  <2>1. PICK s2 : s2 = IF KickedOut = {} THEN prog.size ELSE Restored(KickedOut)
    OBVIOUS
  <2>2. prog' = [prog EXCEPT !.out = u + 1, !.size = s2]
    BY <1>1, <2>1 DEF broadcast
  <2> QED BY <2>2
<1>3. prog' = [out |-> u + 1, ends |-> e, exited |-> x, size |-> s2, turns |-> t]
  BY <1>1, <1>2
<1>4. e = FALSE /\ x = FALSE /\ att \in [Att -> AttOf]
  BY <1>1 DEF broadcast, StreamInv, StreamTypes
<1>5. ASSUME NEW a \in Att PROVE att'[a] \in AttOf /\ AttInv(att'[a], u + 1, x)
  <2>1. PICK o : o = att[a]
    OBVIOUS
  <2>2. o \in AttOf /\ AttInv(o, u, x) /\ (a \in In <=> o.st = "in")
        /\ o.q \in Seq(Nat) /\ o.got \in Seq(Nat)
    BY <1>1, <1>4, <2>1 DEF StreamInv, In, AttOf
  <2>3. CASE o.st # "in"
    <3>1. att'[a] = o
      BY <2>1, <2>2, <2>3 DEF broadcast
    <3>2. AttInv(o, u + 1, x)
      BY <1>4, <2>2, <2>3 DEF AttInv
    <3> QED BY <2>2, <3>1, <3>2
  <2>4. CASE o.st = "in" /\ Full(a)
    <3> DEFINE r == [o EXCEPT !.st = "kicked", !.stop = TRUE]
    <3>1. a \in KickedOut
      BY <2>2, <2>4 DEF KickedOut
    <3>2. att'[a] = r
      BY <2>1, <2>2, <2>4, <3>1 DEF broadcast
    <3>3. r \in AttOf /\ r.got = o.got /\ r.q = o.q /\ r.shut = o.shut /\ r.st = "kicked"
      BY <2>2 DEF AttOf
    <3> HIDE DEF r
    <3>4. AttInv(r, u + 1, x)
      BY <2>2, <2>4, <3>3 DEF AttInv
    <3> QED BY <3>2, <3>3, <3>4
  <2>5. CASE o.st = "in" /\ ~ Full(a)
    <3> DEFINE k == Append(o.q, u + 1)
               r == [o EXCEPT !.q = k]
    <3>1. a \notin KickedOut
      BY <2>5 DEF KickedOut
    <3>2. att'[a] = [o EXCEPT !.q = k]
      BY <1>1, <2>1, <2>2, <2>5, <3>1 DEF broadcast
    <3>3. /\ k \in Seq(Nat) /\ Len(k) = Len(o.q) + 1 /\ k[Len(o.q) + 1] = u + 1 /\ Len(o.q) \in Nat
      BY <1>1, <2>2
    <3>4. \A n \in 1 .. Len(o.q) : k[n] = o.q[n]
      BY <2>2
    <3>5. k # <<>>
      BY <3>3
    <3> HIDE DEF k
    <3>6. r \in AttOf /\ r.got = o.got /\ r.q = k /\ r.shut = o.shut /\ r.st = "in"
          /\ r.stop = o.stop /\ r.done = o.done
      BY <2>2, <2>5, <3>3 DEF AttOf
    <3> HIDE DEF r
    <3>7. Run(o.q) /\ Run(o.got) /\ UpTo(o, u) /\ ~ o.shut /\ ~ o.stop /\ ~ o.done
      BY <2>2, <2>5 DEF AttInv
    <3>8. Run(k)
      <4> SUFFICES ASSUME NEW n \in 1 .. Len(k) - 1 PROVE k[n + 1] = k[n] + 1
        BY DEF Run
      <4>1. n \in 1 .. Len(o.q) /\ k[n] = o.q[n] /\ o.q # <<>>
        BY <2>2, <3>3, <3>4
      <4>2. CASE n = Len(o.q)
        BY <3>3, <3>7, <4>1, <4>2 DEF UpTo
      <4>3. CASE n # Len(o.q)
        <5>1. n \in 1 .. Len(o.q) - 1 /\ n + 1 \in 1 .. Len(o.q)
          BY <3>3, <4>1, <4>3
        <5> QED BY <3>4, <3>7, <4>1, <5>1 DEF Run
      <4> QED BY <4>2, <4>3
    <3>9. o.got # <<>> => k[1] = o.got[Len(o.got)] + 1
      <4>1. CASE o.q = <<>>
        BY <2>2, <3>3, <3>7, <4>1 DEF UpTo
      <4>2. CASE o.q # <<>>
        <5>1. 1 \in 1 .. Len(o.q)
          BY <2>2, <4>2
        <5> QED BY <2>2, <3>4, <4>2, <5>1 DEF AttInv
      <4> QED BY <4>1, <4>2
    <3>10. UpTo(r, u + 1)
      BY <3>3, <3>5, <3>6 DEF UpTo
    <3>11. AttInv(r, u + 1, x)
      BY <3>6, <3>7, <3>8, <3>9, <3>10 DEF AttInv
    <3> QED BY <3>2, <3>6, <3>11 DEF r
  <2> QED BY <2>3, <2>4, <2>5
<1>6. att' \in [Att -> AttOf]
  BY <1>5 DEF broadcast
<1>7. StreamTypes'
  <2>1. /\ prog'.out = u + 1 /\ prog'.ends = e /\ prog'.exited = x /\ prog'.size = s2
        /\ prog'.turns = t
    BY <1>3
  <2>2. u + 1 \in Nat /\ t \in Nat /\ e \in BOOLEAN /\ x \in BOOLEAN
    BY <1>1
  <2> QED BY <1>3, <1>4, <1>6, <2>1, <2>2 DEF StreamTypes
<1> QED BY <1>3, <1>5, <1>7 DEF StreamInv

LEMMA EndSteps ==
    ASSUME StreamInv, ProgramEnds \/ exit
    PROVE  StreamInv'
<1>1. PICK u, e, x, s, t :
        /\ u \in Nat /\ e \in BOOLEAN /\ x \in BOOLEAN /\ t \in Nat
        /\ prog = [out |-> u, ends |-> e, exited |-> x, size |-> s, turns |-> t]
  BY ProgShape
<1>2. CASE ProgramEnds
  <2>1. prog' = [out |-> u, ends |-> TRUE, exited |-> x, size |-> s, turns |-> t] /\ att' = att
    BY <1>1, <1>2 DEF ProgramEnds
  <2> QED BY <1>1, <2>1 DEF StreamInv, StreamTypes
<1>3. CASE exit
  <2>1. prog' = [out |-> u, ends |-> e, exited |-> TRUE, size |-> s, turns |-> t] /\ e = TRUE
    BY <1>1, <1>3 DEF exit
  <2>2. ASSUME NEW a \in Att PROVE att'[a] \in AttOf /\ AttInv(att'[a], u, TRUE)
    <3>1. PICK o : o = att[a]
      OBVIOUS
    <3>2. o \in AttOf /\ AttInv(o, u, x) /\ (a \in In <=> o.st = "in")
      BY <1>1, <3>1 DEF StreamInv, StreamTypes, In
    <3>3. CASE o.st # "in"
      <4>1. att'[a] = o
        BY <1>3, <3>1, <3>2, <3>3 DEF exit
      <4>2. AttInv(o, u, TRUE)
        BY <3>2 DEF AttInv
      <4> QED BY <3>2, <4>1, <4>2
    <3>4. CASE o.st = "in"
      <4> DEFINE r == [o EXCEPT !.st = "ending", !.shut = TRUE]
      <4>1. att'[a] = r
        BY <1>3, <3>1, <3>2, <3>4 DEF exit
      <4>2. r \in AttOf /\ r.got = o.got /\ r.q = o.q /\ r.shut /\ r.st = "ending"
            /\ r.stop = o.stop /\ r.done = o.done
        BY <3>2 DEF AttOf
      <4> HIDE DEF r
      <4>3. AttInv(r, u, TRUE)
        BY <3>2, <3>4, <4>2 DEF AttInv, UpTo
      <4> QED BY <4>1, <4>2, <4>3
    <3> QED BY <3>3, <3>4
  <2>3. att' \in [Att -> AttOf]
    BY <1>3, <2>2 DEF exit
  <2>4. StreamTypes'
    BY <1>1, <2>1, <2>3 DEF StreamTypes
  <2> QED BY <2>1, <2>2, <2>4 DEF StreamInv
<1> QED BY <1>2, <1>3

\* What each connection has been sent and what waits for it are one run, and
\* reach the end as long as somebody may still be told of it.
THEOREM StreamInvariant == StreamSpec => []StreamInv
<1>1. StreamInit => StreamInv
  <2> SUFFICES ASSUME StreamInit PROVE StreamInv
    OBVIOUS
  <2>1. prog = [out |-> 0, ends |-> FALSE, exited |-> FALSE, size |-> 1, turns |-> 0]
        /\ att = [a \in Att |-> NewAtt]
    BY DEF StreamInit
  <2>2. AttInv(NewAtt, prog.out, prog.exited)
    BY NewAttFacts DEF AttInv, Run
  <2> QED BY <2>1, <2>2, NewAttFacts DEF StreamInv, StreamTypes
<1>2. StreamInv /\ [StreamNext]_zvars => StreamInv'
  <2> SUFFICES ASSUME StreamInv, [StreamNext]_zvars PROVE StreamInv'
    OBVIOUS
  <2>1. CASE UNCHANGED zvars
    BY <2>1 DEF zvars, StreamInv, StreamTypes
  <2>2. ASSUME NEW a \in Att, NEW size \in Size, attach(a, size) \/ resize(a, size)
        PROVE  StreamInv'
    <3>1. size \in Nat
      BY StreamAssumption
    <3> QED BY <2>2, <3>1, AttachStep, ResizeStep
  <2>3. ASSUME NEW a \in Att, attach(a, 0) PROVE StreamInv'
    <3>1. PICK n \in Nat : n = 0
      OBVIOUS
    <3> QED BY <2>3, <3>1, AttachStep
  <2> QED BY <2>1, <2>2, <2>3, FlagSteps, SendStep, BroadcastStep, EndSteps DEF StreamNext
<1> QED BY <1>1, <1>2, PTL DEF StreamSpec

LEMMA OneRun ==
    ASSUME NEW g \in Seq(Nat), NEW q \in Seq(Nat), Run(g), Run(q),
           g # <<>> /\ q # <<>> => q[1] = g[Len(g)] + 1
    PROVE  /\ Run(g \o q)
           /\ g \o q # <<>> => (g \o q)[Len(g \o q)] = IF q # <<>> THEN q[Len(q)] ELSE g[Len(g)]
<1> DEFINE all == g \o q
<1>1. /\ all \in Seq(Nat) /\ Len(all) = Len(g) + Len(q) /\ Len(g) \in Nat /\ Len(q) \in Nat
  OBVIOUS
<1>2. /\ \A n \in 1 .. Len(g) : all[n] = g[n]
      /\ \A n \in Len(g) + 1 .. Len(all) : all[n] = q[n - Len(g)]
  OBVIOUS
<1>0. PICK lg, lq : lg = Len(g) /\ lq = Len(q)
  OBVIOUS
<1>5. lg \in Nat /\ lq \in Nat /\ Len(all) = lg + lq
  BY <1>0, <1>1
<1> HIDE DEF all
<1>3. ASSUME NEW n \in 1 .. Len(all) - 1 PROVE all[n + 1] = all[n] + 1
  <2>0. n \in Int /\ 1 <= n /\ n + 1 <= Len(g) + Len(q)
    BY <1>0, <1>5
  <2>1. CASE n < Len(g)
    <3>1. n \in 1 .. Len(g) /\ n + 1 \in 1 .. Len(g) /\ n \in 1 .. Len(g) - 1
      BY <1>0, <1>5, <2>0, <2>1
    <3> QED BY <1>2, <3>1 DEF Run
  <2>2. CASE n = Len(g)
    <3>1. n \in 1 .. Len(g) /\ n + 1 \in Len(g) + 1 .. Len(all) /\ n + 1 - Len(g) = 1
          /\ g # <<>> /\ q # <<>>
      BY <1>1, <2>2
    <3> QED BY <1>2, <2>2, <3>1
  <2>3. CASE n > Len(g)
    <3>1. PICK k : k = n - Len(g)
      OBVIOUS
    <3>2. /\ n \in Len(g) + 1 .. Len(all) /\ n + 1 \in Len(g) + 1 .. Len(all)
          /\ n + 1 - Len(g) = k + 1 /\ k \in 1 .. Len(q) - 1
      BY <1>0, <1>5, <2>0, <2>3, <3>1
    <3>3. all[n] = q[k] /\ all[n + 1] = q[k + 1]
      BY <1>2, <3>1, <3>2
    <3> QED BY <3>2, <3>3 DEF Run
  <2> QED BY <1>1, <2>1, <2>2, <2>3
<1>4. ASSUME all # <<>> PROVE all[Len(all)] = IF q # <<>> THEN q[Len(q)] ELSE g[Len(g)]
  <2>1. CASE q # <<>>
    <3>1. Len(all) \in Len(g) + 1 .. Len(all) /\ Len(all) - Len(g) = Len(q)
      BY <1>1, <2>1
    <3> QED BY <1>2, <2>1, <3>1
  <2>2. CASE q = <<>>
    <3>1. Len(all) = Len(g) /\ Len(g) \in 1 .. Len(g)
      BY <1>1, <1>4, <2>2
    <3> QED BY <1>2, <2>2, <3>1
  <2> QED BY <2>1, <2>2
<1> QED BY <1>3, <1>4 DEF Run, all

\* No connection misses a piece of the output or gets one twice, and the exit
\* code comes after the last of it (mirror.go: attach, broadcast, exit, sender).
THEOREM OutputIsWhole == StreamSpec => []StreamUnbroken
<1>1. StreamInv => StreamUnbroken
  <2> SUFFICES ASSUME StreamInv, NEW a \in Att, NEW all, all = att[a].got \o att[a].q
               PROVE  /\ \A n \in 1 .. Len(all) - 1 : all[n + 1] = all[n] + 1
                      /\ att[a].st \in {"in", "ending"} /\ all # <<>> => all[Len(all)] = prog.out
                      /\ att[a].st = "told" /\ att[a].got # <<>>
                           => att[a].got[Len(att[a].got)] = prog.out
    BY DEF StreamUnbroken
  <2>1. PICK o : o = att[a]
    OBVIOUS
  <2>2. o \in AttOf /\ AttInv(o, prog.out, prog.exited) /\ o.got \in Seq(Nat) /\ o.q \in Seq(Nat)
    BY <2>1 DEF StreamInv, StreamTypes, AttOf
  <2>3. /\ Run(all)
        /\ all # <<>> => all[Len(all)] = IF o.q # <<>> THEN o.q[Len(o.q)] ELSE o.got[Len(o.got)]
    BY <2>1, <2>2, OneRun DEF AttInv
  <2>4. o.st \in {"in", "ending"} => UpTo(o, prog.out)
    BY <2>2 DEF AttInv
  <2>5. all # <<>> => o.q # <<>> \/ o.got # <<>>
    BY <2>1, <2>2
  <2>6. o.st = "told" /\ o.got # <<>> => o.got[Len(o.got)] = prog.out
    BY <2>2 DEF AttInv
  <2> QED BY <2>1, <2>3, <2>4, <2>5, <2>6 DEF Run, UpTo
<1> QED BY <1>1, StreamInvariant, PTL

-----------------------------------------------------------------------------
(* SelfUpdate.                                                             *)

UpdateSpec == UpdateInit /\ [][UpdateNext]_uvars

WireOf == [st : {"none", "new", "read", "in", "gone"}, told : Nat, read : Nat]

UpdateTypes ==
    /\ latest \in Nat /\ wire \in [Link -> WireOf]
    /\ scan \in [pc : {"idle", "list", "send"}, todo : SUBSET Link]
    /\ proc = [ver |-> proc.ver, up |-> proc.up, busy |-> proc.busy,
               crashes |-> proc.crashes, cut |-> proc.cut]

\* Who has read a tag that is no longer the latest is in the same position as
\* who has been greeted: the scan that found the newer one has it to do.
Informed(c) ==
    /\ wire[c].told <= latest /\ wire[c].read <= latest
    /\ wire[c].st = "in" \/ (wire[c].st = "read" /\ wire[c].read # latest)
         => \/ ~ (proc.ver < latest) \/ wire[c].told = latest
            \/ scan.pc = "list" \/ c \in scan.todo

UpdateInv ==
    /\ UpdateTypes
    /\ scan.pc # "send" => scan.todo = {}
    /\ \A c \in Link : Informed(c)

LEMMA WireFacts ==
    ASSUME UpdateInv
    PROVE  /\ latest \in Nat /\ wire \in [Link -> WireOf]
           /\ scan \in [pc : {"idle", "list", "send"}, todo : SUBSET Link]
           /\ \A c \in Link : /\ wire[c] \in WireOf /\ wire[c].told \in Nat /\ wire[c].read \in Nat
                              /\ wire[c].told <= latest /\ wire[c].read <= latest
BY DEF UpdateInv, UpdateTypes, WireOf, Informed

\* One connection changes, and neither the tag nor the version that runs.
LEMMA OneWire ==
    ASSUME UpdateInv, NEW c \in Link, NEW w \in WireOf, wire' = [wire EXCEPT ![c] = w],
           UNCHANGED <<latest, proc>>, w.told <= latest, w.read <= latest,
           scan' \in [pc : {"idle", "list", "send"}, todo : SUBSET Link],
           scan'.pc = scan.pc, scan.todo \ {c} \subseteq scan'.todo, scan'.todo \subseteq scan.todo,
           w.st = "in" \/ (w.st = "read" /\ w.read # latest)
             => \/ ~ (proc.ver < latest) \/ w.told = latest
                \/ scan.pc = "list" \/ c \in scan'.todo
    PROVE  UpdateInv'
<1>1. wire' \in [Link -> WireOf] /\ wire'[c] = w /\ \A d \in Link \ {c} : wire'[d] = wire[d]
  BY WireFacts
<1>2. UpdateTypes'
  BY <1>1, WireFacts DEF UpdateInv, UpdateTypes
<1>3. Informed(c)'
  BY <1>1 DEF Informed
<1>4. ASSUME NEW d \in Link \ {c} PROVE Informed(d)'
  <2>1. wire'[d] = wire[d] /\ Informed(d)
    BY <1>1 DEF UpdateInv
  <2> QED BY <2>1 DEF Informed
<1> QED BY <1>2, <1>3, <1>4 DEF UpdateInv

LEMMA TellKeeps ==
    ASSUME UpdateInv, NEW c \in Link, NEW tag \in Nat, tag <= latest,
           NEW st \in {"none", "new", "read", "in", "gone"}, Tell(c, tag, st),
           UNCHANGED <<latest, proc>>,
           scan' \in [pc : {"idle", "list", "send"}, todo : SUBSET Link],
           scan'.pc = scan.pc, scan.todo \ {c} \subseteq scan'.todo, scan'.todo \subseteq scan.todo,
           tag # latest => /\ scan' = scan /\ wire[c].st = "read" /\ wire[c].read = tag
    PROVE  UpdateInv'
<1> DEFINE v == IF proc.ver < tag /\ wire[c].told < tag THEN tag ELSE wire[c].told
           w == [wire[c] EXCEPT !.st = st, !.told = v]
<1>1. v \in Nat /\ v <= latest /\ (wire[c].told = latest => v = latest)
  BY WireFacts
<1>2. tag = latest => ~ (proc.ver < latest) \/ v = latest
  BY WireFacts
<1>3. wire' = [wire EXCEPT ![c] = [wire[c] EXCEPT !.st = st, !.told = v]]
  BY WireFacts DEF Tell
<1> HIDE DEF v
<1>4. w \in WireOf /\ w.st = st /\ w.told = v /\ w.read = wire[c].read
  BY <1>1, WireFacts DEF WireOf
<1>5. tag # latest => \/ ~ (proc.ver < latest) \/ wire[c].told = latest
                      \/ scan.pc = "list" \/ c \in scan.todo
  BY DEF UpdateInv, Informed
<1> HIDE DEF w
<1>6. /\ w.told <= latest /\ w.read <= latest /\ wire' = [wire EXCEPT ![c] = w]
      /\ \/ ~ (proc.ver < latest) \/ w.told = latest
         \/ scan.pc = "list" \/ c \in scan'.todo
  BY <1>1, <1>2, <1>3, <1>4, <1>5, WireFacts DEF w
<1> QED BY <1>4, <1>6, OneWire

LEMMA GreetStep ==
    ASSUME UpdateInv, NEW c \in Link, maybePushUpgrade(c)
    PROVE  UpdateInv'
<1>0. /\ UNCHANGED <<latest, scan, proc>>
      /\ scan' \in [pc : {"idle", "list", "send"}, todo : SUBSET Link]
  BY WireFacts DEF maybePushUpgrade
<1>1. CASE wire[c].st = "new" /\ wire' = [wire EXCEPT ![c].st = "read", ![c].read = latest]
  <2> DEFINE w == [wire[c] EXCEPT !.st = "read", !.read = latest]
  <2>1. w \in WireOf /\ w.read = latest /\ w.told = wire[c].told /\ w.st = "read"
    BY WireFacts DEF WireOf
  <2>2. wire' = [wire EXCEPT ![c] = w]
    BY <1>1, WireFacts
  <2> HIDE DEF w
  <2>3. w.told <= latest /\ w.read <= latest
    BY <2>1, WireFacts
  <2> QED BY <1>0, <2>1, <2>2, <2>3, OneWire
<1>2. CASE wire[c].st = "read" /\ Tell(c, wire[c].read, "in")
  BY <1>0, <1>2, WireFacts, TellKeeps
<1> QED BY <1>1, <1>2 DEF maybePushUpgrade

LEMMA LinkStep ==
    ASSUME UpdateInv, NEW c \in Link, Attach(c) \/ Disconnect(c)
    PROVE  UpdateInv'
<1>1. PICK st \in {"new", "gone"} : wire' = [wire EXCEPT ![c].st = st]
  BY DEF Attach, Disconnect
<1>2. /\ UNCHANGED <<latest, scan, proc>>
      /\ scan' \in [pc : {"idle", "list", "send"}, todo : SUBSET Link]
  BY WireFacts DEF Attach, Disconnect
<1> DEFINE w == [wire[c] EXCEPT !.st = st]
<1>3. w \in WireOf /\ w.read = wire[c].read /\ w.told = wire[c].told /\ w.st = st
  BY WireFacts DEF WireOf
<1>4. wire' = [wire EXCEPT ![c] = w]
  BY <1>1, WireFacts
<1> HIDE DEF w
<1>5. w.told <= latest /\ w.read <= latest
  BY <1>3, WireFacts
<1> QED BY <1>2, <1>3, <1>4, <1>5, OneWire

LEMMA ReleaseStep ==
    ASSUME UpdateInv, checkLatestOnce
    PROVE  UpdateInv'
<1>1. latest' = latest + 1 /\ scan' = [scan EXCEPT !.pc = "list"] /\ UNCHANGED <<wire, proc>>
  BY DEF checkLatestOnce
<1>2. scan'.pc = "list" /\ scan'.todo = scan.todo /\ scan.pc # "send"
      /\ scan' \in [pc : {"idle", "list", "send"}, todo : SUBSET Link]
  BY <1>1, WireFacts DEF checkLatestOnce
<1>3. UpdateTypes'
  BY <1>1, <1>2, WireFacts DEF UpdateInv, UpdateTypes
<1>4. \A c \in Link : Informed(c)'
  BY <1>1, <1>2, WireFacts DEF Informed
<1> QED BY <1>2, <1>3, <1>4 DEF UpdateInv

LEMMA NotifyStep ==
    ASSUME UpdateInv, NotifyUpgrade
    PROVE  UpdateInv'
<1>0. UNCHANGED <<latest, proc>>
  BY DEF NotifyUpgrade
<1>1. CASE scan.pc = "list" /\ scan' = [pc |-> "send", todo |-> Listed] /\ UNCHANGED wire
  <2>1. Listed \subseteq Link /\ scan'.pc = "send" /\ scan'.todo = Listed
        /\ scan' \in [pc : {"idle", "list", "send"}, todo : SUBSET Link]
    BY <1>1 DEF Listed
  <2>2. UpdateTypes'
    BY <1>0, <1>1, <2>1, WireFacts DEF UpdateInv, UpdateTypes
  <2>3. \A c \in Link : Informed(c)'
    BY <1>0, <1>1, <2>1, WireFacts DEF Informed, Listed, Linked
  <2> QED BY <2>1, <2>2, <2>3 DEF UpdateInv
<1>2. CASE /\ scan.pc = "send" /\ scan.todo = {} /\ scan' = [scan EXCEPT !.pc = "idle"]
           /\ UNCHANGED wire
  <2>1. scan'.pc = "idle" /\ scan'.todo = {}
        /\ scan' \in [pc : {"idle", "list", "send"}, todo : SUBSET Link]
    BY <1>2, WireFacts
  <2>2. UpdateTypes'
    BY <1>0, <1>2, <2>1, WireFacts DEF UpdateInv, UpdateTypes
  <2>3. ASSUME NEW c \in Link PROVE Informed(c)'
    <3>1. Informed(c)
      BY DEF UpdateInv
    <3> QED BY <1>0, <1>2, <3>1 DEF Informed
  <2> QED BY <2>1, <2>2, <2>3 DEF UpdateInv
<1>3. ASSUME scan.pc = "send", NEW c \in scan.todo, scan' = [scan EXCEPT !.todo = @ \ {c}],
             IF Linked(c) THEN Tell(c, latest, wire[c].st) ELSE UNCHANGED <<wire, updater>>
      PROVE  UpdateInv'
  <2>1. /\ scan'.pc = scan.pc /\ scan'.todo = scan.todo \ {c} /\ c \in Link
        /\ scan' \in [pc : {"idle", "list", "send"}, todo : SUBSET Link]
    BY <1>3, WireFacts
  <2>2. wire[c].st \in {"none", "new", "read", "in", "gone"}
    BY <2>1, WireFacts DEF WireOf
  <2>3. CASE Linked(c)
    <3>1. Tell(c, latest, wire[c].st) /\ latest \in Nat /\ latest <= latest
      BY <1>3, <2>3, WireFacts
    <3> QED BY <1>0, <2>1, <2>2, <3>1, TellKeeps
  <2>4. CASE ~ Linked(c)
    <3>1. wire' = [wire EXCEPT ![c] = wire[c]] /\ wire[c] \in WireOf
      BY <1>3, <2>1, <2>4, WireFacts
    <3>2. wire[c].st \notin {"read", "in"}
      BY <2>4 DEF Linked
    <3> QED BY <1>0, <2>1, <3>1, <3>2, WireFacts, OneWire
  <2> QED BY <2>3, <2>4
<1> QED BY <1>1, <1>2, <1>3 DEF NotifyUpgrade

\* A start may change the version, and leaves no connection.
LEMMA StartStep ==
    ASSUME UpdateInv, Starts, UNCHANGED latest,
           proc' = [ver |-> proc'.ver, up |-> proc'.up, busy |-> proc'.busy,
                    crashes |-> proc'.crashes, cut |-> proc'.cut]
    PROVE  UpdateInv'
<1>1. UNCHANGED <<latest, scan>>
  BY DEF Starts
<1>2. \A c \in Link : /\ wire'[c] \in WireOf /\ wire'[c].told = wire[c].told
                      /\ wire'[c].read = wire[c].read /\ wire'[c].st \notin {"read", "in"}
  <2> SUFFICES ASSUME NEW c \in Link
               PROVE  /\ wire'[c] \in WireOf /\ wire'[c].told = wire[c].told
                      /\ wire'[c].read = wire[c].read /\ wire'[c].st \notin {"read", "in"}
    OBVIOUS
  <2>1. CASE Linked(c)
    <3>1. wire'[c] = [wire[c] EXCEPT !.st = "gone"]
      BY <2>1 DEF Starts
    <3> QED BY <3>1, WireFacts DEF WireOf
  <2>2. CASE ~ Linked(c)
    <3>1. wire'[c] = wire[c]
      BY <2>2 DEF Starts
    <3> QED BY <2>2, <3>1, WireFacts DEF Linked
  <2> QED BY <2>1, <2>2
<1>3. wire' \in [Link -> WireOf]
  BY <1>2 DEF Starts
<1>4. UpdateTypes'
  BY <1>1, <1>3, WireFacts DEF UpdateInv, UpdateTypes
<1>5. \A c \in Link : Informed(c)'
  BY <1>1, <1>2, WireFacts DEF Informed
<1> QED BY <1>1, <1>4, <1>5 DEF UpdateInv

LEMMA ImageShape ==
    ASSUME UpdateInv, NEW p, p = Image
    PROVE  p = [ver |-> p.ver, up |-> p.up, busy |-> p.busy, crashes |-> p.crashes, cut |-> p.cut]
<1>1. PICK v, u, b, k, t : proc = [ver |-> v, up |-> u, busy |-> b, crashes |-> k, cut |-> t]
  BY DEF UpdateInv, UpdateTypes
<1>2. CASE Whole(disk.exe)
  <2>1. PICK n : p = [proc EXCEPT !.ver = n, !.busy = FALSE]
    BY <1>2 DEF Image
  <2>2. p = [ver |-> n, up |-> u, busy |-> FALSE, crashes |-> k, cut |-> t]
    BY <1>1, <2>1
  <2> QED BY <2>2
<1>3. CASE ~ Whole(disk.exe)
  <2>1. p = [proc EXCEPT !.up = FALSE, !.busy = FALSE]
    BY <1>3 DEF Image
  <2>2. p = [ver |-> v, up |-> FALSE, busy |-> FALSE, crashes |-> k, cut |-> t]
    BY <1>1, <2>1
  <2> QED BY <2>2
<1> QED BY <1>2, <1>3

LEMMA NoNews ==
    ASSUME UpdateInv, UNCHANGED <<latest, scan, wire>>, proc'.ver = proc.ver,
           proc' = [ver |-> proc'.ver, up |-> proc'.up, busy |-> proc'.busy,
                    crashes |-> proc'.crashes, cut |-> proc'.cut]
    PROVE  UpdateInv'
BY DEF UpdateInv, UpdateTypes, Informed

LEMMA AgentStep ==
    ASSUME UpdateInv,
           \/ \E c \in Link : Open(c) \/ Fetched(c) \/ Check(c) \/ replace(c) \/ CleanUp(c) \/ Restart(c)
           \/ \E b \in BOOLEAN : Busy(b)
           \/ Crash
    PROVE  UpdateInv'
<1>1. PICK v, u, b, k, t : proc = [ver |-> v, up |-> u, busy |-> b, crashes |-> k, cut |-> t]
  BY DEF UpdateInv, UpdateTypes
<1>2. ASSUME UNCHANGED <<latest, scan, wire, proc>> PROVE UpdateInv'
  <2>1. proc' = [ver |-> proc'.ver, up |-> proc'.up, busy |-> proc'.busy,
                 crashes |-> proc'.crashes, cut |-> proc'.cut]
    BY <1>2 DEF UpdateInv, UpdateTypes
  <2> QED BY <1>2, <2>1, NoNews
<1>3. ASSUME NEW x \in BOOLEAN, Busy(x) PROVE UpdateInv'
  <2>1. proc' = [ver |-> v, up |-> u, busy |-> x, crashes |-> k, cut |-> t]
    BY <1>1, <1>3 DEF Busy
  <2>2. /\ proc' = [ver |-> proc'.ver, up |-> proc'.up, busy |-> proc'.busy,
                    crashes |-> proc'.crashes, cut |-> proc'.cut]
        /\ proc'.ver = proc.ver
    BY <1>1, <2>1
  <2> QED BY <1>3, <2>2, NoNews DEF Busy
<1>4. PICK p : p = Image
  OBVIOUS
<1>5. PICK v2, u2, b2, k2, t2 :
        p = [ver |-> v2, up |-> u2, busy |-> b2, crashes |-> k2, cut |-> t2]
  BY <1>4, ImageShape
<1>6. ASSUME Crash PROVE UpdateInv'
  <2>1. proc' = [p EXCEPT !.crashes = @ + 1]
    BY <1>4, <1>6 DEF Crash
  <2>2. PICK k3 : proc' = [ver |-> v2, up |-> u2, busy |-> b2, crashes |-> k3, cut |-> t2]
    BY <1>5, <2>1
  <2>3. proc' = [ver |-> proc'.ver, up |-> proc'.up, busy |-> proc'.busy,
                 crashes |-> proc'.crashes, cut |-> proc'.cut]
    BY <2>2
  <2> QED BY <1>6, <2>3, StartStep DEF Crash, Starts
<1>7. ASSUME NEW c \in Link, Restart(c) PROVE UpdateInv'
  <2>1. CASE Starts /\ proc' = [Image EXCEPT !.cut = proc.cut \/ proc.busy]
    <3>1. PICK t3 : proc' = [p EXCEPT !.cut = t3]
      BY <1>4, <2>1
    <3>2. proc' = [ver |-> v2, up |-> u2, busy |-> b2, crashes |-> k2, cut |-> t3]
      BY <1>5, <3>1
    <3>3. proc' = [ver |-> proc'.ver, up |-> proc'.up, busy |-> proc'.busy,
                   crashes |-> proc'.crashes, cut |-> proc'.cut]
      BY <3>2
    <3> QED BY <2>1, <3>3, StartStep DEF Starts
  <2> QED BY <1>2, <1>7, <2>1 DEF Restart
<1>8. ASSUME NEW c \in Link, Open(c) \/ Fetched(c) \/ Check(c) \/ replace(c) \/ CleanUp(c)
      PROVE  UNCHANGED <<latest, scan, wire, proc>>
  <2>1. Open(c) => UNCHANGED <<latest, scan, wire, proc>>
    BY DEF Open
  <2> QED BY <1>8, <2>1 DEF Fetched, Check, replace, CleanUp
<1> QED BY <1>2, <1>3, <1>6, <1>7, <1>8

\* Who is told, who has only read a tag, and who is on the scan's list.
THEOREM UpdateInvariant == UpdateSpec => []UpdateInv
<1>1. UpdateInit => UpdateInv
  <2> SUFFICES ASSUME UpdateInit PROVE UpdateInv
    OBVIOUS
  <2>1. latest = 1 /\ scan = [pc |-> "idle", todo |-> {}] /\ scan.pc = "idle" /\ scan.todo = {}
        /\ wire = [c \in Link |-> [st |-> "none", told |-> 0, read |-> 0]]
        /\ proc = [ver |-> 1, up |-> TRUE, busy |-> FALSE, crashes |-> 0, cut |-> FALSE]
    BY DEF UpdateInit
  <2>2. \A c \in Link : /\ wire[c] \in WireOf /\ wire[c].st = "none"
                        /\ wire[c].told = 0 /\ wire[c].read = 0
    BY <2>1 DEF WireOf
  <2>3. wire \in [Link -> WireOf]
    BY <2>1, <2>2
  <2>4. UpdateTypes
    BY <2>1, <2>3 DEF UpdateTypes
  <2>5. \A c \in Link : Informed(c)
    BY <2>1, <2>2 DEF Informed
  <2> QED BY <2>1, <2>4, <2>5 DEF UpdateInv
<1>2. UpdateInv /\ [UpdateNext]_uvars => UpdateInv'
  <2> SUFFICES ASSUME UpdateInv, [UpdateNext]_uvars PROVE UpdateInv'
    OBVIOUS
  <2>1. CASE UNCHANGED uvars
    BY <2>1 DEF uvars, UpdateInv, UpdateTypes, Informed
  <2> QED BY <2>1, LinkStep, GreetStep, ReleaseStep, NotifyStep, AgentStep DEF UpdateNext
<1> QED BY <1>1, <1>2, PTL DEF UpdateSpec

\* No agent that is connected and behind is left out, however a release falls
\* between its arrival and the listing (server.go: checkLatestOnce,
\* NotifyUpgrade, maybePushUpgrade).
THEOREM EveryAgentIsTold == UpdateSpec => []NobodyMissesIt
<1>1. UpdateInv => NobodyMissesIt
  BY DEF UpdateInv, Informed, NobodyMissesIt
<1> QED BY <1>1, UpdateInvariant, PTL

-----------------------------------------------------------------------------
(* MonitorFeed.                                                            *)

FeedSpec == FeedInit /\ [][FeedNext]_mvars

PumpOf == [pc : {"dial", "hello", "up", "write", "off", "over"}, dead : BOOLEAN, held : Nat,
           backoff : Nat, slept : Nat, dials : Nat, done : BOOLEAN]

FeedTypes ==
    /\ events \in Seq(BOOLEAN) /\ queue \in Seq(Nat) /\ dropped \in Nat
    /\ got \in [event : Seq(Nat), count : Seq(Nat)] /\ pump \in PumpOf

\* What has arrived came before the frame in hand, that before the queue.
InLine ==
    /\ \A i, j \in 1 .. Len(got.event) : i < j => got.event[i] < got.event[j]
    /\ \A i, j \in 1 .. Len(queue) : i < j => queue[i] < queue[j]
    /\ \A i \in 1 .. Len(got.event), j \in 1 .. Len(queue) : got.event[i] < queue[j]
    /\ \A j \in 1 .. Len(queue) : 1 <= queue[j] /\ queue[j] <= Len(events) /\ pump.held < queue[j]
    /\ \A i \in 1 .. Len(got.event) : /\ got.event[i] <= Len(events)
                                      /\ pump.held # 0 => got.event[i] < pump.held
    /\ pump.held <= Len(events)

Rising(s) == \A i, j \in 1 .. Len(s) : i < j => s[i] <= s[j]

Counted ==
    /\ Rising(got.count)
    /\ \A i \in 1 .. Len(got.count) : got.count[i] <= dropped
    /\ dropped + Len(got.event) + Len(queue) <= Len(events)
    /\ pump.held # 0 => dropped + Len(got.event) + Len(queue) < Len(events)

FeedInv == FeedTypes /\ InLine /\ Counted /\ (pump.pc = "write" <=> pump.held # 0)

LEMMA FeedFacts ==
    ASSUME FeedInv
    PROVE  /\ events \in Seq(BOOLEAN) /\ queue \in Seq(Nat) /\ dropped \in Nat
           /\ got.event \in Seq(Nat) /\ got.count \in Seq(Nat)
           /\ Len(events) \in Nat /\ Len(queue) \in Nat
           /\ Len(got.event) \in Nat /\ Len(got.count) \in Nat
           /\ \A j \in 1 .. Len(queue) : queue[j] \in Nat
           /\ \A i \in 1 .. Len(got.event) : got.event[i] \in Nat
           /\ \A i \in 1 .. Len(got.count) : got.count[i] \in Nat
           /\ pump \in PumpOf /\ pump.held \in Nat
<1>1. /\ events \in Seq(BOOLEAN) /\ queue \in Seq(Nat) /\ dropped \in Nat
      /\ got.event \in Seq(Nat) /\ got.count \in Seq(Nat) /\ pump \in PumpOf /\ pump.held \in Nat
  BY DEF FeedInv, FeedTypes, PumpOf
<1> QED BY <1>1, SMTT(40)

LEMMA NumberFacts ==
    ASSUME FeedInv
    PROVE  /\ dropped \in Nat /\ Len(events) \in Nat /\ Len(queue) \in Nat
           /\ Len(got.event) \in Nat /\ Len(got.count) \in Nat
           /\ \A j \in 1 .. Len(queue) : queue[j] \in Nat
           /\ \A i \in 1 .. Len(got.event) : got.event[i] \in Nat
           /\ \A i \in 1 .. Len(got.count) : got.count[i] \in Nat
           /\ pump.held \in Nat
BY FeedFacts

\* The pump moves, with the same frame in hand.
LEMMA PumpMoves ==
    ASSUME FeedInv, pump' \in PumpOf, pump'.held = pump.held,
           pump'.pc = "write" <=> pump'.held # 0, UNCHANGED <<events, queue, dropped, got>>
    PROVE  FeedInv'
BY DEF FeedInv, FeedTypes, InLine, Counted

\* The frame in hand is let go: it arrives, or nobody will see it.
LEMMA FrameGoes ==
    ASSUME FeedInv, pump' \in PumpOf, pump'.held = 0, pump'.pc # "write",
           UNCHANGED <<events, queue>>, dropped' \in Nat,
           \/ dropped' = dropped
           \/ dropped' = dropped + 1 /\ pump.held # 0,
           got' = got
    PROVE  FeedInv'
<1>1. FeedTypes'
  BY DEF FeedInv, FeedTypes
<1>2. InLine'
  BY NumberFacts DEF FeedInv, InLine
<1>3. Counted'
  BY NumberFacts, SMTT(40) DEF FeedInv, Counted
<1> QED BY <1>1, <1>2, <1>3 DEF FeedInv

LEMMA FrameArrives ==
    ASSUME FeedInv, pump' \in PumpOf, pump'.held = 0, pump'.pc # "write",
           UNCHANGED <<events, queue, dropped>>, pump.held # 0,
           got' = [got EXCEPT !.event = Append(@, pump.held)]
    PROVE  FeedInv'
<1> DEFINE h == pump.held
<1>1. got'.event = Append(got.event, h) /\ got'.count = got.count
      /\ got' \in [event : Seq(Nat), count : Seq(Nat)]
  <2>1. Append(got.event, h) \in Seq(Nat)
    BY FeedFacts
  <2>2. got' = [got EXCEPT !.event = Append(got.event, h)] /\ got \in [event : Seq(Nat), count : Seq(Nat)]
    BY DEF FeedInv, FeedTypes
  <2> QED BY <2>1, <2>2
<1>2. /\ Len(got'.event) = Len(got.event) + 1 /\ got'.event[Len(got.event) + 1] = h
      /\ \A i \in 1 .. Len(got.event) : got'.event[i] = got.event[i]
  BY <1>1, FeedFacts
<1>3. FeedTypes'
  BY <1>1 DEF FeedInv, FeedTypes
<1>4. \A i \in 1 .. Len(got'.event) : i \in 1 .. Len(got.event) \/ i = Len(got.event) + 1
  BY <1>2, FeedFacts
<1>5. InLine'
  <2>1. \A i, j \in 1 .. Len(got'.event) : i < j => got'.event[i] < got'.event[j]
    BY <1>2, <1>4, NumberFacts DEF FeedInv, InLine
  <2>2. \A i \in 1 .. Len(got'.event), j \in 1 .. Len(queue) : got'.event[i] < queue[j]
    BY <1>2, <1>4, NumberFacts DEF FeedInv, InLine
  <2>3. \A i \in 1 .. Len(got'.event) : got'.event[i] <= Len(events)
    BY <1>2, <1>4, NumberFacts DEF FeedInv, InLine
  <2>4. /\ \A i, j \in 1 .. Len(queue) : i < j => queue[i] < queue[j]
        /\ \A j \in 1 .. Len(queue) : 1 <= queue[j] /\ queue[j] <= Len(events) /\ 0 < queue[j]
        /\ 0 <= Len(events)
    BY NumberFacts DEF FeedInv, InLine
  <2> QED BY <2>1, <2>2, <2>3, <2>4 DEF InLine
<1>6. Counted'
  BY <1>1, <1>2, NumberFacts DEF FeedInv, Counted
<1> QED BY <1>3, <1>5, <1>6 DEF FeedInv

LEMMA EmitStep ==
    ASSUME FeedInv, NEW big \in BOOLEAN, Emit(big)
    PROVE  FeedInv'
<1>1. /\ events' \in Seq(BOOLEAN) /\ Len(events') = Len(events) + 1 /\ UNCHANGED <<pump, got>>
  BY FeedFacts DEF Emit
<1>2. CASE Len(queue) < Buffer
  <2>1. queue' = Append(queue, Len(events')) /\ dropped' = dropped
    BY <1>2 DEF Emit
  <2>2. /\ queue' \in Seq(Nat) /\ Len(queue') = Len(queue) + 1
        /\ queue'[Len(queue) + 1] = Len(events) + 1
        /\ \A j \in 1 .. Len(queue) : queue'[j] = queue[j]
    BY <1>1, <2>1, FeedFacts
  <2>3. \A j \in 1 .. Len(queue') : j \in 1 .. Len(queue) \/ j = Len(queue) + 1
    BY <2>2, FeedFacts
  <2>4. FeedTypes'
    BY <1>1, <2>1, <2>2 DEF FeedInv, FeedTypes
  <2>5. InLine'
    <3>0. /\ \A i, j \in 1 .. Len(queue) : i < j => queue[i] < queue[j]
          /\ \A j \in 1 .. Len(queue) : queue[j] <= Len(events)
      BY DEF FeedInv, InLine
    <3>1. ASSUME NEW i \in 1 .. Len(queue'), NEW j \in 1 .. Len(queue'), i < j
          PROVE  queue'[i] < queue'[j]
      <4>1. i \in 1 .. Len(queue) /\ queue'[i] = queue[i] /\ queue[i] <= Len(events)
            /\ queue[i] \in Nat
        BY <2>2, <2>3, <3>0, <3>1, NumberFacts
      <4>2. CASE j \in 1 .. Len(queue)
        BY <2>2, <3>0, <3>1, <4>1, <4>2
      <4>3. CASE j = Len(queue) + 1
        BY <2>2, <4>1, <4>3, NumberFacts
      <4> QED BY <2>3, <4>2, <4>3
    <3>2. \A i \in 1 .. Len(got.event), j \in 1 .. Len(queue') : got.event[i] < queue'[j]
      BY <2>2, <2>3, NumberFacts, SMTT(40) DEF FeedInv, InLine
    <3>3. \A j \in 1 .. Len(queue') : 1 <= queue'[j] /\ queue'[j] <= Len(events') /\ pump.held < queue'[j]
      BY <1>1, <2>2, <2>3, NumberFacts, SMTT(40) DEF FeedInv, InLine
    <3>4. /\ \A i, j \in 1 .. Len(got.event) : i < j => got.event[i] < got.event[j]
          /\ \A i \in 1 .. Len(got.event) : /\ got.event[i] <= Len(events')
                                            /\ pump.held # 0 => got.event[i] < pump.held
          /\ pump.held <= Len(events')
      BY <1>1, NumberFacts DEF FeedInv, InLine
    <3> QED BY <1>1, <3>1, <3>2, <3>3, <3>4 DEF InLine
  <2>6. Counted'
    BY <1>1, <2>1, <2>2, NumberFacts DEF FeedInv, Counted
  <2> QED BY <1>1, <2>4, <2>5, <2>6 DEF FeedInv
<1>3. CASE ~ (Len(queue) < Buffer)
  <2>1. queue' = queue /\ dropped' = dropped + 1
    BY <1>3 DEF Emit
  <2>2. FeedTypes'
    BY <1>1, <2>1 DEF FeedInv, FeedTypes
  <2>3. InLine'
    BY <1>1, <2>1, NumberFacts DEF FeedInv, InLine
  <2>4. Rising(got'.count) /\ \A i \in 1 .. Len(got'.count) : got'.count[i] <= dropped'
    BY <1>1, <2>1, NumberFacts, SMTT(40) DEF FeedInv, Counted
  <2>5. Counted'
    BY <1>1, <2>1, <2>4, NumberFacts DEF FeedInv, Counted
  <2> QED BY <1>1, <2>2, <2>3, <2>5 DEF FeedInv
<1> QED BY <1>2, <1>3

LEMMA ReportStep ==
    ASSUME FeedInv, Report
    PROVE  FeedInv'
<1>1. pump.held = 0 /\ pump.pc \in {"hello", "up"} /\ UNCHANGED <<events, queue, dropped>>
  BY DEF Report, FeedInv
<1>2. /\ [pump EXCEPT !.pc = "up"] \in PumpOf /\ [pump EXCEPT !.pc = "up"].held = 0
      /\ [pump EXCEPT !.pc = "up"].pc = "up"
      /\ [pump EXCEPT !.pc = "off", !.held = 0] \in PumpOf
      /\ [pump EXCEPT !.pc = "off", !.held = 0].held = 0
      /\ [pump EXCEPT !.pc = "off", !.held = 0].pc = "off"
  BY <1>1, FeedFacts DEF PumpOf
<1>3. pump' \in PumpOf /\ pump'.held = 0 /\ pump'.pc # "write"
  BY <1>2 DEF Report, Ends
<1>4. CASE pump.dead
  <2>1. got' = got
    BY <1>4 DEF Report
  <2> QED BY <1>1, <1>3, <2>1, PumpMoves
<1>5. CASE ~ pump.dead
  <2>1. got' = [got EXCEPT !.count = Append(@, dropped)]
    BY <1>5 DEF Report
  <2>2. got'.count = Append(got.count, dropped) /\ got'.event = got.event
        /\ got' \in [event : Seq(Nat), count : Seq(Nat)]
    <3>1. Append(got.count, dropped) \in Seq(Nat)
      BY FeedFacts
    <3>2. got' = [got EXCEPT !.count = Append(got.count, dropped)] /\ got \in [event : Seq(Nat), count : Seq(Nat)]
      BY <2>1 DEF FeedInv, FeedTypes
    <3> QED BY <3>1, <3>2
  <2>3. /\ Len(got'.count) = Len(got.count) + 1 /\ got'.count[Len(got.count) + 1] = dropped
        /\ \A i \in 1 .. Len(got.count) : got'.count[i] = got.count[i]
    BY <2>2, FeedFacts
  <2>4. \A i \in 1 .. Len(got'.count) : i \in 1 .. Len(got.count) \/ i = Len(got.count) + 1
    BY <2>3, FeedFacts
  <2>5. FeedTypes'
    BY <1>1, <1>3, <2>2 DEF FeedInv, FeedTypes
  <2>6. InLine'
    BY <1>1, <1>3, <2>2 DEF FeedInv, InLine
  <2>7. Counted'
    <3>0. /\ \A i, j \in 1 .. Len(got.count) : i < j => got.count[i] <= got.count[j]
          /\ \A i \in 1 .. Len(got.count) : got.count[i] <= dropped
      BY DEF FeedInv, Counted, Rising
    <3>1. ASSUME NEW i \in 1 .. Len(got'.count), NEW j \in 1 .. Len(got'.count), i < j
          PROVE  got'.count[i] <= got'.count[j]
      <4>1. i \in 1 .. Len(got.count) /\ got'.count[i] = got.count[i]
        BY <2>3, <2>4, <3>1, NumberFacts
      <4>2. CASE j \in 1 .. Len(got.count)
        BY <2>3, <3>0, <3>1, <4>1, <4>2
      <4>3. CASE j = Len(got.count) + 1
        BY <2>3, <3>0, <4>1, <4>3
      <4> QED BY <2>4, <4>2, <4>3
    <3>2. \A i \in 1 .. Len(got'.count) : got'.count[i] <= dropped
      BY <2>3, <2>4, <3>0, NumberFacts, SMTT(40)
    <3> QED BY <1>1, <1>3, <2>2, <3>1, <3>2 DEF FeedInv, Counted, Rising
  <2> QED BY <1>3, <2>5, <2>6, <2>7 DEF FeedInv
<1> QED BY <1>4, <1>5

LEMMA TakeStep ==
    ASSUME FeedInv, Take
    PROVE  FeedInv'
<1>1. /\ pump.held = 0 /\ queue # <<>> /\ UNCHANGED <<events, dropped, got>>
      /\ pump' = [pump EXCEPT !.pc = "write", !.held = Head(queue)] /\ queue' = Tail(queue)
  BY DEF Take, FeedInv
<1>2. /\ Len(queue) >= 1 /\ Head(queue) = queue[1] /\ queue[1] \in Nat /\ queue' \in Seq(Nat)
      /\ Len(queue') = Len(queue) - 1
      /\ \A j \in 1 .. Len(queue') : queue'[j] = queue[j + 1] /\ j + 1 \in 1 .. Len(queue)
  BY <1>1, FeedFacts
<1>3. queue[1] >= 1 /\ queue[1] <= Len(events) /\ 1 \in 1 .. Len(queue)
  BY <1>2, NumberFacts DEF FeedInv, InLine
<1>4. pump' \in PumpOf /\ pump'.held = queue[1] /\ pump'.pc = "write" /\ pump'.held # 0
  <2>1. PICK h : h = queue[1]
    OBVIOUS
  <2>2. h \in Nat /\ h # 0 /\ pump' = [pump EXCEPT !.pc = "write", !.held = h]
    BY <1>1, <1>2, <1>3, <2>1
  <2> QED BY <2>1, <2>2, FeedFacts DEF PumpOf
<1>5. FeedTypes'
  BY <1>1, <1>2, <1>4 DEF FeedInv, FeedTypes
<1>6. InLine'
  <2>1. ASSUME NEW i \in 1 .. Len(queue'), NEW j \in 1 .. Len(queue'), i < j
        PROVE  queue'[i] < queue'[j]
    <3>1. /\ i + 1 \in 1 .. Len(queue) /\ j + 1 \in 1 .. Len(queue) /\ i + 1 < j + 1
          /\ queue'[i] = queue[i + 1] /\ queue'[j] = queue[j + 1]
      BY <1>2, <2>1
    <3> QED BY <3>1 DEF FeedInv, InLine
  <2>2. \A i \in 1 .. Len(got.event), j \in 1 .. Len(queue') : got.event[i] < queue'[j]
    BY <1>2, NumberFacts DEF FeedInv, InLine
  <2>3. ASSUME NEW j \in 1 .. Len(queue')
        PROVE  1 <= queue'[j] /\ queue'[j] <= Len(events) /\ queue[1] < queue'[j]
    <3>1. j + 1 \in 1 .. Len(queue) /\ 1 < j + 1 /\ queue'[j] = queue[j + 1]
      BY <1>2, <2>3
    <3> QED BY <1>3, <3>1, NumberFacts DEF FeedInv, InLine
  <2>4. \A i \in 1 .. Len(got.event) : got.event[i] <= Len(events) /\ got.event[i] < queue[1]
    BY <1>3, NumberFacts DEF FeedInv, InLine
  <2> QED BY <1>1, <1>3, <1>4, <2>1, <2>2, <2>3, <2>4, NumberFacts DEF FeedInv, InLine
<1>7. Counted'
  BY <1>1, <1>2, <1>4, NumberFacts DEF FeedInv, Counted
<1> QED BY <1>4, <1>5, <1>6, <1>7 DEF FeedInv

LEMMA WriteStep ==
    ASSUME FeedInv, WriteHeld
    PROVE  FeedInv'
<1>1. pump.held # 0 /\ events' = events
  BY DEF WriteHeld, FeedInv
<1>2. /\ [pump EXCEPT !.pc = "up", !.held = 0] \in PumpOf
      /\ [pump EXCEPT !.pc = "up", !.held = 0].held = 0
      /\ [pump EXCEPT !.pc = "up", !.held = 0].pc = "up"
      /\ [pump EXCEPT !.pc = "off", !.held = 0] \in PumpOf
      /\ [pump EXCEPT !.pc = "off", !.held = 0].held = 0
      /\ [pump EXCEPT !.pc = "off", !.held = 0].pc = "off"
  BY FeedFacts DEF PumpOf
<1>3. pump' \in PumpOf /\ pump'.held = 0 /\ pump'.pc # "write"
  BY <1>2 DEF WriteHeld, Ends
<1>4. CASE dropped' = dropped + 1 /\ UNCHANGED <<queue, got>>
  BY <1>1, <1>3, <1>4, FeedFacts, FrameGoes
<1>5. CASE /\ got' = IF pump.dead THEN got ELSE [got EXCEPT !.event = Append(@, pump.held)]
           /\ UNCHANGED <<queue, dropped>>
  <2>1. CASE pump.dead
    BY <1>1, <1>3, <1>5, <2>1, FeedFacts, FrameGoes
  <2>2. CASE ~ pump.dead
    BY <1>1, <1>3, <1>5, <2>2, FrameArrives
  <2> QED BY <2>1, <2>2
<1>6. CASE queue' = Failed(pump.held) /\ UNCHANGED <<dropped, got>>
  <2>1. queue' = queue
    BY <1>6 DEF Failed
  <2> QED BY <1>1, <1>3, <1>6, <2>1, FeedFacts, FrameGoes
<1> QED BY <1>4, <1>5, <1>6 DEF WriteHeld

LEMMA OtherFeedSteps ==
    ASSUME FeedInv, dial \/ Wait \/ Close \/ Breaks \/ PumpEnds
    PROVE  FeedInv'
<1>0. /\ UNCHANGED <<events, queue, dropped, got>>
      /\ pump.pc = "write" <=> pump.held # 0
  BY DEF dial, Wait, Close, Breaks, PumpEnds, FeedInv
<1>1. CASE dial \/ PumpEnds
  <2>1. pump.held = 0
    BY <1>0, <1>1 DEF dial, PumpEnds
  <2>2. pump' \in PumpOf /\ pump'.held = 0 /\ pump'.pc # "write"
    <3>1. PICK n \in Nat, b \in Nat :
            \/ pump' = [pump EXCEPT !.pc = "hello", !.dead = FALSE, !.dials = n, !.backoff = b]
            \/ pump' = [pump EXCEPT !.pc = "off", !.dials = n]
            \/ pump' = [pump EXCEPT !.pc = "off", !.held = 0]
      <4>1. pump.dials + 1 \in Nat /\ BackoffInit \in Nat
        BY FeedFacts, FeedAssumption DEF PumpOf
      <4> QED BY <1>1, <4>1 DEF dial, PumpEnds, Ends
    <3> QED BY <2>1, <3>1, FeedFacts, ZenonT(40) DEF PumpOf
  <2> QED BY <1>0, <2>1, <2>2, PumpMoves
<1>2. CASE Wait
  <2> DEFINE next == IF pump.backoff < BackoffMax THEN 2 * pump.backoff ELSE pump.backoff
  <2>1. pump.held = 0 /\ next \in Nat /\ pump.backoff \in Nat
    BY <1>0, <1>2, FeedFacts DEF Wait, PumpOf
  <2>2. \/ pump' = [pump EXCEPT !.pc = "over"]
        \/ pump' = [pump EXCEPT !.pc = "dial", !.slept = pump.backoff, !.backoff = next]
    BY <1>2, FeedFacts DEF Wait, PumpOf
  <2> HIDE DEF next
  <2>3. pump' \in PumpOf /\ pump'.held = 0 /\ pump'.pc # "write"
    BY <2>1, <2>2, FeedFacts DEF PumpOf
  <2> QED BY <1>0, <2>1, <2>3, PumpMoves
<1>3. CASE Close \/ Breaks
  <2>1. /\ pump' \in PumpOf /\ pump'.held = pump.held /\ pump'.pc = pump.pc
    BY <1>3, FeedFacts DEF Close, Breaks, PumpOf
  <2> QED BY <1>0, <2>1, PumpMoves
<1> QED BY <1>1, <1>2, <1>3

\* The order of what has arrived, is in hand and waits, and what is counted.
THEOREM FeedInvariant == FeedSpec => []FeedInv
<1>1. FeedInit => FeedInv
  <2> SUFFICES ASSUME FeedInit PROVE FeedInv
    OBVIOUS
  <2>1. /\ got.event = <<>> /\ got.count = <<>> /\ queue = <<>> /\ events = <<>> /\ dropped = 0
        /\ got \in [event : Seq(Nat), count : Seq(Nat)]
    BY DEF FeedInit
  <2>2. pump \in PumpOf /\ pump.held = 0 /\ pump.pc = "dial"
    BY FeedAssumption DEF FeedInit, PumpOf
  <2>3. InLine
    BY <2>1, <2>2 DEF InLine
  <2>4. Counted
    BY <2>1, <2>2 DEF Counted, Rising
  <2> QED BY <2>1, <2>2, <2>3, <2>4 DEF FeedInv, FeedTypes
<1>2. FeedInv /\ [FeedNext]_mvars => FeedInv'
  <2> SUFFICES ASSUME FeedInv, [FeedNext]_mvars PROVE FeedInv'
    OBVIOUS
  <2>1. CASE UNCHANGED mvars
    BY <2>1 DEF mvars, FeedInv, FeedTypes, InLine, Counted
  <2> QED BY <2>1, EmitStep, ReportStep, TakeStep, WriteStep, OtherFeedSteps DEF FeedNext
<1> QED BY <1>1, <1>2, PTL DEF FeedSpec

\* Over every connection the receiver gets events in their order and none twice,
\* and is told of no more that was dropped than it misses (monitor.go: Emit,
\* pump, write).
THEOREM FeedKeepsOrder == FeedSpec => []FeedInOrder
<1>1. FeedInv => FeedInOrder
  <2> SUFFICES ASSUME FeedInv PROVE FeedInOrder
    OBVIOUS
  <2>1. \A n \in 1 .. Len(got.event) - 1 : n \in 1 .. Len(got.event) /\ n + 1 \in 1 .. Len(got.event)
    BY FeedFacts
  <2>2. \A n \in 1 .. Len(got.count) - 1 : n \in 1 .. Len(got.count) /\ n + 1 \in 1 .. Len(got.count)
    BY FeedFacts
  <2>3. \A n \in 1 .. Len(got.event) - 1 : got.event[n] < got.event[n + 1]
    BY <2>1 DEF FeedInv, InLine
  <2>4. ASSUME NEW n \in 1 .. Len(got.count) - 1 PROVE got.count[n] <= got.count[n + 1]
    <3>1. n \in 1 .. Len(got.count) /\ n + 1 \in 1 .. Len(got.count) /\ n < n + 1
      BY <2>2, FeedFacts
    <3> QED BY <3>1 DEF FeedInv, Counted, Rising
  <2>5. dropped + Len(got.event) + Len(queue) <= Len(events)
    BY NumberFacts DEF FeedInv, Counted
  <2> QED BY <2>3, <2>4, <2>5 DEF FeedInOrder
<1> QED BY <1>1, FeedInvariant, PTL

=============================================================================
