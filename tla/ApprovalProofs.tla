--------------------------- MODULE ApprovalProofs ---------------------------
(***************************************************************************)
(* Approval is well typed, its tables agree with the audit log, and it     *)
(* implements Grants, for any number of calls, operators and authorization *)
(* numbers.                                                                *)
(***************************************************************************)
EXTENDS Approval, TLAPS

\* Every action changes one call at most; what it becomes is in ToolCall.
LEMMA DrawInId == Draw \subseteq Id \ asked
  BY DEF Draw

LEMMA ConstantRecords ==
    /\ Idle \in ToolCall /\ NoMark \in Mark
    /\ Resting \in Settling
  BY ApprovalAssumption DEF Idle, ToolCall, NoMark, Mark, Resting, Settling,
     MaybeId

LEMMA GotoTyped ==
    ASSUME TypeOK, NEW c \in Call,
           NEW pc \in {"idle", "look", "consume", "clear", "spent", "claim",
                       "prompt", "file", "wait", "clean", "remember", "run",
                       "rerun"},
           Goto(c, pc)
    PROVE  call' \in [Call -> ToolCall]
<1>1. [call[c] EXCEPT !.pc = pc] \in ToolCall
  BY DEF TypeOK, ToolCall
<1>. QED BY <1>1 DEF TypeOK, Goto

LEMMA NumberedTyped ==
    ASSUME NEW k \in ToolCall, NEW i \in MaybeId,
           NEW pc \in {"prompt", "consume", "remember", "run", "wait"}
    PROVE  /\ [k EXCEPT !.id = i, !.pc = pc] \in ToolCall
           /\ [k EXCEPT !.pc = pc, !.id = i] \in ToolCall
  BY DEF ToolCall

LEMMA ReturnTyped ==
    ASSUME TypeOK, NEW c \in Call, Return(c)
    PROVE  call' \in [Call -> ToolCall]
  BY ConstantRecords DEF TypeOK, Return

LEMMA EnterTyped ==
    ASSUME TypeOK, NEW c \in Call, NEW input \in ToolCall, Enter(c, input)
    PROVE  call' \in [Call -> ToolCall]
<1>1. [Idle EXCEPT !.pc = "rerun", !.id = remembered] \in ToolCall
  BY DEF TypeOK, Idle, ToolCall
<1>. QED BY <1>1 DEF TypeOK, Enter

-----------------------------------------------------------------------------
LEMMA TypeInit == Init => TypeOK
<1> SUFFICES ASSUME Init PROVE TypeOK
  OBVIOUS
<1>1. via \in {"llm", "elicit", "local"} /\ ended \in BOOLEAN
  BY ApprovalAssumption DEF Init
<1>6. clock \in 0..MaxTime
  BY ApprovalAssumption DEF Init
<1>2. remembered \in MaybeId /\ pending \in Mark /\ spent \in Mark
  BY ConstantRecords DEF Init, MaybeId
<1>3. call \in [Call -> ToolCall] /\ operator \in [Operator -> Settling]
  BY ConstantRecords DEF Init
<1>4. files \in [Id -> SUBSET Suffix] /\ asked \subseteq Id
        /\ runs \in [Id -> 0..2]
  BY DEF Init
<1>5. verdict \in [Id -> {"open", "approved", "confirmed", "denied",
                          "timeout"}]
  BY DEF Init
<1>. QED BY <1>1, <1>2, <1>3, <1>4, <1>5, <1>6 DEF TypeOK

LEMMA TypeNext == TypeOK /\ [Next]_vars => TypeOK'
<1> SUFFICES ASSUME TypeOK, [Next]_vars PROVE TypeOK'
  OBVIOUS
<1> USE ApprovalAssumption
<1>1. ASSUME NEW c \in Call, Begin(c) PROVE TypeOK'
  <2>1. PICK confirmed \in BOOLEAN, remember \in BOOLEAN :
          Enter(c, [Idle EXCEPT !.pc = "look", !.confirmed = confirmed,
                                !.remember = remember])
    BY <1>1 DEF Begin
  <2>2. [Idle EXCEPT !.pc = "look", !.confirmed = confirmed,
                     !.remember = remember] \in ToolCall
    BY DEF Idle, ToolCall, MaybeId
  <2>3. call' \in [Call -> ToolCall]
    BY <2>1, <2>2, EnterTyped
  <2>. QED BY <1>1, <2>3 DEF Begin, TypeOK, tables, local, history
<1>2. ASSUME NEW c \in Call, Answer(c) PROVE TypeOK'
  <2>1. PICK yes \in BOOLEAN, remember \in BOOLEAN :
          Enter(c, [Idle EXCEPT !.pc = "look",
                                !.answer = IF yes THEN "yes" ELSE "no",
                                !.remember = remember])
    BY <1>2 DEF Answer
  <2>2. [Idle EXCEPT !.pc = "look", !.answer = IF yes THEN "yes" ELSE "no",
                     !.remember = remember] \in ToolCall
    BY DEF Idle, ToolCall, MaybeId
  <2>3. call' \in [Call -> ToolCall]
    BY <2>1, <2>2, EnterTyped
  <2>. QED BY <1>2, <2>3 DEF Answer, TypeOK, tables, local, history
<1>3. ASSUME NEW c \in Call, Dismiss(c) PROVE TypeOK'
  BY <1>3, ReturnTyped DEF Dismiss, TypeOK, tables, local, history
<1>4. ASSUME NEW c \in Call, Look(c) PROVE TypeOK'
  <2>1. \A pc \in {"prompt", "consume"} :
          [call[c] EXCEPT !.id = pending.id, !.pc = pc] \in ToolCall
    BY NumberedTyped DEF TypeOK, Mark
  <2>2. call' \in [Call -> ToolCall]
    <3>1. CASE Return(c) BY <3>1, ReturnTyped
    <3>2. CASE Goto(c, "clear") BY <3>2, GotoTyped
    <3>3. CASE Goto(c, CASE via = "llm" -> "spent"
                         [] via = "elicit" -> "claim"
                         [] via = "local" -> "file")
      BY <3>3, GotoTyped DEF TypeOK
    <3>4. CASE call' = [call EXCEPT
                    ![c].id = pending.id,
                    ![c].pc = IF call[c].answer = "none" /\ via = "elicit"
                              THEN "prompt" ELSE "consume"]
      <4>1. call' = [call EXCEPT ![c] = [call[c] EXCEPT
                        !.id = pending.id,
                        !.pc = IF call[c].answer = "none" /\ via = "elicit"
                               THEN "prompt" ELSE "consume"]]
        BY <3>4 DEF TypeOK
      <4>. QED BY <4>1, <2>1 DEF TypeOK
    <3>. QED BY <1>4, <3>1, <3>2, <3>3, <3>4 DEF Look
  <2>. QED BY <1>4, <2>2 DEF Look, TypeOK, tables, local, history
<1>5. ASSUME NEW c \in Call, Consume(c) PROVE TypeOK'
  <2>1. CASE pending = NoMark
    BY <1>5, <2>1, ReturnTyped DEF Consume, TypeOK, tables, local
  <2>2. CASE pending # NoMark
    <3> DEFINE result == CASE call[c].answer = "yes" -> "approved"
                           [] call[c].answer = "no" -> "denied"
                           [] call[c].answer = "none" -> "confirmed"
    <3>1. result \in {"approved", "denied", "confirmed"}
      BY DEF TypeOK, ToolCall
    <3>2. Take(c, pending, result) /\ UNCHANGED <<via, clock, ended, local,
                                                  asked, runs, remembered>>
      BY <1>5, <2>2 DEF Consume
    <3> HIDE DEF result
    <3>3. verdict' \in [Id -> {"open", "approved", "confirmed", "denied",
                               "timeout"}]
      BY <3>1, <3>2 DEF Take, TypeOK
    <3>4. pending' \in Mark /\ spent' \in Mark
      BY <3>2, ConstantRecords DEF Take, TypeOK
    <3>5. \A pc \in {"remember", "run"} :
            [call[c] EXCEPT !.id = pending.id, !.pc = pc] \in ToolCall
      BY NumberedTyped DEF TypeOK, Mark
    <3>6. call' \in [Call -> ToolCall]
      <4>1. CASE result = "denied"
        BY <3>2, <4>1, ReturnTyped DEF Take
      <4>2. CASE result # "denied"
        <5>1. call' = [call EXCEPT ![c] = [call[c] EXCEPT
                !.id = pending.id,
                !.pc = IF call[c].remember THEN "remember" ELSE "run"]]
          BY <3>2, <4>2 DEF Take, TypeOK
        <5>. QED BY <5>1, <3>5 DEF TypeOK
      <4>. QED BY <4>1, <4>2
    <3>. QED BY <3>2, <3>3, <3>4, <3>6 DEF TypeOK, local
  <2>. QED BY <2>1, <2>2
<1>6. ASSUME NEW c \in Call, Clear(c) PROVE TypeOK'
  <2>1. call' \in [Call -> ToolCall]
    BY <1>6, GotoTyped DEF Clear, TypeOK
  <2>. QED BY <1>6, <2>1, ConstantRecords DEF Clear, TypeOK, local, history
<1>7. ASSUME NEW c \in Call, SpentCheck(c) PROVE TypeOK'
  <2>1. call' \in [Call -> ToolCall]
    BY <1>7, GotoTyped, ReturnTyped DEF SpentCheck
  <2>. QED BY <1>7, <2>1 DEF SpentCheck, TypeOK, tables, local, history
<1>8. ASSUME NEW c \in Call, Claim(c) PROVE TypeOK'
  <2>1. pending' \in Mark /\ asked' \subseteq Id
    BY <1>8, DrawInId DEF Claim, TypeOK, Mark, MaybeId
  <2>2. [Idle EXCEPT !.pc = "prompt", !.id = pending'.id] \in ToolCall
    BY <2>1 DEF Mark, Idle, ToolCall
  <2>3. call' \in [Call -> ToolCall]
    BY <1>8, <2>2, ConstantRecords DEF Claim, TypeOK
  <2>. QED BY <1>8, <2>1, <2>3 DEF Claim, TypeOK, local
<1>9. ASSUME NEW c \in Call, WriteRequest(c) PROVE TypeOK'
  <2>1. PICK i \in Draw :
          /\ asked' = asked \cup {i}
          /\ \/ /\ files' = [files EXCEPT ![i] = {"json"}]
                /\ call' = [call EXCEPT ![c].pc = "wait", ![c].id = i]
             \/ UNCHANGED files /\ Return(c)
    BY <1>9 DEF WriteRequest
  <2>2. i \in Id /\ asked' \subseteq Id /\ files' \in [Id -> SUBSET Suffix]
    BY <2>1, DrawInId DEF TypeOK, Suffix
  <2>3. [call[c] EXCEPT !.pc = "wait", !.id = i] \in ToolCall
    BY <2>2, NumberedTyped DEF TypeOK, MaybeId
  <2>4. call' \in [Call -> ToolCall]
    <3>1. CASE call' = [call EXCEPT ![c].pc = "wait", ![c].id = i]
      <4>1. call' = [call EXCEPT ![c] = [call[c] EXCEPT !.pc = "wait",
                                                         !.id = i]]
        BY <3>1 DEF TypeOK
      <4>. QED BY <4>1, <2>3 DEF TypeOK
    <3>2. CASE Return(c) BY <3>2, ReturnTyped
    <3>. QED BY <2>1, <3>1, <3>2
  <2>. QED BY <1>9, <2>2, <2>4 DEF WriteRequest, TypeOK, tables
<1>10. ASSUME NEW c \in Call, Poll(c) PROVE TypeOK'
  <2>1. verdict' \in [Id -> {"open", "approved", "confirmed", "denied",
                             "timeout"}]
    BY <1>10 DEF Poll, TypeOK
  <2>2. \A b \in BOOLEAN :
          [call[c] EXCEPT !.pc = "clean", !.remember = b] \in ToolCall
    BY ZenonT(40) DEF TypeOK, ToolCall
  <2>3. call' \in [Call -> ToolCall]
    <3>1. CASE "approved" \in files[call[c].id]
      <4>1. call' = [call EXCEPT ![c] = [call[c] EXCEPT !.pc = "clean",
                        !.remember = "remember" \in files[call[c].id]]]
        BY <1>10, <3>1 DEF Poll, TypeOK
      <4> DEFINE b == "remember" \in files[call[c].id]
      <4>2. b \in BOOLEAN OBVIOUS
      <4>3. call' = [call EXCEPT ![c] = [call[c] EXCEPT !.pc = "clean",
                                                         !.remember = b]]
        BY <4>1
      <4> HIDE DEF b
      <4>4. [call[c] EXCEPT !.pc = "clean", !.remember = b] \in ToolCall
        BY <4>2, <2>2
      <4>. QED BY <4>3, <4>4 DEF TypeOK
    <3>2. CASE "approved" \notin files[call[c].id]
      <4>1. Goto(c, "clean") BY <1>10, <3>2 DEF Poll
      <4>. QED BY <4>1, GotoTyped
    <3>. QED BY <3>1, <3>2
  <2>. QED BY <1>10, <2>1, <2>3 DEF Poll, TypeOK, tables, local
<1>11. ASSUME NEW c \in Call, GiveUp(c) PROVE TypeOK'
  <2>1. call' \in [Call -> ToolCall]
    BY <1>11, GotoTyped DEF GiveUp
  <2>. QED BY <1>11, <2>1 DEF GiveUp, TypeOK, tables, local
<1>12. ASSUME NEW c \in Call, CleanUp(c) PROVE TypeOK'
  <2>1. call' \in [Call -> ToolCall]
    BY <1>12, GotoTyped, ReturnTyped DEF CleanUp
  <2>. QED BY <1>12, <2>1 DEF CleanUp, TypeOK, tables, history
<1>13. ASSUME NEW c \in Call, Remember(c) PROVE TypeOK'
  <2>1. call' \in [Call -> ToolCall]
    BY <1>13, GotoTyped DEF Remember
  <2>. QED BY <1>13, <2>1 DEF Remember, TypeOK, ToolCall, local, history
<1>14. ASSUME NEW c \in Call, Run(c) PROVE TypeOK'
  <2>1. runs' \in [Id -> 0..2]
    <3>1. \A n \in 0..2 : (IF n < 2 THEN n + 1 ELSE n) \in 0..2
      OBVIOUS
    <3>. QED BY <1>14, <3>1 DEF Run, TypeOK
  <2>. QED BY <1>14, <2>1, ReturnTyped DEF Run, TypeOK, tables, local
<1>15. ASSUME NEW c \in Call, Rerun(c) PROVE TypeOK'
  BY <1>15, ReturnTyped DEF Rerun, TypeOK, tables, local, history
<1>16. ASSUME NEW o \in Operator, FindRequest(o) PROVE TypeOK'
  BY <1>16 DEF FindRequest, TypeOK, Settling, MaybeId, tables, history
<1>17. ASSUME NEW o \in Operator, WriteRemember(o) PROVE TypeOK'
  <2>1. files' \in [Id -> SUBSET Suffix]
    BY <1>17 DEF WriteRemember, TypeOK, Suffix
  <2>2. operator' \in [Operator -> Settling]
    BY <1>17 DEF WriteRemember, TypeOK, Settling
  <2>. QED BY <1>17, <2>1, <2>2 DEF WriteRemember, TypeOK, tables, history
<1>18. ASSUME NEW o \in Operator, WriteAnswer(o) PROVE TypeOK'
  <2>1. files' \in [Id -> SUBSET Suffix]
    BY <1>18 DEF WriteAnswer, TypeOK, Suffix, Settling
  <2>2. operator' \in [Operator -> Settling]
    BY <1>18 DEF WriteAnswer, TypeOK, Settling, Resting, MaybeId
  <2>. QED BY <1>18, <2>1, <2>2 DEF WriteAnswer, TypeOK, tables, history
<1>19. ASSUME Tick PROVE TypeOK'
  BY <1>19 DEF Tick, TypeOK, tables, local, history
<1>20. ASSUME EndSession PROVE TypeOK'
  BY <1>20, ConstantRecords DEF EndSession, TypeOK, MaybeId, local, history
<1>21. CASE UNCHANGED vars
  BY <1>21 DEF vars, TypeOK
<1>. QED
  BY <1>1, <1>2, <1>3, <1>4, <1>5, <1>6, <1>7, <1>8, <1>9, <1>10, <1>11,
     <1>12, <1>13, <1>14, <1>15, <1>16, <1>17, <1>18, <1>19, <1>20, <1>21
  DEF Next, Step

\* Every reachable state is well typed: tables hold marks, calls are at places
\* of approve() and its callers (approval.go).
THEOREM TypeCorrect == Spec => []TypeOK
  BY TypeInit, TypeNext, PTL DEF Spec

-----------------------------------------------------------------------------
(* The inductive invariant.  A call that asked a local question or took a  *)
(* mark owns its number until the operation has run: the number has not    *)
(* been used, no other call owns it, and it is not the marked one.  This   *)
(* is what two critical sections that interleave could break, and what the *)
(* removal of the mark inside consumePending's section establishes.        *)

Owner    == {"wait", "clean", "remember", "run"}
Positive == {"approved", "confirmed"}

NumberFits(i) ==
    /\ i \notin asked => verdict[i] = "open"
    /\ verdict[i] = "open" => runs[i] = 0

CallFits(k) ==
    /\ k.pc \in Owner =>
        k.id \in asked /\ runs[k.id] = 0 /\ k.id # pending.id
    /\ k.pc = "wait" => verdict[k.id] = "open"
    /\ k.pc = "clean" => verdict[k.id] # "open"
    /\ k.pc \in {"remember", "run", "rerun"} =>
        k.id \in Id /\ verdict[k.id] \in Positive
    /\ via = "llm" => k.answer = "none" /\ k.pc # "prompt"

Apart ==
    \A c, d \in Call :
        c # d /\ call[c].pc \in Owner /\ call[d].pc \in Owner
            => call[c].id # call[d].id

MarksFit ==
    /\ pending # NoMark =>
        pending.id \in asked /\ verdict[pending.id] = "open"
    /\ spent # NoMark => spent.id \in Id /\ verdict[spent.id] = "confirmed"
    /\ remembered # NoId => verdict[remembered] \in Positive

IInv ==
    /\ TypeOK
    /\ \A i \in Id : NumberFits(i)
    /\ \A c \in Call : CallFits(call[c])
    /\ Apart
    /\ MarksFit

LEMMA InvInit == Init => IInv
<1> SUFFICES ASSUME Init PROVE IInv
  OBVIOUS
<1>1. TypeOK
  BY TypeInit
<1>2. \A i \in Id : NumberFits(i)
  BY DEF Init, NumberFits
<1>3. \A c \in Call : call[c].pc = "idle" /\ call[c].answer = "none"
  BY DEF Init, Idle
<1>4. (\A c \in Call : CallFits(call[c])) /\ Apart
  BY <1>3 DEF CallFits, Apart, Owner
<1>5. MarksFit
  BY DEF Init, MarksFit
<1>. QED BY <1>1, <1>2, <1>4, <1>5 DEF IInv

\* A call moves to a place where it owns nothing; marks may go.
LEMMA Quiet ==
    ASSUME IInv, TypeOK', NEW c \in Call, NEW k \in ToolCall,
           call' = [call EXCEPT ![c] = k], k.pc \notin Owner,
           k.pc = "rerun" => k.id \in Id /\ verdict[k.id] \in Positive,
           via = "llm" => k.answer = "none" /\ k.pc # "prompt",
           UNCHANGED <<via, asked, verdict, runs, remembered, spent>>,
           pending' \in {pending, NoMark}
    PROVE  IInv'
<1>1. \A d \in Call : call'[d] = IF d = c THEN k ELSE call[d]
  BY DEF IInv, TypeOK
<1>2. \A i \in Id : NumberFits(i)'
  BY DEF IInv, NumberFits
<1>3. CallFits(k)'
  BY DEF CallFits, Owner
<1>4. ASSUME NEW d \in Call PROVE CallFits(call[d])'
  <2>1. CASE d = c BY <1>1, <1>3, <2>1 DEF CallFits
  <2>2. CASE d # c
    <3>1. CallFits(call[d]) /\ call'[d] = call[d]
      BY <1>1, <2>2 DEF IInv
    <3>2. asked \subseteq Id /\ NoId \notin Id
      BY ApprovalAssumption DEF IInv, TypeOK
    <3>3. call[d].pc \in Owner => call[d].id # pending'.id
      BY <3>1, <3>2 DEF CallFits, NoMark
    <3>. QED BY <3>1, <3>3 DEF CallFits
  <2>. QED BY <2>1, <2>2
<1>5. Apart'
  BY <1>1 DEF IInv, Apart
<1>6. MarksFit'
  BY DEF IInv, MarksFit, NoMark
<1>. QED BY <1>2, <1>4, <1>5, <1>6 DEF IInv

\* Goto, Return and Enter as one update of the call's record.
LEMMA MovesAre ==
    ASSUME TypeOK, NEW c \in Call
    PROVE  /\ \A pc : Goto(c, pc) =>
                call' = [call EXCEPT ![c] = [call[c] EXCEPT !.pc = pc]]
           /\ Return(c) => call' = [call EXCEPT ![c] = Idle]
  BY DEF TypeOK, Goto, Return

\* What an owner's record becomes keeps its number and its answer.
LEMMA OwnerTyped ==
    ASSUME NEW k \in ToolCall, NEW pc \in {"clean", "remember", "run"},
           NEW b \in BOOLEAN
    PROVE  /\ [k EXCEPT !.pc = pc] \in ToolCall
           /\ [k EXCEPT !.pc = pc].pc = pc
           /\ [k EXCEPT !.pc = pc].id = k.id
           /\ [k EXCEPT !.pc = pc].answer = k.answer
           /\ [k EXCEPT !.pc = pc, !.remember = b] \in ToolCall
  BY DEF ToolCall

LEMMA QuietReturn ==
    ASSUME IInv, TypeOK', NEW c \in Call, Return(c),
           UNCHANGED <<via, asked, verdict, runs, remembered, spent>>,
           pending' \in {pending, NoMark}
    PROVE  IInv'
<1>1. Idle \in ToolCall /\ Idle.pc \notin Owner /\ Idle.pc # "rerun"
        /\ Idle.answer = "none" /\ Idle.pc # "prompt"
  BY ConstantRecords DEF Idle, Owner
<1>2. call' = [call EXCEPT ![c] = Idle]
  BY MovesAre DEF IInv
<1>. QED BY <1>1, <1>2, Quiet

LEMMA QuietGoto ==
    ASSUME IInv, TypeOK', NEW c \in Call,
           NEW pc \in {"consume", "spent", "claim", "clear", "file"},
           Goto(c, pc),
           UNCHANGED <<via, asked, verdict, runs, remembered, spent>>,
           pending' \in {pending, NoMark}
    PROVE  IInv'
<1> DEFINE k == [call[c] EXCEPT !.pc = pc]
<1>1. k \in ToolCall /\ k.pc = pc /\ k.answer = call[c].answer
  BY DEF IInv, TypeOK, ToolCall
<1>2. call' = [call EXCEPT ![c] = k]
  BY MovesAre DEF IInv
<1>3. via = "llm" => k.answer = "none"
  BY <1>1 DEF IInv, CallFits
<1> HIDE DEF k
<1>4. pc \notin Owner
  BY DEF Owner
<1>. QED BY <1>1, <1>2, <1>3, <1>4, Quiet

\* A call is entered: it looks, or it runs under the remembered number.
LEMMA QuietEnter ==
    ASSUME IInv, TypeOK', NEW c \in Call, NEW k \in ToolCall,
           Enter(c, k), k.pc = "look", via = "llm" => k.answer = "none",
           UNCHANGED <<via, asked, verdict, runs, tables>>
    PROVE  IInv'
<1>1. CASE remembered # NoId
  <2> DEFINE r == [Idle EXCEPT !.pc = "rerun", !.id = remembered]
  <2>1. r \in ToolCall /\ r.pc = "rerun" /\ r.id = remembered
          /\ r.answer = "none"
    BY DEF IInv, TypeOK, Idle, ToolCall
  <2>2. call' = [call EXCEPT ![c] = r]
    BY <1>1 DEF Enter
  <2>3. r.id \in Id /\ verdict[r.id] \in Positive
    BY <1>1, <2>1 DEF IInv, MarksFit, TypeOK, MaybeId
  <2> HIDE DEF r
  <2>. QED BY <2>1, <2>2, <2>3, Quiet DEF tables, Owner
<1>2. CASE remembered = NoId
  BY <1>2, Quiet DEF Enter, tables, Owner
<1>. QED BY <1>1, <1>2

\* An owner keeps its number; its question may be answered on the way.
LEMMA OwnerMoves ==
    ASSUME IInv, TypeOK', NEW c \in Call, NEW k \in ToolCall,
           call' = [call EXCEPT ![c] = k], call[c].pc \in Owner,
           k.pc \in {"clean", "remember", "run"},
           k.id = call[c].id, k.answer = call[c].answer,
           \/ /\ call[c].pc = "wait" /\ k.pc = "clean"
              /\ \E v \in {"approved", "denied", "timeout"} :
                    verdict' = [verdict EXCEPT ![k.id] = v]
           \/ /\ call[c].pc # "wait" /\ UNCHANGED verdict
              /\ verdict[k.id] \in Positive,
           UNCHANGED <<via, asked, runs, pending, spent>>,
           remembered' # NoId =>
                remembered' = remembered \/
                (remembered' = k.id /\ verdict[k.id] \in Positive)
    PROVE  IInv'
<1>1. \A d \in Call : call'[d] = IF d = c THEN k ELSE call[d]
  BY DEF IInv, TypeOK
<1>2. /\ k.id \in asked /\ k.id \in Id /\ runs[k.id] = 0
      /\ k.id # pending.id /\ CallFits(call[c])
      /\ call[c].pc = "wait" => verdict[k.id] = "open"
  BY DEF IInv, CallFits, TypeOK
<1>3. \A i \in Id : i # k.id => verdict'[i] = verdict[i]
  BY DEF IInv, TypeOK
<1>4. /\ verdict'[k.id] # "open"
      /\ k.pc \in {"remember", "run"} => verdict'[k.id] \in Positive
      /\ verdict[k.id] \in Positive => verdict'[k.id] = verdict[k.id]
  BY <1>2 DEF IInv, TypeOK, Positive
<1>5. \A i \in Id : NumberFits(i)'
  BY <1>2, <1>3, <1>4 DEF IInv, NumberFits
<1>6. CallFits(k)'
  BY <1>2, <1>4 DEF CallFits, Owner
<1>7. ASSUME NEW d \in Call PROVE CallFits(call[d])'
  <2>1. CASE d = c BY <1>1, <1>6, <2>1 DEF CallFits
  <2>2. CASE d # c
    <3>1. CallFits(call[d]) /\ call'[d] = call[d]
      BY <1>1, <2>2 DEF IInv
    <3>2. call[d].pc \in Owner => call[d].id # k.id /\ call[d].id \in Id
      BY <2>2 DEF IInv, Apart, CallFits, TypeOK
    <3>3. call[d].pc \in {"wait", "clean"} =>
            verdict'[call[d].id] = verdict[call[d].id]
      BY <3>2, <1>3 DEF Owner
    <3>4. call[d].pc \in {"remember", "run", "rerun"} =>
            verdict'[call[d].id] = verdict[call[d].id]
      BY <3>1, <1>3, <1>4 DEF CallFits
    <3>. QED BY <3>1, <3>3, <3>4 DEF CallFits
  <2>. QED BY <2>1, <2>2
<1>8. Apart'
  BY <1>1 DEF IInv, Apart
<1>9. MarksFit'
  <2>1. pending # NoMark => verdict'[pending.id] = "open"
    BY <1>2, <1>3 DEF IInv, MarksFit, TypeOK
  <2>2. spent # NoMark => verdict'[spent.id] = "confirmed"
    BY <1>3, <1>4 DEF IInv, MarksFit, Positive
  <2>3. remembered' # NoId => verdict'[remembered'] \in Positive
    BY <1>3, <1>4 DEF IInv, MarksFit, TypeOK, MaybeId
  <2>. QED BY <2>1, <2>2, <2>3 DEF IInv, MarksFit
<1>. QED BY <1>5, <1>7, <1>8, <1>9 DEF IInv

LEMMA InvNext == IInv /\ [Next]_vars => IInv'
<1> SUFFICES ASSUME IInv, [Next]_vars PROVE IInv'
  OBVIOUS
<1>0. TypeOK /\ TypeOK'
  BY TypeNext DEF IInv
<1>1. ASSUME NEW c \in Call, Begin(c) PROVE IInv'
  <2>1. PICK confirmed \in BOOLEAN, remember \in BOOLEAN :
          Enter(c, [Idle EXCEPT !.pc = "look", !.confirmed = confirmed,
                                !.remember = remember])
    BY <1>1 DEF Begin
  <2> DEFINE k == [Idle EXCEPT !.pc = "look", !.confirmed = confirmed,
                               !.remember = remember]
  <2>2. k \in ToolCall /\ k.pc = "look" /\ k.answer = "none"
    BY DEF Idle, ToolCall, MaybeId
  <2>3. Enter(c, k)
    BY <2>1
  <2> HIDE DEF k
  <2>. QED BY <1>0, <1>1, <2>2, <2>3, QuietEnter DEF Begin, history
<1>2. ASSUME NEW c \in Call, Answer(c) PROVE IInv'
  <2>1. PICK yes \in BOOLEAN, remember \in BOOLEAN :
          Enter(c, [Idle EXCEPT !.pc = "look",
                                !.answer = IF yes THEN "yes" ELSE "no",
                                !.remember = remember])
    BY <1>2 DEF Answer
  <2> DEFINE k == [Idle EXCEPT !.pc = "look",
                               !.answer = IF yes THEN "yes" ELSE "no",
                               !.remember = remember]
  <2>2. k \in ToolCall /\ k.pc = "look"
    BY DEF Idle, ToolCall, MaybeId
  <2>3. Enter(c, k)
    BY <2>1
  <2>4. via # "llm"
    BY <1>2 DEF Answer, IInv, CallFits
  <2> HIDE DEF k
  <2>. QED BY <1>0, <1>2, <2>2, <2>3, <2>4, QuietEnter DEF Answer, history
<1>3. ASSUME NEW c \in Call, Dismiss(c) PROVE IInv'
  BY <1>0, <1>3, QuietReturn DEF Dismiss, tables, history
<1>4. ASSUME NEW c \in Call, Look(c) PROVE IInv'
  <2>1. UNCHANGED <<via, asked, verdict, runs, tables>>
    BY <1>4 DEF Look, history
  <2>2. CASE Return(c)
    BY <1>0, <2>1, <2>2, QuietReturn DEF tables
  <2>3. CASE \E pc \in {"clear", "spent", "claim", "file"} : Goto(c, pc)
    BY <1>0, <2>1, <2>3, QuietGoto DEF tables
  <2>4. CASE call' = [call EXCEPT
                  ![c].id = pending.id,
                  ![c].pc = IF call[c].answer = "none" /\ via = "elicit"
                            THEN "prompt" ELSE "consume"]
    <3> DEFINE k == [call[c] EXCEPT
                  !.id = pending.id,
                  !.pc = IF call[c].answer = "none" /\ via = "elicit"
                         THEN "prompt" ELSE "consume"]
    <3>1. call' = [call EXCEPT ![c] = k]
      BY <1>0, <2>4 DEF TypeOK
    <3>2. k \in ToolCall
      BY <1>0, NumberedTyped DEF TypeOK, Mark
    <3>3. /\ k.answer = call[c].answer
          /\ k.pc \in {"prompt", "consume"}
          /\ k.pc = "prompt" => via = "elicit"
      BY <1>0 DEF TypeOK, ToolCall
    <3> HIDE DEF k
    <3>4. via = "llm" => k.answer = "none" /\ k.pc # "prompt"
      BY <3>3 DEF IInv, CallFits
    <3>. QED BY <1>0, <2>1, <3>1, <3>2, <3>3, <3>4, Quiet DEF tables, Owner
  <2>5. Goto(c, CASE via = "llm" -> "spent"
                  [] via = "elicit" -> "claim"
                  [] via = "local" -> "file")
          => \E pc \in {"clear", "spent", "claim", "file"} : Goto(c, pc)
    BY <1>0 DEF TypeOK
  <2>. QED BY <1>4, <2>2, <2>3, <2>4, <2>5 DEF Look
<1>5. ASSUME NEW c \in Call, Consume(c) PROVE IInv'
  <2>1. CASE pending = NoMark
    BY <1>0, <1>5, <2>1, QuietReturn DEF Consume, tables
  <2>2. CASE pending # NoMark
    <3> DEFINE result == CASE call[c].answer = "yes" -> "approved"
                           [] call[c].answer = "no" -> "denied"
                           [] call[c].answer = "none" -> "confirmed"
    <3>1. result \in {"approved", "denied", "confirmed"}
      BY <1>0 DEF TypeOK, ToolCall
    <3>2. via = "llm" => result = "confirmed"
      BY DEF IInv, CallFits
    <3>3. Take(c, pending, result)
            /\ UNCHANGED <<via, asked, runs, remembered>>
      BY <1>5, <2>2 DEF Consume
    <3> HIDE DEF result
    <3>4. /\ pending.id \in Id /\ pending.id \in asked
          /\ verdict[pending.id] = "open" /\ runs[pending.id] = 0
      BY <1>0, <2>2 DEF IInv, MarksFit, NumberFits, TypeOK
    <3>5. /\ pending' = NoMark
          /\ verdict' = [verdict EXCEPT ![pending.id] = result]
          /\ spent' = IF via = "llm" THEN pending ELSE spent
      BY <3>3 DEF Take
    <3>6. PICK k \in ToolCall :
            /\ call' = [call EXCEPT ![c] = k]
            /\ k.pc \in {"idle", "remember", "run"}
            /\ k.pc # "idle" => k.id = pending.id /\ result \in Positive
            /\ via = "llm" => k.answer = "none"
      <4>1. CASE result = "denied"
        <5>1. call' = [call EXCEPT ![c] = Idle]
          BY <3>3, <4>1 DEF Take, Return
        <5>. QED BY <5>1, ConstantRecords DEF Idle
      <4>2. CASE result # "denied"
        <5> DEFINE k == [call[c] EXCEPT
                !.id = pending.id,
                !.pc = IF call[c].remember THEN "remember" ELSE "run"]
        <5>1. call' = [call EXCEPT ![c] = k]
          BY <1>0, <3>3, <4>2 DEF Take, TypeOK
        <5>2. k \in ToolCall
          BY <1>0, NumberedTyped DEF TypeOK, Mark
        <5>3. /\ k.answer = call[c].answer /\ k.id = pending.id
              /\ k.pc \in {"remember", "run"}
          BY <1>0 DEF TypeOK, ToolCall
        <5>4. result \in Positive
          BY <3>1, <4>2 DEF Positive
        <5> HIDE DEF k
        <5>. QED BY <5>1, <5>2, <5>3, <5>4 DEF IInv, CallFits
      <4>. QED BY <4>1, <4>2
    <3>7. \A d \in Call : call'[d] = IF d = c THEN k ELSE call[d]
      BY <1>0, <3>6 DEF TypeOK
    <3>8. /\ \A i \in Id : i # pending.id => verdict'[i] = verdict[i]
          /\ verdict'[pending.id] = result
      BY <1>0, <3>4, <3>5 DEF TypeOK
    <3>9. \A i \in Id : NumberFits(i)'
      BY <3>1, <3>3, <3>4, <3>8 DEF IInv, NumberFits
    <3>10. NoId \notin asked
      BY <1>0, ApprovalAssumption DEF TypeOK
    <3>11. ASSUME NEW d \in Call PROVE CallFits(call[d])'
      <4>1. CASE d = c
        BY <3>3, <3>4, <3>5, <3>6, <3>7, <3>8, <3>10, <4>1
        DEF CallFits, Owner, NoMark
      <4>2. CASE d # c
        <5>1. CallFits(call[d]) /\ call'[d] = call[d]
          BY <3>7, <4>2 DEF IInv
        <5>2. call[d].pc \in Owner => verdict'[call[d].id]
                                        = verdict[call[d].id]
          BY <1>0, <3>8, <5>1 DEF CallFits, TypeOK
        <5>3. call[d].pc = "rerun" => verdict'[call[d].id]
                                        = verdict[call[d].id]
          BY <3>4, <3>8, <5>1 DEF CallFits, Positive
        <5>. QED BY <3>3, <3>5, <3>10, <5>1, <5>2, <5>3
             DEF CallFits, Owner, NoMark
      <4>. QED BY <4>1, <4>2
    <3>12. Apart'
      BY <3>6, <3>7 DEF IInv, Apart, CallFits, Owner
    <3>13. MarksFit'
      <4>1. spent' # NoMark => spent'.id \in Id
                                /\ verdict'[spent'.id] = "confirmed"
        BY <3>2, <3>4, <3>5, <3>8 DEF IInv, MarksFit
      <4>2. remembered' # NoId => verdict'[remembered'] \in Positive
        BY <1>0, <3>3, <3>4, <3>8
        DEF IInv, MarksFit, TypeOK, MaybeId, Positive
      <4>. QED BY <3>5, <4>1, <4>2 DEF MarksFit
    <3>. QED BY <1>0, <3>9, <3>11, <3>12, <3>13 DEF IInv
  <2>. QED BY <2>1, <2>2
<1>6. ASSUME NEW c \in Call, Clear(c) PROVE IInv'
  BY <1>0, <1>6, QuietGoto DEF Clear, history
<1>7. ASSUME NEW c \in Call, SpentCheck(c) PROVE IInv'
  BY <1>0, <1>7, QuietGoto, QuietReturn DEF SpentCheck, tables, history
<1>8. ASSUME NEW c \in Call, Claim(c) PROVE IInv'
  <2>1. PICK k \in ToolCall :
          /\ call' = [call EXCEPT ![c] = k]
          /\ k.pc \in {"idle", "prompt"} /\ k.answer = "none"
          /\ k.pc = "prompt" => via = "elicit"
    <3>1. pending'.id \in MaybeId
      BY <1>0 DEF TypeOK, Mark
    <3> DEFINE p == [Idle EXCEPT !.pc = "prompt", !.id = pending'.id]
    <3>2. p \in ToolCall /\ p.pc = "prompt" /\ p.answer = "none"
      BY <3>1 DEF Idle, ToolCall
    <3>3. call' = [call EXCEPT ![c] = IF via = "elicit" THEN p ELSE Idle]
      BY <1>8 DEF Claim
    <3> HIDE DEF p
    <3>. QED BY <3>2, <3>3, ConstantRecords DEF Idle
  <2>2. CASE Live(pending)
    <3>1. UNCHANGED <<via, asked, verdict, runs, remembered, spent, pending>>
      BY <1>8, <2>2 DEF Claim
    <3>. QED BY <1>0, <2>1, <3>1, Quiet DEF Owner
  <2>3. CASE ~Live(pending)
    <3>1. PICK i \in Draw : /\ pending' = [id |-> i, at |-> clock]
                            /\ asked' = asked \cup {i}
      BY <1>8, <2>3 DEF Claim
    <3>2. i \in Id /\ i \notin asked /\ verdict[i] = "open"
      BY <3>1, DrawInId DEF IInv, NumberFits
    <3>3. UNCHANGED <<via, verdict, runs, remembered, spent>>
      BY <1>8 DEF Claim
    <3>4. \A d \in Call : call'[d] = IF d = c THEN k ELSE call[d]
      BY <1>0, <2>1 DEF TypeOK
    <3>5. \A j \in Id : NumberFits(j)'
      BY <3>1, <3>3 DEF IInv, NumberFits
    <3>6. ASSUME NEW d \in Call PROVE CallFits(call[d])'
      <4>1. CASE d = c
        BY <2>1, <3>3, <3>4, <4>1 DEF CallFits, Owner
      <4>2. CASE d # c
        BY <3>1, <3>2, <3>3, <3>4, <4>2 DEF IInv, CallFits
      <4>. QED BY <4>1, <4>2
    <3>7. Apart'
      BY <2>1, <3>4 DEF IInv, Apart, Owner
    <3>8. MarksFit'
      BY <3>1, <3>2, <3>3 DEF IInv, MarksFit
    <3>. QED BY <1>0, <3>5, <3>6, <3>7, <3>8 DEF IInv
  <2>. QED BY <2>2, <2>3
<1>9. ASSUME NEW c \in Call, WriteRequest(c) PROVE IInv'
  <2>1. PICK i \in Draw :
          /\ asked' = asked \cup {i}
          /\ \/ call' = [call EXCEPT ![c].pc = "wait", ![c].id = i]
             \/ Return(c)
    BY <1>9 DEF WriteRequest
  <2>2. i \in Id /\ i \notin asked /\ verdict[i] = "open" /\ runs[i] = 0
    BY <2>1, DrawInId DEF IInv, NumberFits
  <2>3. UNCHANGED <<via, pending, spent, remembered, verdict, runs>>
    BY <1>9 DEF WriteRequest, tables
  <2>4. PICK k \in ToolCall :
          /\ call' = [call EXCEPT ![c] = k]
          /\ k.pc \in {"idle", "wait"}
          /\ k.pc = "wait" => k.id = i
          /\ via = "llm" => k.answer = "none"
    <3>1. CASE Return(c)
      BY <3>1, ConstantRecords DEF Return, Idle
    <3>2. CASE call' = [call EXCEPT ![c].pc = "wait", ![c].id = i]
      <4> DEFINE k == [call[c] EXCEPT !.pc = "wait", !.id = i]
      <4>1. call' = [call EXCEPT ![c] = k]
        BY <1>0, <3>2 DEF TypeOK
      <4>2. k \in ToolCall
        BY <1>0, <2>2, NumberedTyped DEF TypeOK, MaybeId
      <4>3. k.pc = "wait" /\ k.id = i /\ k.answer = call[c].answer
        BY <1>0 DEF TypeOK, ToolCall
      <4> HIDE DEF k
      <4>. QED BY <4>1, <4>2, <4>3 DEF IInv, CallFits
    <3>. QED BY <2>1, <3>1, <3>2
  <2>5. \A d \in Call : call'[d] = IF d = c THEN k ELSE call[d]
    BY <1>0, <2>4 DEF TypeOK
  <2>6. pending.id # i
    BY <1>0, <2>2, ApprovalAssumption DEF IInv, MarksFit, NoMark, TypeOK
  <2>7. \A j \in Id : NumberFits(j)'
    BY <2>1, <2>3 DEF IInv, NumberFits
  <2>8. ASSUME NEW d \in Call PROVE CallFits(call[d])'
    <3>1. CASE d = c
      BY <2>1, <2>2, <2>3, <2>4, <2>5, <2>6, <3>1 DEF CallFits, Owner
    <3>2. CASE d # c
      BY <2>1, <2>3, <2>5, <3>2 DEF IInv, CallFits
    <3>. QED BY <3>1, <3>2
  <2>9. Apart'
    BY <2>2, <2>4, <2>5 DEF IInv, Apart, CallFits, Owner
  <2>10. MarksFit'
    BY <2>1, <2>3 DEF IInv, MarksFit
  <2>. QED BY <1>0, <2>7, <2>8, <2>9, <2>10 DEF IInv
<1>10. ASSUME NEW c \in Call, Poll(c) PROVE IInv'
  <2>1. PICK v \in {"approved", "denied"}, b \in BOOLEAN :
          /\ verdict' = [verdict EXCEPT ![call[c].id] = v]
          /\ call' = [call EXCEPT ![c] = [call[c] EXCEPT !.pc = "clean",
                                                         !.remember = b]]
    <3>1. CASE "approved" \in files[call[c].id]
      <4> DEFINE b == "remember" \in files[call[c].id]
      <4>1. b \in BOOLEAN OBVIOUS
      <4>2. /\ verdict' = [verdict EXCEPT ![call[c].id] = "approved"]
            /\ call' = [call EXCEPT ![c] = [call[c] EXCEPT !.pc = "clean",
                                                           !.remember = b]]
        BY <1>0, <1>10, <3>1 DEF Poll, TypeOK
      <4> HIDE DEF b
      <4>. QED BY <4>1, <4>2
    <3>2. CASE "approved" \notin files[call[c].id]
      <4>1. /\ verdict' = [verdict EXCEPT ![call[c].id] = "denied"]
            /\ Goto(c, "clean")
        BY <1>10, <3>2 DEF Poll
      <4>2. call' = [call EXCEPT ![c] = [call[c] EXCEPT !.pc = "clean"]]
        BY <1>0, <4>1, MovesAre
      <4>3. [call[c] EXCEPT !.pc = "clean"]
              = [call[c] EXCEPT !.pc = "clean",
                                !.remember = call[c].remember]
            /\ call[c].remember \in BOOLEAN
        BY <1>0 DEF TypeOK, ToolCall
      <4>. QED BY <4>1, <4>2, <4>3
    <3>. QED BY <3>1, <3>2
  <2> DEFINE k == [call[c] EXCEPT !.pc = "clean", !.remember = b]
  <2>6. k \in ToolCall
    <3>1. call[c] \in ToolCall
      BY <1>0 DEF TypeOK
    <3>. QED BY <3>1, OwnerTyped
  <2>2. k.pc = "clean" /\ k.id = call[c].id /\ k.answer = call[c].answer
    BY <1>0 DEF TypeOK, ToolCall
  <2>3. call' = [call EXCEPT ![c] = k]
    BY <2>1
  <2> HIDE DEF k
  <2>4. call[c].pc = "wait" /\ UNCHANGED <<via, asked, runs, tables>>
    BY <1>10 DEF Poll
  <2>5. \E w \in {"approved", "denied", "timeout"} :
          verdict' = [verdict EXCEPT ![k.id] = w]
    BY <2>1, <2>2
  <2>. QED BY <1>0, <2>6, <2>2, <2>3, <2>4, <2>5, OwnerMoves DEF Owner, tables
<1>11. ASSUME NEW c \in Call, GiveUp(c) PROVE IInv'
  <2> DEFINE k == [call[c] EXCEPT !.pc = "clean"]
  <2>1. /\ k \in ToolCall /\ k.pc = "clean" /\ k.id = call[c].id
        /\ k.answer = call[c].answer
    BY <1>0, SMTT(40) DEF TypeOK, ToolCall
  <2>2. call' = [call EXCEPT ![c] = k]
    BY <1>0, <1>11, MovesAre DEF GiveUp
  <2> HIDE DEF k
  <2>3. call[c].pc = "wait" /\ UNCHANGED <<via, asked, runs, tables>>
          /\ verdict' = [verdict EXCEPT ![k.id] = "timeout"]
    BY <1>11, <2>1 DEF GiveUp
  <2>. QED BY <1>0, <2>1, <2>2, <2>3, OwnerMoves DEF Owner, tables
<1>12. ASSUME NEW c \in Call, CleanUp(c) PROVE IInv'
  <2>1. UNCHANGED <<via, asked, verdict, runs, tables>>
          /\ call[c].pc = "clean"
    BY <1>12 DEF CleanUp, history
  <2>2. CASE verdict[call[c].id] = "approved"
    <3>1. PICK pc \in {"remember", "run"} : Goto(c, pc)
      BY <1>12, <2>2 DEF CleanUp
    <3> DEFINE k == [call[c] EXCEPT !.pc = pc]
    <3>2. /\ k \in ToolCall /\ k.pc = pc /\ k.id = call[c].id
          /\ k.answer = call[c].answer
      <4>1. call[c] \in ToolCall /\ pc \in {"clean", "remember", "run"}
        BY <1>0 DEF TypeOK
      <4>2. [call[c] EXCEPT !.pc = pc] \in ToolCall
        BY <4>1, OwnerTyped
      <4>3. /\ [call[c] EXCEPT !.pc = pc].pc = pc
            /\ [call[c] EXCEPT !.pc = pc].id = call[c].id
            /\ [call[c] EXCEPT !.pc = pc].answer = call[c].answer
        BY <4>1, OwnerTyped
      <4>. QED BY <4>2, <4>3
    <3>3. call' = [call EXCEPT ![c] = k]
      BY <1>0, <3>1, MovesAre
    <3> HIDE DEF k
    <3>4. /\ k.pc \in {"clean", "remember", "run"}
          /\ call[c].pc \in Owner /\ call[c].pc # "wait"
          /\ verdict[k.id] \in Positive
      BY <2>1, <2>2, <3>2 DEF Positive, Owner
    <3>5. UNCHANGED <<via, asked, runs, pending, spent, verdict, remembered>>
      BY <2>1 DEF tables
    <3>6. k \in ToolCall /\ k.id = call[c].id /\ k.answer = call[c].answer
      BY <3>2
    <3>7. remembered' # NoId => remembered' = remembered
      BY <3>5
    <3>. QED BY <1>0, <3>3, <3>4, <3>5, <3>6, <3>7, OwnerMoves
  <2>3. CASE verdict[call[c].id] # "approved"
    BY <1>0, <1>12, <2>1, <2>3, QuietReturn DEF CleanUp, tables
  <2>. QED BY <2>2, <2>3
<1>13. ASSUME NEW c \in Call, Remember(c) PROVE IInv'
  <2> DEFINE k == [call[c] EXCEPT !.pc = "run"]
  <2>1. /\ k \in ToolCall /\ k.pc = "run" /\ k.id = call[c].id
        /\ k.answer = call[c].answer
    BY <1>0 DEF TypeOK, ToolCall
  <2>2. call' = [call EXCEPT ![c] = k]
    BY <1>0, <1>13, MovesAre DEF Remember
  <2> HIDE DEF k
  <2>3. /\ call[c].pc = "remember" /\ remembered' = k.id
        /\ UNCHANGED <<via, asked, verdict, runs, pending, spent>>
    BY <1>13, <2>1 DEF Remember, history
  <2>4. verdict[k.id] \in Positive
    BY <2>1, <2>3 DEF IInv, CallFits
  <2>. QED BY <1>0, <2>1, <2>2, <2>3, <2>4, OwnerMoves DEF Owner
<1>14. ASSUME NEW c \in Call, Run(c) PROVE IInv'
  <2>1. /\ call[c].pc = "run" /\ call' = [call EXCEPT ![c] = Idle]
        /\ UNCHANGED <<via, asked, verdict, pending, spent, remembered>>
    BY <1>14 DEF Run, Return, tables
  <2>2. call[c].id \in Id /\ verdict[call[c].id] \in Positive
    BY <2>1 DEF IInv, CallFits
  <2>3. \A i \in Id : i # call[c].id => runs'[i] = runs[i]
    BY <1>0, <1>14 DEF Run, TypeOK
  <2>4. \A d \in Call : call'[d] = IF d = c THEN Idle ELSE call[d]
    BY <1>0, <2>1 DEF TypeOK
  <2>5. \A i \in Id : NumberFits(i)'
    BY <2>1, <2>2, <2>3 DEF IInv, NumberFits, Positive
  <2>6. ASSUME NEW d \in Call PROVE CallFits(call[d])'
    <3>1. CASE d = c
      BY <2>1, <2>4, <3>1 DEF CallFits, Owner, Idle
    <3>2. CASE d # c
      <4>1. CallFits(call[d]) /\ call'[d] = call[d]
        BY <2>4, <3>2 DEF IInv
      <4>2. call[d].pc \in Owner => runs'[call[d].id] = runs[call[d].id]
        BY <1>0, <2>1, <2>3, <3>2, <4>1
        DEF IInv, Apart, CallFits, Owner, TypeOK
      <4>. QED BY <2>1, <4>1, <4>2 DEF CallFits
    <3>. QED BY <3>1, <3>2
  <2>7. Apart'
    BY <2>4 DEF IInv, Apart, Owner, Idle
  <2>8. MarksFit'
    BY <2>1 DEF IInv, MarksFit
  <2>. QED BY <1>0, <2>5, <2>6, <2>7, <2>8 DEF IInv
<1>15. ASSUME NEW c \in Call, Rerun(c) PROVE IInv'
  BY <1>0, <1>15, QuietReturn DEF Rerun, tables, history
<1>16. ASSUME UNCHANGED <<via, call, tables, history>> PROVE IInv'
  BY <1>0, <1>16
  DEF IInv, NumberFits, CallFits, Apart, MarksFit, tables, history
<1>17. ASSUME EndSession PROVE IInv'
  <2>1. UNCHANGED <<via, call, history>>
          /\ remembered' = NoId /\ pending' = NoMark /\ spent' = NoMark
    BY <1>17 DEF EndSession
  <2>2. \A d \in Call : call[d].pc \in Owner => call[d].id # NoId
    BY <1>0, ApprovalAssumption DEF IInv, CallFits, TypeOK
  <2>. QED
    BY <1>0, <2>1, <2>2
    DEF IInv, NumberFits, CallFits, Apart, MarksFit, NoMark, history
<1>18. ASSUME NEW o \in Operator,
              FindRequest(o) \/ WriteRemember(o) \/ WriteAnswer(o)
       PROVE IInv'
  BY <1>16, <1>18 DEF FindRequest, WriteRemember, WriteAnswer
<1>19. ASSUME Tick PROVE IInv'
  BY <1>16, <1>19 DEF Tick
<1>20. CASE UNCHANGED vars
  BY <1>16, <1>20 DEF vars, tables, history
<1>. QED
  BY <1>1, <1>2, <1>3, <1>4, <1>5, <1>6, <1>7, <1>8, <1>9, <1>10, <1>11,
     <1>12, <1>13, <1>14, <1>15, <1>17, <1>18, <1>19, <1>20
  DEF Next, Step

LEMMA Invariance == Spec => []IInv
  BY InvInit, InvNext, PTL DEF Spec

\* In every reachable state the tables of the session and the audit log agree:
\* a pending mark is an open question, a tombstone a confirmed one, and a call
\* about to run holds a granted number (approval.go, consumePending).
THEOREM TablesAgree == Spec => []TablesMatchAudit
<1>1. IInv => TablesMatchAudit
  BY DEF IInv, MarksFit, CallFits, Positive, TablesMatchAudit
<1>. QED BY <1>1, Invariance, PTL

-----------------------------------------------------------------------------
(* Approval implements Grants: every step is a step of Grants or changes   *)
(* nothing that Grants can see.                                            *)

LEMMA ImplInit == Init => G!Init
  BY DEF Init, G!Init, Shown, Meaning

\* A verdict on an open question of one number is a Settle of Grants.
LEMMA Settles ==
    ASSUME TypeOK, NEW i \in Id, i \in asked, verdict[i] = "open",
           NEW v \in {"approved", "confirmed", "denied", "timeout"},
           verdict' = [verdict EXCEPT ![i] = v],
           UNCHANGED <<asked, runs, remembered>>
    PROVE  G!Next
<1>1. Shown[i] = "open"
  BY DEF Shown, Meaning
<1>2. Shown' = [Shown EXCEPT ![i] = Meaning(v)]
  BY DEF TypeOK, Shown, Meaning
<1>3. Meaning(v) \in {"granted", "refused"}
  BY DEF Meaning
<1>. QED BY <1>1, <1>2, <1>3 DEF G!Next, G!Settle

LEMMA Asks ==
    ASSUME TypeOK, NEW i \in Draw, asked' = asked \cup {i},
           UNCHANGED <<verdict, runs, remembered>>
    PROVE  G!Next
<1>1. i \in Id /\ i \notin asked
  BY DrawInId
<1>2. UNCHANGED Shown
  BY DEF Shown
<1>. QED BY <1>1, <1>2 DEF G!Next, G!Ask

LEMMA Stutters ==
    ASSUME UNCHANGED <<asked, verdict, runs, remembered>>
    PROVE  UNCHANGED G!grants
  BY DEF G!grants, Shown

LEMMA ImplNext == IInv /\ [Next]_vars => [G!Next]_(G!grants)
<1> SUFFICES ASSUME IInv, [Next]_vars PROVE G!Next \/ UNCHANGED G!grants
  OBVIOUS
<1>0. TypeOK
  BY DEF IInv
<1>1. ASSUME UNCHANGED <<asked, verdict, runs, remembered>>
      PROVE UNCHANGED G!grants
  BY <1>1, Stutters
<1>2. ASSUME NEW c \in Call, Begin(c) \/ Answer(c) \/ Dismiss(c)
      PROVE UNCHANGED G!grants
  BY <1>1, <1>2 DEF Begin, Answer, Dismiss, tables, history
<1>3. ASSUME NEW c \in Call,
             \/ Look(c) \/ Clear(c) \/ SpentCheck(c)
             \/ CleanUp(c) \/ Rerun(c)
      PROVE UNCHANGED G!grants
  BY <1>1, <1>3 DEF Look, Clear, SpentCheck, CleanUp, Rerun, tables, history
<1>4. ASSUME NEW c \in Call, Consume(c) PROVE G!Next \/ UNCHANGED G!grants
  <2>1. CASE pending = NoMark
    BY <1>1, <1>4, <2>1 DEF Consume, tables
  <2>2. CASE pending # NoMark
    <3> DEFINE result == CASE call[c].answer = "yes" -> "approved"
                           [] call[c].answer = "no" -> "denied"
                           [] call[c].answer = "none" -> "confirmed"
    <3>1. result \in {"approved", "confirmed", "denied", "timeout"}
      BY <1>0 DEF TypeOK, ToolCall
    <3>2. Take(c, pending, result) /\ UNCHANGED <<asked, runs, remembered>>
      BY <1>4, <2>2 DEF Consume
    <3> HIDE DEF result
    <3>3. verdict' = [verdict EXCEPT ![pending.id] = result]
      BY <3>2 DEF Take
    <3>4. /\ pending.id \in Id /\ pending.id \in asked
          /\ verdict[pending.id] = "open"
      BY <1>0, <2>2 DEF IInv, MarksFit, TypeOK
    <3>. QED BY <1>0, <3>1, <3>2, <3>3, <3>4, Settles
  <2>. QED BY <2>1, <2>2
<1>5. ASSUME NEW c \in Call, Claim(c) PROVE G!Next \/ UNCHANGED G!grants
  <2>1. CASE Live(pending)
    BY <1>1, <1>5, <2>1 DEF Claim
  <2>2. CASE ~Live(pending)
    BY <1>0, <1>5, <2>2, Asks DEF Claim
  <2>. QED BY <2>1, <2>2
<1>6. ASSUME NEW c \in Call, WriteRequest(c) PROVE G!Next
  BY <1>0, <1>6, Asks DEF WriteRequest, tables
<1>7. ASSUME NEW c \in Call, Poll(c) \/ GiveUp(c) PROVE G!Next
  <2>1. /\ call[c].pc = "wait"
        /\ \E v \in {"approved", "confirmed", "denied", "timeout"} :
            verdict' = [verdict EXCEPT ![call[c].id] = v]
        /\ UNCHANGED <<asked, runs, remembered>>
    BY <1>7 DEF Poll, GiveUp, tables
  <2>2. /\ call[c].id \in Id /\ call[c].id \in asked
        /\ verdict[call[c].id] = "open"
    BY <1>0, <2>1 DEF IInv, CallFits, Owner, TypeOK
  <2>. QED BY <1>0, <2>1, <2>2, Settles
<1>8. ASSUME NEW c \in Call, Remember(c) PROVE G!Next
  <2>1. /\ call[c].id \in Id /\ remembered' = call[c].id
        /\ Shown[call[c].id] = "granted"
    BY <1>8 DEF Remember, IInv, CallFits, Positive, Shown, Meaning
  <2>2. UNCHANGED <<asked, Shown, runs>>
    BY <1>8 DEF Remember, history, Shown
  <2>. QED BY <2>1, <2>2 DEF G!Next, G!Stand
<1>9. ASSUME NEW c \in Call, Run(c) PROVE G!Next
  <2>1. /\ call[c].id \in Id /\ runs[call[c].id] = 0
        /\ Shown[call[c].id] = "granted"
    BY <1>9 DEF Run, IInv, CallFits, Owner, Positive, Shown, Meaning
  <2>2. runs' = [runs EXCEPT ![call[c].id] = 1]
    BY <1>9, <2>1 DEF Run
  <2>3. UNCHANGED <<asked, Shown, remembered>>
    BY <1>9 DEF Run, tables, Shown
  <2>. QED BY <2>1, <2>2, <2>3 DEF G!Next, G!RunUnder
<1>10. ASSUME NEW o \in Operator,
              FindRequest(o) \/ WriteRemember(o) \/ WriteAnswer(o)
       PROVE UNCHANGED G!grants
  BY <1>1, <1>10
  DEF FindRequest, WriteRemember, WriteAnswer, tables, history
<1>11. ASSUME Tick PROVE UNCHANGED G!grants
  BY <1>1, <1>11 DEF Tick, tables, history
<1>12. ASSUME EndSession PROVE G!Next
  BY <1>12 DEF EndSession, history, Shown, G!Next, G!Forget
<1>13. CASE UNCHANGED vars
  BY <1>1, <1>13 DEF vars
<1>. QED
  BY <1>2, <1>3, <1>4, <1>5, <1>6, <1>7, <1>8, <1>9, <1>10, <1>11, <1>12,
     <1>13
  DEF Next, Step

\* Whatever the interleaving of the tool calls, each authorization number is
\* asked about once, answered once and executed at most once, and only a
\* granted number is remembered (approval.go, consumePending, claimPending,
\* waitLocal and remember).
THEOREM ApprovalImplementsGrants == Spec => ImplementsGrants
<1>1. IInv /\ [Next]_vars => [G!Next]_(G!grants)
  BY ImplNext
<1>2. Spec => G!Init /\ [][G!Next]_(G!grants)
  BY <1>1, ImplInit, Invariance, PTL DEF Spec
<1>. QED BY <1>2 DEF ImplementsGrants, G!Spec

=============================================================================
