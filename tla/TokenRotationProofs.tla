------------------------ MODULE TokenRotationProofs ------------------------
(***************************************************************************)
(* What TokenRotation keeps for every set of tokens, requests and          *)
(* connections and every bound.                                            *)
(***************************************************************************)
EXTENDS TokenRotation, TLAPS

-----------------------------------------------------------------------------
(* Types of the values the actions build.                                  *)

LEMMA LocalType ==
  \A pc \in {"idle", "lookup", "authed", "done"} : Local(pc) \in Refresh
BY DEF Local, Refresh, MaybeTok

LEMMA OffType == Off \in Agent
BY DEF Off, Agent, MaybeTok

\* The row only ever takes tokens, and its history only grows by tokens.
LEMMA SetRowType ==
  ASSUME row \in Row, retired \subseteq Token, NoTok \notin Token,
         NEW new \in Row, SetRow(new)
  PROVE  row' \in Row /\ retired' \subseteq Token
BY DEF SetRow, Good, Row, MaybeTok

LEMMA CommittedType ==
  ASSUME row \in Row, NEW t
  PROVE  Committed(t) \in Row
BY DEF Committed, Staged, Row, MaybeTok

LEMMA SpendType ==
  ASSUME faults \in 0..MaxFault, NEW kind, Spend(kind)
  PROVE  faults' \in 0..MaxFault
BY FaultAssumption DEF Spend

LEMMA StUpdateType ==
  ASSUME NEW f \in [Conn -> AgentConn], NEW c, NEW st \in {"up", "down"}
  PROVE  [f EXCEPT ![c].st = st] \in [Conn -> AgentConn]
BY DEF AgentConn

LEMMA ShutdownType ==
  ASSUME req \in [Request -> Refresh], acks \subseteq Ack,
         NEW c, Shutdown(c)
  PROVE  req' \in [Request -> Refresh] /\ acks' \subseteq Ack
BY DEF Shutdown, Refresh

LEMMA FinishType ==
  ASSUME req \in [Request -> Refresh], NEW r \in Request, Finish(r)
  PROVE  req' \in [Request -> Refresh]
BY LocalType DEF Finish

\* A lookup that ends, and one that starts with a token.
LEMMA LookupsType ==
  ASSUME look \in [Caller -> Lookup], NEW k,
         Lookups(k, NoLookup) \/ \E t \in MaybeTok : Lookups(k, Asks(t))
  PROVE  look' \in [Caller -> Lookup]
<1>1. NoLookup \in Lookup /\ \A t \in MaybeTok : Asks(t) \in Lookup
  BY DEF NoLookup, Asks, Lookup, Place, MaybeTok
<1> QED BY <1>1 DEF Lookups

LEMMA FreshType == \A t \in Fresh : t \in Token \ used
BY DEF Fresh

-----------------------------------------------------------------------------
(* Type correctness.                                                       *)

LEMMA TypeInit == Init => TypeOK
<1> SUFFICES ASSUME Init PROVE TypeOK
  OBVIOUS
<1>1. row \in Row
  BY DEF Init, Row, MaybeTok
<1>2. conn \in [Conn -> AgentConn]
  BY DEF Init, AgentConn, MaybeTok
<1>3. pushed \in [Conn -> Seq(Frame)]
  <2>1. << >> \in Seq(Frame)
    OBVIOUS
  <2>2. pushed = [c \in Conn |-> << >>]
    BY DEF Init
  <2> QED BY <2>1, <2>2
<1>4. sweep \in Conn \cup {NoConn} /\ look \in [Caller -> Lookup]
  BY DEF Init, NoLookup, Lookup, Place, MaybeTok
<1>5. agent \in Agent /\ agent.pc = "off"
  BY OffType DEF Init, Off
<1>6. req \in [Request -> Refresh]
  BY LocalType DEF Init
<1>7. faults \in 0..MaxFault
  BY FaultAssumption DEF Init
<1>8. /\ file \in Token /\ used \subseteq Token /\ written \subseteq Token
      /\ issued \subseteq Token /\ retired \subseteq Token
      /\ acks \subseteq Ack
  BY DEF Init
<1>9. disabled \in BOOLEAN /\ calm \in BOOLEAN /\ hub \in Conn \cup {NoConn}
  BY DEF Init
<1> QED BY <1>1, <1>2, <1>3, <1>4, <1>5, <1>6, <1>7, <1>8, <1>9 DEF TypeOK

LEMMA TypeServer ==
  ASSUME TypeOK, NEW c \in Conn, ServerStep(c)
  PROVE  TypeOK'
<1> USE DEF db, net, checks, past
<1>1. CASE Accept(c)
  <2>1. look["dial"].tok \in MaybeTok /\ (agent.pc = "dialing") \in BOOLEAN
    BY DEF TypeOK, Caller, Lookup
  <2>2. look' \in [Caller -> Lookup]
    BY <1>1, LookupsType DEF Accept, TypeOK
  <2>3. conn' \in [Conn -> AgentConn]
    BY <1>1, <2>1 DEF Accept, TypeOK, AgentConn
  <2>4. agent' \in Agent /\ (agent'.pc = "connected" => agent'.conn \in Conn)
    <3>1. CASE agent.pc = "dialing"
      BY <1>1, <3>1 DEF Accept, TypeOK, Agent
    <3>2. CASE agent.pc # "dialing"
      BY <1>1, <3>2 DEF Accept, TypeOK
    <3> QED BY <3>1, <3>2
  <2> QED BY <1>1, <2>2, <2>3, <2>4 DEF Accept, TypeOK
<1>2. CASE Attach(c)
  <2>1. conn' \in [Conn -> AgentConn]
    <3> DEFINE f == [conn EXCEPT ![hub].st = "down"]
    <3>1. conn \in [Conn -> AgentConn] /\ f \in [Conn -> AgentConn]
      BY StUpdateType DEF TypeOK
    <3>2. /\ [conn EXCEPT ![c].st = "up"] \in [Conn -> AgentConn]
          /\ [f EXCEPT ![c].st = "up"] \in [Conn -> AgentConn]
      BY <3>1, StUpdateType
    <3>3. \/ conn' = [conn EXCEPT ![c].st = "up"]
          \/ conn' = [conn EXCEPT ![hub].st = "down", ![c].st = "up"]
      BY <1>2 DEF Attach
    <3> QED BY <3>2, <3>3
  <2>2. req' \in [Request -> Refresh] /\ acks' \subseteq Ack
    BY <1>2, ShutdownType DEF Attach, TypeOK
  <2> QED BY <1>2, <2>1, <2>2 DEF Attach, TypeOK
<1>3. CASE HelloTimeout(c)
  <2>1. conn' \in [Conn -> AgentConn]
    BY <1>3 DEF HelloTimeout, TypeOK, AgentConn
  <2> QED BY <1>3, <2>1 DEF HelloTimeout, TypeOK
<1>4. CASE ReadLoopFails(c)
  <2>1. conn' \in [Conn -> AgentConn]
    BY <1>4 DEF ReadLoopFails, TypeOK, AgentConn
  <2>2. req' \in [Request -> Refresh] /\ acks' \subseteq Ack
    BY <1>4, ShutdownType DEF ReadLoopFails, TypeOK
  <2>3. faults' \in 0..MaxFault
    BY <1>4, SpendType DEF ReadLoopFails, TypeOK
  <2> QED BY <1>4, <2>1, <2>2, <2>3 DEF ReadLoopFails, TypeOK
<1>5. CASE Detach(c)
  BY <1>5 DEF Detach, TypeOK
<1> QED BY <1>1, <1>2, <1>3, <1>4, <1>5 DEF ServerStep

LEMMA TypeSweep ==
  ASSUME TypeOK, Reject \/ SweepCopy \/ SweepCheck
  PROVE  TypeOK'
<1> USE DEF db, net, checks, past
<1>1. CASE Reject
  <2>1. look' \in [Caller -> Lookup]
    BY <1>1, LookupsType DEF Reject, TypeOK
  <2>2. agent' \in Agent /\ (agent'.pc = "connected" => agent'.conn \in Conn)
    <3>1. CASE agent.pc = "dialing"
      BY <1>1, <3>1 DEF Reject, TypeOK, Agent
    <3>2. CASE agent.pc # "dialing"
      BY <1>1, <3>2 DEF Reject, TypeOK
    <3> QED BY <3>1, <3>2
  <2>3. calm' \in BOOLEAN
    BY <1>1 DEF Reject, TypeOK
  <2> QED BY <1>1, <2>1, <2>2, <2>3 DEF Reject, TypeOK
<1>2. CASE SweepCopy
  <2>1. conn[hub].token \in MaybeTok
    BY <1>2 DEF SweepCopy, TypeOK, AgentConn
  <2>2. look' \in [Caller -> Lookup]
    BY <1>2, <2>1, LookupsType DEF SweepCopy, TypeOK
  <2> QED BY <1>2, <2>2 DEF SweepCopy, TypeOK
<1>3. CASE SweepCheck
  <2>1. look' \in [Caller -> Lookup]
    BY <1>3, LookupsType DEF SweepCheck, TypeOK
  <2>2. conn' \in [Conn -> AgentConn]
    <3>1. [conn EXCEPT ![sweep].st = "down"] \in [Conn -> AgentConn]
      BY StUpdateType DEF TypeOK
    <3>2. \/ conn' = conn
          \/ conn' = [conn EXCEPT ![sweep].st = "down"]
      BY <1>3 DEF SweepCheck
    <3> QED BY <3>1, <3>2 DEF TypeOK
  <2>3. req' \in [Request -> Refresh] /\ acks' \subseteq Ack
    BY <1>3, ShutdownType DEF SweepCheck, TypeOK
  <2> QED BY <1>3, <2>1, <2>2, <2>3 DEF SweepCheck, TypeOK
<1> QED BY <1>1, <1>2, <1>3

\* The statements of MachineByToken.
LEMMA TypeLook ==
  ASSUME TypeOK, NEW k \in Caller, LookStep(k)
  PROVE  TypeOK'
<1> USE DEF db, net, past
<1>1. \A p \in Place : [look EXCEPT ![k].at = p] \in [Caller -> Lookup]
  BY DEF TypeOK, Lookup
<1>2. CASE SelectFormal(k)
  <2>1. look' \in [Caller -> Lookup]
    BY <1>1, <1>2 DEF SelectFormal, Place
  <2> QED BY <1>2, <2>1 DEF SelectFormal, TypeOK
<1>3. CASE SelectStaged(k)
  <2>1. look' \in [Caller -> Lookup]
    BY <1>1, <1>3 DEF SelectStaged, Place
  <2> QED BY <1>3, <2>1 DEF SelectStaged, TypeOK
<1>4. CASE Promote(k)
  <2>1. look' \in [Caller -> Lookup]
    BY <1>1, <1>4 DEF Promote, Place
  <2>2. row' \in Row /\ retired' \subseteq Token
    BY <1>4, CommittedType, SetRowType, TokenAssumption DEF Promote, TypeOK
  <2> QED BY <1>4, <2>1, <2>2 DEF Promote, TypeOK
<1> QED BY <1>2, <1>3, <1>4 DEF LookStep

LEMMA TypeHandler ==
  ASSUME TypeOK, NEW r \in Request, Handler(r)
  PROVE  TypeOK'
<1> USE DEF db, net, checks, past
<1>1. CASE Authenticate(r) \/ Authed(r) \/ Denied(r)
  <2>1. req' \in [Request -> Refresh]
    BY <1>1, LocalType, FinishType DEF Authenticate, Authed, Denied, TypeOK
  <2>2. look' \in [Caller -> Lookup]
    BY <1>1, LookupsType DEF Authenticate, Authed, Denied, TypeOK, MaybeTok
  <2> QED BY <1>1, <2>1, <2>2 DEF Authenticate, Authed, Denied, TypeOK
<1>2. CASE StageMachineToken(r)
  <2>1. PICK t \in Fresh : /\ used' = used \cup {t}
                           /\ SetRow([row EXCEPT !.pending = t])
                           /\ req' = [req EXCEPT ![r] =
                                        [pc |-> "staged", conn |-> hub,
                                         tok |-> t, reply |-> "none"]]
    BY <1>2 DEF StageMachineToken
  <2>2. t \in Token
    BY FreshType
  <2>3. [row EXCEPT !.pending = t] \in Row
    BY <2>2 DEF TypeOK, Row, MaybeTok
  <2>4. row' \in Row /\ retired' \subseteq Token
    BY <2>1, <2>3, SetRowType, TokenAssumption DEF TypeOK
  <2>5. req' \in [Request -> Refresh]
    <3>1. [pc |-> "staged", conn |-> hub, tok |-> t, reply |-> "none"]
             \in Refresh
      BY <1>2, <2>2 DEF StageMachineToken, TypeOK, Refresh
    <3> QED BY <2>1, <3>1 DEF TypeOK
  <2>6. calm' \in BOOLEAN /\ used' \subseteq Token
    BY <1>2, <2>1, <2>2 DEF StageMachineToken, TypeOK
  <2> QED BY <1>2, <2>4, <2>5, <2>6 DEF StageMachineToken, TypeOK
<1>3. CASE Offline(r)
  BY <1>3, FinishType DEF Offline, TypeOK
<1>4. CASE RotateToken(r)
  <2> DEFINE c == req[r].conn
             f == [req |-> r, tok |-> req[r].tok]
  <2>0. c \in Conn /\ f \in Frame
    BY <1>4 DEF RotateToken, TypeOK, Refresh, Frame
  <2>1. req' \in [Request -> Refresh]
    <3>1. CASE conn[c].st = "up"
      <4>1. [req[r] EXCEPT !.pc = "waiting"] \in Refresh
        BY <1>4 DEF RotateToken, TypeOK, Refresh
      <4>2. req' = [req EXCEPT ![r].pc = "waiting"]
        BY <1>4, <3>1 DEF RotateToken
      <4> QED BY <4>1, <4>2 DEF TypeOK
    <3>2. CASE conn[c].st # "up"
      BY <1>4, <3>2, FinishType DEF RotateToken, TypeOK
    <3> QED BY <3>1, <3>2
  <2>2. pushed' \in [Conn -> Seq(Frame)]
    <3>1. Append(pushed[c], f) \in Seq(Frame)
      BY <2>0 DEF TypeOK
    <3>2. \/ pushed' = [pushed EXCEPT ![c] = Append(pushed[c], f)]
          \/ pushed' = pushed
      BY <1>4 DEF RotateToken
    <3> QED BY <2>0, <3>1, <3>2 DEF TypeOK
  <2> QED BY <1>4, <2>1, <2>2 DEF RotateToken, TypeOK
<1>5. CASE Refused(r)
  BY <1>5, FinishType DEF Refused, TypeOK
<1>6. CASE Timeout(r)
  BY <1>6, FinishType DEF Timeout, TypeOK
<1>7. CASE CommitMachineToken(r)
  <2>1. row' \in Row /\ retired' \subseteq Token
    BY <1>7, CommittedType, SetRowType, TokenAssumption
       DEF CommitMachineToken, TypeOK
  <2>2. req' \in [Request -> Refresh]
    BY <1>7, ZenonT(40) DEF CommitMachineToken, TypeOK, Refresh
  <2> QED BY <1>7, <2>1, <2>2, SMTT(40) DEF CommitMachineToken, TypeOK
<1>8. CASE SetToken(r)
  <2>1. conn' \in [Conn -> AgentConn]
    <3>1. req[r].tok \in MaybeTok
      BY DEF TypeOK, Refresh, MaybeTok
    <3>2. conn' = [conn EXCEPT ![req[r].conn].token = req[r].tok]
      BY <1>8 DEF SetToken
    <3> QED BY <3>1, <3>2 DEF TypeOK, AgentConn
  <2> QED BY <1>8, <2>1, FinishType, SMTT(40) DEF SetToken, TypeOK
<1> QED BY <1>1, <1>2, <1>3, <1>4, <1>5, <1>6, <1>7, <1>8 DEF Handler

LEMMA TypeDeliver ==
  ASSUME TypeOK, NEW m \in acks, Deliver(m)
  PROVE  TypeOK'
<1> USE DEF db, net, checks, past
<1>1. req' \in [Request -> Refresh]
  <2>1. CASE req[m.req].pc = "waiting"
    <3>0. req[m.req] \in Refresh
      BY DEF TypeOK, Ack
    <3>1. \A reply \in {"ok", "err"} :
            [req[m.req] EXCEPT !.reply = reply] \in Refresh
      BY <2>1, <3>0 DEF Refresh
    <3>2. \/ req' = req
          \/ req' = [req EXCEPT ![m.req].reply = "ok"]
          \/ req' = [req EXCEPT ![m.req].reply = "err"]
      BY DEF Deliver
    <3> QED BY <3>1, <3>2 DEF TypeOK
  <2>2. CASE req[m.req].pc # "waiting"
    BY <2>2 DEF Deliver, TypeOK
  <2> QED BY <2>1, <2>2
<1> QED BY <1>1 DEF Deliver, TypeOK

LEMMA TypeAgent ==
  ASSUME TypeOK, AgentStep
  PROVE  TypeOK'
<1> USE DEF db, net, checks, past
<1>1. CASE Start
  BY <1>1 DEF Start, Off, TypeOK, Agent, MaybeTok
<1>2. CASE Crash
  <2>1. << >> \in Seq(Frame)
    OBVIOUS
  <2>2. pushed' \in [Conn -> Seq(Frame)]
    BY <1>2, <2>1 DEF Crash
  <2>3. agent' \in Agent /\ agent'.pc = "off"
    BY <1>2, OffType DEF Crash, Off
  <2> QED BY <1>2, <2>2, <2>3, SpendType DEF Crash, TypeOK
<1>3. CASE Dial
  <2>1. look' \in [Caller -> Lookup]
    BY <1>3, LookupsType DEF Dial, TypeOK, MaybeTok
  <2>2. agent' \in Agent /\ agent'.pc = "dialing"
    BY <1>3 DEF Dial, TypeOK, Agent, MaybeTok
  <2> QED BY <1>3, <2>1, <2>2 DEF Dial, TypeOK
<1>7. CASE DialFails
  <2>1. agent' \in Agent /\ agent'.pc = "loop"
    BY <1>7 DEF DialFails, TypeOK, Agent
  <2> QED BY <1>7, <2>1, SpendType DEF DialFails, TypeOK
<1>4. CASE Disconnect
  <2>1. << >> \in Seq(Frame)
    OBVIOUS
  <2>2. pushed' \in [Conn -> Seq(Frame)]
    BY <1>4, <2>1 DEF Disconnect, TypeOK
  <2>3. agent' \in Agent /\ agent'.pc = "loop"
    BY <1>4 DEF Disconnect, TypeOK, Agent
  <2>4. faults' \in 0..MaxFault
    BY <1>4, SpendType DEF Disconnect, TypeOK
  <2> QED BY <1>4, <2>2, <2>3, <2>4 DEF Disconnect, TypeOK
<1>5. CASE OnToken
  <2> DEFINE q == pushed[agent.conn]
             f == Head(q)
  <2>1. agent.conn \in Conn /\ q \in Seq(Frame) /\ q # << >>
    BY <1>5 DEF OnToken, TypeOK
  <2>2. f \in Frame /\ Tail(q) \in Seq(Frame)
    BY <2>1
  <2>3. f.req \in Request /\ f.tok \in Token
    BY <2>2 DEF Frame
  <2>4. pushed' \in [Conn -> Seq(Frame)]
    BY <1>5, <2>1, <2>2 DEF OnToken, TypeOK
  <2>5. acks' \subseteq Ack
    <3>1. \A ok \in BOOLEAN :
            [req |-> f.req, conn |-> agent.conn, ok |-> ok] \in Ack
      BY <2>1, <2>3 DEF Ack
    <3>2. \/ acks' = acks
          \/ \E ok \in BOOLEAN : acks' = acks \cup
                {[req |-> f.req, conn |-> agent.conn, ok |-> ok]}
      BY <1>5 DEF OnToken
    <3> QED BY <3>1, <3>2 DEF TypeOK
  <2>6. file' \in Token /\ written' \subseteq Token
    BY <1>5, <2>3 DEF OnToken, TypeOK
  <2>7. agent' \in Agent /\ agent'.conn = agent.conn
    BY <1>5, <2>3 DEF OnToken, TypeOK, Agent, MaybeTok
  <2>8. faults' \in 0..MaxFault
    BY <1>5, SpendType DEF OnToken, TypeOK
  <2> QED BY <1>5, <2>1, <2>4, <2>5, <2>6, <2>7, <2>8 DEF OnToken, TypeOK
<1>6. CASE Fallback
  <2>1. agent' \in Agent /\ agent'.pc = "loop"
    BY <1>6 DEF Fallback, TypeOK, Agent, MaybeTok
  <2>2. file' \in Token
    BY <1>6 DEF Fallback, TypeOK, Agent, MaybeTok
  <2>3. faults' \in 0..MaxFault
    BY <1>6, SpendType DEF Fallback, TypeOK
  <2> QED BY <1>6, <2>1, <2>2, <2>3 DEF Fallback, TypeOK
<1> QED BY <1>1, <1>2, <1>3, <1>4, <1>5, <1>6, <1>7 DEF AgentStep

LEMMA TypeAdmin ==
  ASSUME TypeOK, AdminStep
  PROVE  TypeOK'
<1> USE DEF db, net, checks, past
<1>1. CASE RegenMachineToken
  <2>1. PICK t \in Fresh :
          /\ used' = used \cup {t} /\ issued' = issued \cup {t}
          /\ SetRow([tok |-> t, pending |-> NoTok])
    BY <1>1 DEF RegenMachineToken
  <2>2. t \in Token
    BY FreshType
  <2>3. [tok |-> t, pending |-> NoTok] \in Row
    BY <2>2 DEF Row, MaybeTok
  <2>4. row' \in Row /\ retired' \subseteq Token
    BY <2>1, <2>3, SetRowType, TokenAssumption DEF TypeOK
  <2>5. faults' \in 0..MaxFault
    BY <1>1, SpendType DEF RegenMachineToken, TypeOK
  <2>6. used' \subseteq Token /\ issued' \subseteq Token
    BY <2>1, <2>2 DEF TypeOK
  <2> QED BY <1>1, <2>4, <2>5, <2>6 DEF RegenMachineToken, TypeOK
<1>2. CASE InstallToken
  BY <1>2 DEF InstallToken, TypeOK, Row
<1>3. CASE SetDisabled
  <2>1. faults' \in 0..MaxFault
    BY <1>3, SpendType DEF SetDisabled, TypeOK
  <2> QED BY <1>3, <2>1 DEF SetDisabled, TypeOK
<1> QED BY <1>1, <1>2, <1>3 DEF AdminStep

LEMMA TypeNext == TypeOK /\ [Next]_vars => TypeOK'
<1> SUFFICES ASSUME TypeOK, [Next]_vars PROVE TypeOK'
  OBVIOUS
<1>1. CASE UNCHANGED vars
  BY <1>1 DEF vars, TypeOK
<1>2. CASE Next
  BY <1>2, TypeLook, TypeServer, TypeSweep, TypeHandler, TypeDeliver,
     TypeAgent, TypeAdmin DEF Next
<1> QED BY <1>1, <1>2

\* Every variable keeps its type.
THEOREM TypeCorrect == Spec => []TypeOK
BY TypeInit, TypeNext, PTL DEF Spec

-----------------------------------------------------------------------------
(* A retired token stays retired.                                          *)

\* Whatever is or was good has been generated, so a new token was never good.
RetiredInv == RetiredStaysRetired /\ retired \subseteq used
                /\ Good(row) \subseteq used

\* A row keeps good tokens or takes a fresh one.
LEMMA SetRowRetires ==
  ASSUME RetiredInv, NEW new, SetRow(new), used \subseteq used',
         Good(new) \subseteq Good(row) \cup Fresh,
         Good(new) \cap Fresh \subseteq used'
  PROVE  RetiredInv'
BY FreshType DEF RetiredInv, RetiredStaysRetired, SetRow, Good

LEMMA CommittedGood ==
  \A t : Good(Committed(t)) \subseteq Good(row)
BY DEF Good, Committed, Staged

\* The steps that write the row.
LEMMA RowSteps ==
  ASSUME TypeOK, Next
  PROVE  \/ UNCHANGED <<row, retired, used>>
         \/ /\ UNCHANGED used
            /\ \E t : SetRow(Committed(t))
         \/ \E t \in Fresh :
              /\ used' = used \cup {t}
              /\ \/ SetRow([row EXCEPT !.pending = t])
                 \/ SetRow([tok |-> t, pending |-> NoTok])
<1> USE DEF db, net, checks, past
<1>1. ASSUME NEW k \in Caller, LookStep(k)
      PROVE  \/ UNCHANGED <<row, retired, used>>
             \/ UNCHANGED used /\ \E t : SetRow(Committed(t))
  BY <1>1 DEF LookStep, SelectFormal, SelectStaged, Promote
<1>2. ASSUME NEW c \in Conn, ServerStep(c)
      PROVE  UNCHANGED <<row, retired, used>>
  BY <1>2 DEF ServerStep, Accept, Attach, HelloTimeout, ReadLoopFails, Detach
<1>3. CASE Reject \/ SweepCopy \/ SweepCheck
  BY <1>3 DEF Reject, SweepCopy, SweepCheck
<1>6. ASSUME NEW r \in Request, StageMachineToken(r)
      PROVE  \E t \in Fresh : used' = used \cup {t}
                              /\ SetRow([row EXCEPT !.pending = t])
  BY <1>6 DEF StageMachineToken
<1>7. ASSUME NEW r \in Request, CommitMachineToken(r)
      PROVE  UNCHANGED used /\ \E t : SetRow(Committed(t))
  BY <1>7 DEF CommitMachineToken
<1>8. ASSUME NEW r \in Request,
             \/ Authenticate(r) \/ Authed(r) \/ Denied(r) \/ Offline(r)
             \/ RotateToken(r) \/ Refused(r) \/ Timeout(r) \/ SetToken(r)
      PROVE  UNCHANGED <<row, retired, used>>
  BY <1>8 DEF Authenticate, Authed, Denied, Offline, RotateToken, Refused,
              Timeout, SetToken
<1>9. ASSUME NEW m \in acks, Deliver(m)
      PROVE  UNCHANGED <<row, retired, used>>
  BY <1>9 DEF Deliver
<1>10. CASE AgentStep
  BY <1>10 DEF AgentStep, Start, Crash, Dial, DialFails, Disconnect, OnToken,
               Fallback
<1>11. CASE RegenMachineToken
  BY <1>11 DEF RegenMachineToken
<1>12. CASE InstallToken \/ SetDisabled
  BY <1>12 DEF InstallToken, SetDisabled
<1> QED
  <2>1. CASE \/ \E c \in Conn : ServerStep(c)
             \/ \E k \in Caller : LookStep(k)
    BY <2>1, <1>1, <1>2
  <2>2. CASE \E r \in Request : Handler(r)
    BY <2>2, <1>6, <1>7, <1>8 DEF Handler
  <2>3. CASE \E m \in acks : Deliver(m)
    BY <2>3, <1>9
  <2>4. CASE AdminStep
    BY <2>4, <1>11, <1>12 DEF AdminStep
  <2> QED BY <1>3, <1>10, <2>1, <2>2, <2>3, <2>4 DEF Next

\* RetiredStaysRetired: no late promotion, commit or slow handler brings a
\* replaced token back.
THEOREM RetiredTokensStayRetired == Spec => []RetiredStaysRetired
<1>1. Init => RetiredInv
  BY DEF Init, RetiredInv, RetiredStaysRetired, Good
<1>2. TypeOK /\ RetiredInv /\ [Next]_vars => RetiredInv'
  <2> SUFFICES ASSUME TypeOK, RetiredInv, [Next]_vars PROVE RetiredInv'
    OBVIOUS
  <2>1. CASE UNCHANGED <<row, retired, used>>
    BY <2>1 DEF RetiredInv, RetiredStaysRetired, Good
  <2>2. ASSUME UNCHANGED used, NEW t, SetRow(Committed(t))
        PROVE  RetiredInv'
    <3>1. Good(Committed(t)) \subseteq used
      BY CommittedGood DEF RetiredInv
    <3> QED BY <2>2, <3>1, CommittedGood, SetRowRetires
  <2>3. ASSUME NEW t \in Fresh, used' = used \cup {t},
               \/ SetRow([row EXCEPT !.pending = t])
               \/ SetRow([tok |-> t, pending |-> NoTok])
        PROVE  RetiredInv'
    <3>1. /\ Good([row EXCEPT !.pending = t]) \subseteq Good(row) \cup {t}
          /\ Good([tok |-> t, pending |-> NoTok]) \subseteq {t}
      BY DEF Good, TypeOK, Row
    <3>2. Good(row) \subseteq used
      BY DEF RetiredInv
    <3> QED BY <2>3, <3>1, <3>2, SetRowRetires
  <2>4. CASE UNCHANGED vars
    BY <2>1, <2>4 DEF vars
  <2>5. CASE Next
    BY <2>5, <2>1, <2>2, <2>3, RowSteps
  <2> QED BY <2>4, <2>5
<1>3. RetiredInv => RetiredStaysRetired
  BY DEF RetiredInv
<1> QED BY <1>1, <1>2, <1>3, TypeCorrect, PTL DEF Spec

-----------------------------------------------------------------------------
(* The hub registers the connection that serves.                           *)

\* LiveIsRegistered: at most one connection serves the machine, and it is
\* the one that the sweep and a refresh find.
THEOREM LiveConnectionIsRegistered == Spec => []LiveIsRegistered
<1>1. Init => LiveIsRegistered
  BY DEF Init, LiveIsRegistered
<1>2. TypeOK /\ LiveIsRegistered /\ [Next]_vars => LiveIsRegistered'
  <2> SUFFICES ASSUME TypeOK, LiveIsRegistered, [Next]_vars
               PROVE  LiveIsRegistered'
    OBVIOUS
  <2> USE DEF db, net, checks, past
  <2>0. CASE UNCHANGED <<conn, hub>>
    BY <2>0 DEF LiveIsRegistered
  <2>1. ASSUME NEW c \in Conn, ServerStep(c) PROVE LiveIsRegistered'
    <3>1. CASE Accept(c)
      <4>1. /\ \A d \in Conn : d # c => conn'[d] = conn[d]
            /\ conn'[c].st = "hello" /\ UNCHANGED hub
        BY <3>1 DEF Accept, TypeOK
      <4> QED BY <4>1 DEF LiveIsRegistered
    <3>2. CASE Attach(c)
      <4>1. \A d \in Conn : d # c => conn'[d].st # "up"
        <5>1. \A d \in Conn : d # c /\ d # hub => conn'[d] = conn[d]
          BY <3>2 DEF Attach, TypeOK
        <5>2. hub \in Conn /\ hub # c => conn'[hub].st = "down"
          BY <3>2, ConnAssumption DEF Attach, TypeOK, AgentConn
        <5> QED BY <5>1, <5>2 DEF LiveIsRegistered
      <4> QED BY <3>2, <4>1 DEF Attach, LiveIsRegistered
    <3>3. CASE HelloTimeout(c)
      BY <3>3 DEF HelloTimeout, LiveIsRegistered, TypeOK
    <3>4. CASE ReadLoopFails(c)
      BY <3>4 DEF ReadLoopFails, LiveIsRegistered, TypeOK
    <3>5. CASE Detach(c)
      BY <3>5 DEF Detach, LiveIsRegistered, TypeOK
    <3> QED BY <2>1, <3>1, <3>2, <3>3, <3>4, <3>5 DEF ServerStep
  <2>2. CASE SweepCheck
    <3>1. \/ conn' = conn
          \/ conn' = [conn EXCEPT ![sweep].st = "down"]
      BY <2>2 DEF SweepCheck
    <3>2. \A d \in Conn : conn'[d].st = "up" => conn[d].st = "up"
      <4>1. CASE conn' = conn
        BY <4>1
      <4>2. CASE conn' = [conn EXCEPT ![sweep].st = "down"]
        <5>1. \A d \in Conn : conn'[d].st = "down" \/ conn'[d] = conn[d]
          BY <4>2 DEF TypeOK, AgentConn
        <5> QED BY <5>1
      <4> QED BY <3>1, <4>1, <4>2
    <3> QED BY <2>2, <3>2 DEF SweepCheck, LiveIsRegistered
  <2>3. CASE Reject \/ SweepCopy
    BY <2>0, <2>3 DEF Reject, SweepCopy
  <2>4. ASSUME NEW r \in Request, SetToken(r) PROVE LiveIsRegistered'
    BY <2>4 DEF SetToken, LiveIsRegistered, TypeOK
  <2>5. ASSUME NEW r \in Request, Handler(r) PROVE LiveIsRegistered'
    BY <2>0, <2>4, <2>5
       DEF Handler, Authenticate, Authed, Denied, StageMachineToken, Offline,
           RotateToken, Refused, Timeout, CommitMachineToken
  <2>10. ASSUME NEW k \in Caller, LookStep(k) PROVE LiveIsRegistered'
    BY <2>0, <2>10 DEF LookStep, SelectFormal, SelectStaged, Promote
  <2>6. ASSUME NEW m \in acks, Deliver(m) PROVE LiveIsRegistered'
    BY <2>0, <2>6 DEF Deliver
  <2>7. CASE AgentStep
    BY <2>0, <2>7
       DEF AgentStep, Start, Crash, Dial, DialFails, Disconnect, OnToken,
           Fallback
  <2>8. CASE AdminStep
    BY <2>0, <2>8
       DEF AdminStep, RegenMachineToken, InstallToken, SetDisabled
  <2>9. CASE UNCHANGED vars
    BY <2>0, <2>9 DEF vars
  <2> QED BY <2>1, <2>2, <2>3, <2>5, <2>6, <2>7, <2>8, <2>9, <2>10 DEF Next
<1> QED BY <1>1, <1>2, TypeCorrect, PTL DEF Spec

-----------------------------------------------------------------------------
(* Only tokens the agent has had in its file are committed.  The invariant *)
(* follows a new token on its way: the frame carries the token its request *)
(* staged, an affirmative reply speaks of a token that has been written,   *)
(* and whoever remembers a token remembers a written one.                  *)

Sent == {"waiting", "committed", "done"}
Kept == written \cup {NoTok}

Holders ==
    /\ file \in written
    /\ agent.cur \in Kept /\ agent.prev \in Kept
    /\ \A k \in Caller : look[k].tok \in Kept
    /\ \A c \in Conn : conn[c].token \in Kept

FrameFits(f) ==
    /\ req[f.req].pc \in Sent
    /\ req[f.req].pc # "done" => req[f.req].tok = f.tok

Frames == \A c \in Conn : \A i \in 1..Len(pushed[c]) : FrameFits(pushed[c][i])

Replies ==
    /\ \A m \in acks : m.ok =>
        /\ req[m.req].pc \in Sent
        /\ req[m.req].pc # "done" => req[m.req].tok \in written
    /\ \A r \in Request :
        req[r].reply = "ok" \/ req[r].pc = "committed"
            => req[r].tok \in written

WrittenInv == TypeOK /\ Holders /\ Frames /\ Replies /\ FormalWasWritten

\* A handler never goes back to a state before its push.
Onward ==
    \A r \in Request : req[r].pc \in Sent =>
        /\ req'[r].pc \in Sent
        /\ req'[r].pc # "done" =>
            req[r].pc # "done" /\ req'[r].tok = req[r].tok

LEMMA FinishOnward ==
  ASSUME TypeOK, NEW r \in Request, Finish(r)
  PROVE  /\ Onward
         /\ req'[r] = Local("done")
         /\ \A s \in Request : s # r => req'[s] = req[s]
BY DEF TypeOK, Finish, Onward, Local, Sent

LEMMA ShutdownOnward ==
  ASSUME TypeOK, NEW c, Shutdown(c)
  PROVE  /\ Onward /\ acks' \subseteq acks
         /\ \A r \in Request : /\ req'[r].pc = req[r].pc
                               /\ req'[r].tok = req[r].tok
                               /\ req'[r].reply = "ok" => req[r].reply = "ok"
<1>1. \A r \in Request : /\ req'[r].pc = req[r].pc
                         /\ req'[r].tok = req[r].tok
                         /\ req'[r].reply = "ok" => req[r].reply = "ok"
  BY DEF TypeOK, Shutdown, Refresh
<1> QED BY <1>1 DEF Shutdown, Onward

\* Frames fit as long as handlers go onward and no frame is added.
LEMMA FramesKept ==
  ASSUME TypeOK, Frames, Onward,
         \A c \in Conn : \/ pushed'[c] = pushed[c] \/ pushed'[c] = << >>
                         \/ pushed[c] # << >> /\ pushed'[c] = Tail(pushed[c])
  PROVE  Frames'
<1>1. ASSUME NEW c \in Conn, NEW i \in 1..Len(pushed'[c])
      PROVE  \E j \in 1..Len(pushed[c]) : pushed'[c][i] = pushed[c][j]
  <2>1. pushed[c] \in Seq(Frame)
    BY DEF TypeOK
  <2>2. CASE pushed'[c] = pushed[c] BY <2>2, <1>1
  <2>3. CASE pushed'[c] = << >> BY <2>3, <1>1
  <2>4. CASE pushed[c] # << >> /\ pushed'[c] = Tail(pushed[c])
    <3>1. i + 1 \in 1..Len(pushed[c]) /\ pushed'[c][i] = pushed[c][i + 1]
      BY <2>1, <2>4, <1>1
    <3> QED BY <3>1
  <2> QED BY <2>2, <2>3, <2>4
<1>2. \A c \in Conn : \A j \in 1..Len(pushed[c]) : pushed[c][j] \in Frame
  BY DEF TypeOK
<1>3. ASSUME NEW c \in Conn, NEW i \in 1..Len(pushed'[c])
      PROVE  FrameFits(pushed[c][i])'
  <2>1. PICK j \in 1..Len(pushed[c]) : pushed'[c][i] = pushed[c][j]
    BY <1>1
  <2>2. pushed[c][j] \in Frame /\ FrameFits(pushed[c][j])
    BY <1>2 DEF Frames
  <2> DEFINE f == pushed[c][j]
  <2>3. f \in Frame /\ FrameFits(f) /\ pushed'[c][i] = f
    BY <2>1, <2>2
  <2> HIDE DEF f
  <2>4. /\ req'[f.req].pc \in Sent
        /\ req'[f.req].pc # "done" => req'[f.req].tok = f.tok
    BY <2>3 DEF Onward, FrameFits, Frame
  <2> QED BY <2>3, <2>4 DEF FrameFits
<1> QED BY <1>3 DEF Frames

\* Replies fit as long as handlers go onward and nothing is confirmed anew.
LEMMA RepliesKept ==
  ASSUME TypeOK, Replies, Onward, written \subseteq written',
         \A m \in acks' : m.ok => m \in acks,
         \A r \in Request :
            req'[r].reply = "ok" \/ req'[r].pc = "committed" =>
                /\ req[r].reply = "ok" \/ req[r].pc = "committed"
                /\ req'[r].tok = req[r].tok
  PROVE  Replies'
<1>1. \A m \in acks : m.req \in Request
  BY DEF TypeOK, Ack
<1> QED BY <1>1 DEF Replies, Onward

LEMMA HistoryGrows ==
  ASSUME TypeOK, Next
  PROVE  written \subseteq written' /\ issued \subseteq issued'
<1> USE DEF db, net, checks, past
<1>1. ASSUME NEW c \in Conn, ServerStep(c)
      PROVE written \subseteq written' /\ issued \subseteq issued'
  BY <1>1 DEF ServerStep, Accept, Attach, HelloTimeout, ReadLoopFails, Detach
<1>2. ASSUME NEW r \in Request, Handler(r)
      PROVE written \subseteq written' /\ issued \subseteq issued'
  BY <1>2 DEF Handler, Authenticate, Authed, Denied, StageMachineToken,
              Offline, RotateToken, Refused, Timeout, CommitMachineToken,
              SetToken
<1>3. ASSUME NEW m \in acks, Deliver(m)
      PROVE written \subseteq written' /\ issued \subseteq issued'
  BY <1>3 DEF Deliver
<1>4. CASE \/ Reject \/ SweepCopy \/ SweepCheck
           \/ \E k \in Caller : LookStep(k)
  BY <1>4 DEF Reject, SweepCopy, SweepCheck, LookStep, SelectFormal,
              SelectStaged, Promote
<1>5. CASE AgentStep
  BY <1>5 DEF AgentStep, Start, Crash, Dial, DialFails, Disconnect, OnToken,
              Fallback
<1>6. CASE AdminStep
  BY <1>6 DEF AdminStep, RegenMachineToken, InstallToken, SetDisabled
<1> QED BY <1>1, <1>2, <1>3, <1>4, <1>5, <1>6 DEF Next

\* The formal token: a promotion takes what its holder has, all of which has
\* been written; a commit takes what its request saw confirmed.
LEMMA FormalNext == WrittenInv /\ Next => FormalWasWritten'
<1> SUFFICES ASSUME WrittenInv, Next PROVE FormalWasWritten'
  OBVIOUS
<1>0. /\ TypeOK /\ Holders /\ FormalWasWritten
      /\ written \subseteq written' /\ issued \subseteq issued'
  BY HistoryGrows DEF WrittenInv
<1>1. ASSUME row'.tok = row.tok PROVE FormalWasWritten'
  BY <1>0, <1>1 DEF FormalWasWritten
<1>2. ASSUME NEW t \in Kept, SetRow(Committed(t))
      PROVE  FormalWasWritten'
  BY <1>0, <1>2 DEF SetRow, Committed, Staged, Kept, FormalWasWritten
<1>3. ASSUME NEW k \in Caller, LookStep(k) PROVE FormalWasWritten'
  <2>1. CASE Promote(k)
    BY <1>0, <1>2, <2>1 DEF Promote, Holders
  <2>2. CASE SelectFormal(k) \/ SelectStaged(k)
    BY <1>1, <2>2 DEF SelectFormal, SelectStaged, db
  <2> QED BY <1>3, <2>1, <2>2 DEF LookStep
<1>4. ASSUME NEW c \in Conn, ServerStep(c) PROVE FormalWasWritten'
  BY <1>1, <1>4
     DEF ServerStep, Accept, Attach, HelloTimeout, ReadLoopFails, Detach, db
<1>5. CASE Reject \/ SweepCopy \/ SweepCheck
  BY <1>1, <1>5 DEF Reject, SweepCopy, SweepCheck, db
<1>6. ASSUME NEW r \in Request, Handler(r) PROVE FormalWasWritten'
  <2>2. CASE StageMachineToken(r)
    <3>1. PICK t \in Fresh : SetRow([row EXCEPT !.pending = t])
      BY <2>2 DEF StageMachineToken
    <3>2. row' = [row EXCEPT !.pending = t] /\ row \in Row
      BY <1>0, <3>1 DEF SetRow, TypeOK
    <3> QED BY <1>1, <3>2 DEF Row
  <2>3. CASE CommitMachineToken(r)
    <3>1. req[r].tok \in Kept
      BY <2>3 DEF CommitMachineToken, WrittenInv, Replies, Kept
    <3> QED BY <1>2, <2>3, <3>1 DEF CommitMachineToken
  <2>4. CASE \/ Authenticate(r) \/ Authed(r) \/ Denied(r) \/ Offline(r)
             \/ RotateToken(r) \/ Refused(r) \/ Timeout(r) \/ SetToken(r)
    BY <1>1, <2>4 DEF Authenticate, Authed, Denied, Offline, RotateToken,
                      Refused, Timeout, SetToken, db
  <2> QED BY <1>6, <2>2, <2>3, <2>4 DEF Handler
<1>7. ASSUME NEW m \in acks, Deliver(m) PROVE FormalWasWritten'
  BY <1>1, <1>7 DEF Deliver, db
<1>8. CASE AgentStep
  BY <1>1, <1>8
     DEF AgentStep, Start, Crash, Dial, DialFails, Disconnect, OnToken,
         Fallback, db
<1>9. CASE AdminStep
  <2>1. CASE RegenMachineToken
    BY <2>1 DEF RegenMachineToken, SetRow, FormalWasWritten
  <2>2. CASE InstallToken \/ SetDisabled
    BY <1>1, <2>2 DEF InstallToken, SetDisabled, db
  <2> QED BY <1>9, <2>1, <2>2 DEF AdminStep
<1> QED BY <1>3, <1>4, <1>5, <1>6, <1>7, <1>8, <1>9 DEF Next

\* Opening and shutting connections leaves the tokens they remember alone.
LEMMA StKeepsToken ==
  ASSUME NEW f \in [Conn -> AgentConn], NEW c, NEW st \in {"up", "down"}
  PROVE  \A d \in Conn : [f EXCEPT ![c].st = st][d].token = f[d].token
<1>1. ASSUME NEW d \in Conn
      PROVE  [f EXCEPT ![c].st = st][d].token = f[d].token
  <2>1. CASE d = c
    <3>1. f[c] \in AgentConn
      BY <2>1
    <3>2. [f EXCEPT ![c].st = st][c] = [f[c] EXCEPT !.st = st]
      BY <2>1
    <3> QED BY <2>1, <3>1, <3>2 DEF AgentConn
  <2>2. CASE d # c
    BY <2>2
  <2> QED BY <2>1, <2>2
<1> QED BY <1>1

\* A statement of a lookup does not change what is looked up.
LEMMA LookStepKeepsToken ==
  ASSUME TypeOK, NEW k \in Caller, LookStep(k)
  PROVE  \A j \in Caller : look'[j].tok = look[j].tok
<1>1. PICK a : look' = [look EXCEPT ![k].at = a]
  BY DEF LookStep, SelectFormal, SelectStaged, Promote
<1>2. look \in [Caller -> Lookup]
  BY DEF TypeOK
<1>3. look'[k].tok = look[k].tok
  <2>1. look[k] \in Lookup /\ look'[k] = [look[k] EXCEPT !.at = a]
    BY <1>1, <1>2
  <2> QED BY <2>1 DEF Lookup
<1>4. \A j \in Caller : j # k => look'[j] = look[j]
  BY <1>1, <1>2
<1> QED BY <1>3, <1>4

\* Whoever remembers a token got it from the file, from a connection that was
\* accepted with it, or from a confirmed request.
LEMMA HoldersNext == WrittenInv /\ Next => Holders'
<1> SUFFICES ASSUME WrittenInv, Next PROVE Holders'
  OBVIOUS
<1>0. TypeOK /\ Holders /\ written \subseteq written'
  BY HistoryGrows DEF WrittenInv
<1>1. ASSUME UNCHANGED <<file, agent, look>>,
             \A c \in Conn : conn'[c].token \in Kept
      PROVE  Holders'
  BY <1>0, <1>1 DEF Holders, Kept
<1>11. ASSUME NEW k \in Caller, NEW t \in Kept,
              Lookups(k, Asks(t)) \/ Lookups(k, NoLookup)
       PROVE  \A j \in Caller : look'[j].tok \in Kept'
  <2>1. look \in [Caller -> Lookup] /\ Kept \subseteq Kept'
    BY <1>0 DEF TypeOK, Kept
  <2>2. Asks(t).tok \in Kept /\ NoLookup.tok \in Kept
    BY DEF Asks, NoLookup, Kept
  <2>3. \A j \in Caller : look[j].tok \in Kept
    BY <1>0 DEF Holders
  <2> QED BY <1>11, <2>1, <2>2, <2>3 DEF Lookups
<1>12. NoTok \in Kept /\ file \in Kept /\ Kept \subseteq Kept'
  BY <1>0 DEF Kept, Holders
<1>2. \A c \in Conn : conn[c].token \in Kept
  BY <1>0 DEF Holders
<1>3. ASSUME NEW c \in Conn, ServerStep(c) PROVE Holders'
  <2>1. CASE Accept(c)
    <3>1. conn'[c].token = look["dial"].tok
          /\ \A d \in Conn : d # c => conn'[d] = conn[d]
      BY <1>0, <2>1 DEF Accept, TypeOK
    <3>2. agent'.cur = agent.cur /\ agent'.prev = agent.prev
      BY <1>0, <2>1 DEF Accept, TypeOK, Agent
    <3>3. UNCHANGED file
      BY <2>1 DEF Accept
    <3>4. "dial" \in Caller
      BY DEF Caller
    <3>5. \A j \in Caller : look'[j].tok \in Kept'
      BY <1>11, <1>12, <2>1, <3>4 DEF Accept
    <3> QED BY <1>0, <1>12, <3>1, <3>2, <3>3, <3>4, <3>5 DEF Holders
  <2>2. CASE Attach(c)
    <3>1. \A d \in Conn : conn'[d].token = conn[d].token
      <4>1. conn \in [Conn -> AgentConn]
        BY <1>0 DEF TypeOK
      <4>2. CASE hub = NoConn
        <5>1. conn' = [conn EXCEPT ![c].st = "up"]
          BY <2>2, <4>2 DEF Attach
        <5> QED BY <4>1, <5>1, StKeepsToken
      <4>3. CASE hub # NoConn
        <5> DEFINE shut == [conn EXCEPT ![hub].st = "down"]
        <5>1. shut \in [Conn -> AgentConn]
          BY <4>1, StUpdateType
        <5>2. \A d \in Conn : shut[d].token = conn[d].token
          BY <4>1, StKeepsToken
        <5>3. conn' = [shut EXCEPT ![c].st = "up"]
          BY <2>2, <4>3 DEF Attach
        <5> HIDE DEF shut
        <5>4. \A d \in Conn : conn'[d].token = shut[d].token
          BY <5>1, <5>3, StKeepsToken
        <5> QED BY <5>2, <5>4
      <4> QED BY <4>2, <4>3
    <3> QED BY <1>1, <1>2, <2>2, <3>1 DEF Attach, checks
  <2>3. CASE HelloTimeout(c) \/ ReadLoopFails(c)
    <3>1. \A d \in Conn : conn'[d].token = conn[d].token
      <4>1. conn' = [conn EXCEPT ![c].st = "down"]
        BY <2>3 DEF HelloTimeout, ReadLoopFails
      <4> QED BY <1>0, <4>1, StKeepsToken DEF TypeOK
    <3> QED BY <1>1, <1>2, <2>3, <3>1
            DEF HelloTimeout, ReadLoopFails, checks
  <2>4. CASE Detach(c)
    BY <1>1, <1>2, <2>4 DEF Detach, checks
  <2> QED BY <1>3, <2>1, <2>2, <2>3, <2>4 DEF ServerStep
<1>4. CASE Reject
  <2>1. agent'.cur = agent.cur /\ agent'.prev = agent.prev
    BY <1>0, <1>4 DEF Reject, TypeOK, Agent
  <2>2. \A j \in Caller : look'[j].tok \in Kept'
    BY <1>4, <1>11, <1>12 DEF Reject, Caller
  <2> QED BY <1>0, <1>4, <1>12, <2>1, <2>2 DEF Reject, net, Holders
<1>5. CASE SweepCopy
  <2>1. conn[hub].token \in Kept /\ "sweep" \in Caller
    BY <1>0, <1>5 DEF SweepCopy, TypeOK, Holders, Caller
  <2>2. \A j \in Caller : look'[j].tok \in Kept'
    BY <1>5, <1>11, <2>1 DEF SweepCopy
  <2> QED BY <1>0, <1>5, <1>12, <2>2 DEF SweepCopy, net, Holders
<1>6. CASE SweepCheck
  <2>1. \A d \in Conn : conn'[d].token = conn[d].token
    <3>1. \/ conn' = conn
          \/ conn' = [conn EXCEPT ![sweep].st = "down"]
      BY <1>6 DEF SweepCheck
    <3>2. ASSUME conn' = [conn EXCEPT ![sweep].st = "down"]
          PROVE  \A d \in Conn : conn'[d].token = conn[d].token
      BY <1>0, <3>2, StKeepsToken DEF TypeOK
    <3> QED BY <3>1, <3>2
  <2>2. \A j \in Caller : look'[j].tok \in Kept'
    BY <1>6, <1>11, <1>12 DEF SweepCheck, Caller
  <2> QED BY <1>0, <1>6, <1>12, <2>1, <2>2 DEF SweepCheck, Holders
<1>13. ASSUME NEW k \in Caller, LookStep(k) PROVE Holders'
  <2>1. \A j \in Caller : look'[j].tok = look[j].tok
    BY <1>0, <1>13, LookStepKeepsToken
  <2>2. UNCHANGED <<file, agent, conn>>
    BY <1>13 DEF LookStep, SelectFormal, SelectStaged, Promote, net
  <2> QED BY <1>0, <1>12, <2>1, <2>2 DEF Holders
<1>7. ASSUME NEW r \in Request, Handler(r) PROVE Holders'
  <2>1. CASE SetToken(r)
    <3>1. req[r].tok \in Kept
      BY <2>1 DEF SetToken, WrittenInv, Replies, Kept
    <3>2. \A d \in Conn : conn'[d].token \in Kept
      BY <1>0, <1>2, <2>1, <3>1 DEF SetToken, TypeOK, AgentConn
    <3> QED BY <1>1, <2>1, <3>2 DEF SetToken, checks
  <2>3. CASE Authenticate(r) \/ Authed(r) \/ Denied(r)
    <3>1. UNCHANGED <<file, agent, conn>>
      BY <2>3 DEF Authenticate, Authed, Denied, net
    <3>2. \/ UNCHANGED look
          \/ Lookups(r, Asks(file)) \/ Lookups(r, NoLookup)
      BY <2>3 DEF Authenticate, Authed, Denied
    <3>3. CASE UNCHANGED look
      BY <1>1, <1>2, <3>1, <3>3
    <3>4. CASE Lookups(r, Asks(file)) \/ Lookups(r, NoLookup)
      <4>1. r \in Caller
        BY DEF Caller
      <4>2. \A j \in Caller : look'[j].tok \in Kept'
        BY <1>11, <1>12, <3>4, <4>1
      <4> QED BY <1>0, <1>12, <3>1, <4>2 DEF Holders
    <3> QED BY <3>2, <3>3, <3>4
  <2>2. CASE /\ ~SetToken(r) /\ ~Authenticate(r) /\ ~Authed(r)
             /\ ~Denied(r)
    BY <1>1, <1>2, <1>7, <2>2
       DEF Handler, StageMachineToken, Offline, RotateToken, Refused, Timeout,
           CommitMachineToken, net, checks
  <2> QED BY <2>1, <2>2, <2>3
<1>8. ASSUME NEW m \in acks, Deliver(m) PROVE Holders'
  BY <1>1, <1>2, <1>8 DEF Deliver, checks
<1>9. CASE AgentStep
  <2>0. ASSUME UNCHANGED conn, file' \in written', agent'.cur \in Kept',
               agent'.prev \in Kept',
               UNCHANGED look \/ Lookups("dial", Asks(file))
        PROVE  Holders'
    <3>1. \A j \in Caller : look'[j].tok \in Kept'
      <4>1. CASE UNCHANGED look
        BY <1>0, <1>12, <4>1 DEF Holders
      <4>2. CASE Lookups("dial", Asks(file))
        BY <1>11, <1>12, <4>2 DEF Caller
      <4> QED BY <2>0, <4>1, <4>2
    <3> QED BY <1>0, <1>12, <2>0, <3>1 DEF Holders
  <2>5. /\ UNCHANGED conn
        /\ UNCHANGED look \/ Lookups("dial", Asks(file))
    BY <1>9 DEF AgentStep, Start, Crash, Dial, DialFails, Disconnect, OnToken,
                Fallback, net, checks
  <2> SUFFICES file' \in written' /\ agent'.cur \in Kept'
                 /\ agent'.prev \in Kept'
    BY <2>0, <2>5
  <2>1. CASE Start \/ Crash
    <3>1. file' = file /\ written' = written
          /\ agent'.cur \in {file, NoTok} /\ agent'.prev = NoTok
      <4>1. CASE Start
        <5>1. agent' = [pc |-> "loop", conn |-> NoConn, cur |-> file,
                        prev |-> NoTok]
          BY <4>1 DEF Start, Off
        <5>2. file' = file /\ written' = written
          BY <4>1 DEF Start, past
        <5> QED BY <5>1, <5>2
      <4>2. CASE Crash
        <5>1. agent' = [pc |-> "off", conn |-> NoConn, cur |-> NoTok,
                        prev |-> NoTok]
          BY <4>2 DEF Crash, Off
        <5>2. file' = file /\ written' = written
          BY <4>2 DEF Crash, past
        <5> QED BY <5>1, <5>2
      <4> QED BY <2>1, <4>1, <4>2
    <3> QED BY <1>0, <3>1 DEF Holders, Kept
  <2>2. CASE Dial \/ DialFails \/ Disconnect
    <3>1. file' = file /\ written' = written
          /\ agent'.cur \in {file, agent.cur} /\ agent'.prev = agent.prev
      BY <1>0, <2>2 DEF Dial, DialFails, Disconnect, TypeOK, Agent, past
    <3> QED BY <1>0, <3>1 DEF Holders, Kept
  <2>3. CASE OnToken
    <3>1. CASE UNCHANGED <<file, written, agent>>
      BY <1>0, <3>1 DEF Holders, Kept
    <3>2. CASE ~ UNCHANGED <<file, written, agent>>
      <4> DEFINE t == Head(pushed[agent.conn]).tok
      <4>1. /\ file' = t /\ written' = written \cup {t}
            /\ agent' = [agent EXCEPT !.cur = t,
                    !.prev = IF t # agent.cur THEN agent.cur ELSE @]
        BY <2>3, <3>2 DEF OnToken
      <4> HIDE DEF t
      <4> QED BY <1>0, <4>1 DEF TypeOK, Agent, Holders, Kept
    <3> QED BY <3>1, <3>2
  <2>4. CASE Fallback
    BY <1>0, <2>4 DEF Fallback, TypeOK, Agent, Holders, Kept, past
  <2> QED BY <1>9, <2>1, <2>2, <2>3, <2>4 DEF AgentStep
<1>10. CASE AdminStep
  <2>1. CASE InstallToken
    BY <1>0, <2>1 DEF InstallToken, net, checks, Holders, Kept
  <2>2. CASE RegenMachineToken \/ SetDisabled
    BY <1>1, <1>2, <2>2 DEF RegenMachineToken, SetDisabled, net, checks
  <2> QED BY <1>10, <2>1, <2>2 DEF AdminStep
<1> QED BY <1>3, <1>4, <1>5, <1>6, <1>7, <1>8, <1>9, <1>10, <1>13 DEF Next

\* A delivered reply changes the reply of one request and nothing else.
LEMMA DeliverMoves ==
  ASSUME TypeOK, NEW m \in acks, Deliver(m)
  PROVE  \A r \in Request :
            /\ req'[r].pc = req[r].pc /\ req'[r].tok = req[r].tok
            /\ req'[r].reply = req[r].reply
               \/ (r = m.req /\ (req'[r].reply = "ok" => m.ok)
                   /\ req[r].pc = "waiting")
<1>1. CASE UNCHANGED req
  BY <1>1
<1>2. CASE ~ UNCHANGED req
  <2> DEFINE answer == IF m.ok THEN "ok" ELSE "err"
             k == [req[m.req] EXCEPT !.reply = answer]
  <2>1. /\ req' = [req EXCEPT ![m.req].reply = answer]
        /\ req[m.req].pc = "waiting"
    BY <1>2 DEF Deliver
  <2>2. m.req \in Request /\ req[m.req] \in Refresh
    BY DEF TypeOK, Ack
  <2>3. answer = "ok" => m.ok
    OBVIOUS
  <2> HIDE DEF answer
  <2>4. /\ k.pc = req[m.req].pc /\ k.tok = req[m.req].tok
        /\ k.reply = answer
    BY <2>2 DEF Refresh
  <2>5. req' = [req EXCEPT ![m.req] = k]
    BY <2>1
  <2> HIDE DEF k
  <2> QED BY <2>1, <2>2, <2>3, <2>4, <2>5 DEF TypeOK
<1> QED BY <1>1, <1>2

LEMMA FramesNext == WrittenInv /\ Next => Frames'
<1> SUFFICES ASSUME WrittenInv, Next PROVE Frames'
  OBVIOUS
<1>0. TypeOK /\ Frames
  BY DEF WrittenInv
<1>1. ASSUME Onward, UNCHANGED pushed PROVE Frames'
  BY <1>0, <1>1, FramesKept
<1>2. UNCHANGED req => Onward
  BY DEF Onward, Sent
<1>3. ASSUME NEW r \in Request, NEW k, req' = [req EXCEPT ![r] = k],
             req[r].pc \in Sent =>
                /\ k.pc \in Sent
                /\ k.pc # "done" => req[r].pc # "done" /\ k.tok = req[r].tok
      PROVE  Onward
  BY <1>0, <1>3 DEF Onward, TypeOK
<1>4. ASSUME NEW c \in Conn, ServerStep(c) PROVE Frames'
  <2>1. CASE Accept(c) \/ HelloTimeout(c) \/ Detach(c)
    BY <1>1, <1>2, <2>1 DEF Accept, HelloTimeout, Detach
  <2>2. CASE Attach(c) \/ ReadLoopFails(c)
    BY <1>0, <1>1, <1>2, <2>2, ShutdownOnward DEF Attach, ReadLoopFails
  <2> QED BY <1>4, <2>1, <2>2 DEF ServerStep
<1>5. CASE \/ Reject \/ SweepCopy
           \/ \E k \in Caller : LookStep(k)
  BY <1>1, <1>2, <1>5 DEF Reject, SweepCopy, LookStep, SelectFormal,
                          SelectStaged, Promote, net
<1>6. CASE SweepCheck
  BY <1>0, <1>1, <1>2, <1>6, ShutdownOnward DEF SweepCheck
<1>7. ASSUME NEW r \in Request, Handler(r) PROVE Frames'
  <2>1. CASE \/ Authenticate(r) \/ Authed(r) \/ Denied(r)
             \/ StageMachineToken(r)
    <3>1. req[r].pc \notin Sent /\ \E k : req' = [req EXCEPT ![r] = k]
      BY <2>1
         DEF Authenticate, Authed, Denied, Finish, StageMachineToken, Sent
    <3>2. UNCHANGED pushed
      BY <2>1 DEF Authenticate, Authed, Denied, StageMachineToken, net
    <3> QED BY <1>1, <1>3, <3>1, <3>2
  <2>2. CASE \/ Offline(r) \/ Refused(r) \/ Timeout(r) \/ SetToken(r)
    <3>1. Finish(r) /\ UNCHANGED pushed
      BY <2>2 DEF Offline, Refused, Timeout, SetToken, net
    <3> QED BY <1>0, <1>1, <3>1, FinishOnward
  <2>3. CASE CommitMachineToken(r)
    <3> DEFINE k == [req[r] EXCEPT !.pc = "committed"]
    <3>1. req' = [req EXCEPT ![r] = k] /\ UNCHANGED pushed
      BY <2>3 DEF CommitMachineToken, net
    <3>2. k.pc = "committed" /\ k.tok = req[r].tok /\ req[r].pc = "waiting"
      BY <1>0, <2>3 DEF CommitMachineToken, TypeOK, Refresh
    <3> HIDE DEF k
    <3> QED BY <1>1, <1>3, <3>1, <3>2 DEF Sent
  <2>4. CASE RotateToken(r)
    <3> DEFINE c == req[r].conn
    <3>1. CASE conn[c].st # "up"
      BY <1>0, <1>1, <2>4, <3>1, FinishOnward DEF RotateToken
    <3>2. CASE conn[c].st = "up"
      <4>1. /\ pushed' = [pushed EXCEPT ![c] =
                            Append(@, [req |-> r, tok |-> req[r].tok])]
            /\ req' = [req EXCEPT ![r].pc = "waiting"]
            /\ req[r].pc = "staged"
        BY <2>4, <3>2 DEF RotateToken
      <4>2. /\ req'[r].pc = "waiting" /\ req'[r].tok = req[r].tok
            /\ \A s \in Request : s # r => req'[s] = req[s]
        BY <1>0, <4>1 DEF TypeOK, Refresh
      <4>3. ASSUME NEW f \in Frame, FrameFits(f) PROVE FrameFits(f)'
        <5>1. f.req # r
          BY <4>1, <4>3 DEF FrameFits, Sent
        <5> QED BY <4>2, <4>3, <5>1 DEF FrameFits, Frame
      <4> DEFINE new == [req |-> r, tok |-> req[r].tok]
      <4>4. req'[new.req].pc = "waiting" /\ req'[new.req].tok = new.tok
        BY <4>2
      <4>5. new \in Frame /\ c \in Conn
        BY <1>0, <4>1 DEF TypeOK, Refresh, Frame
      <4>6. ASSUME NEW d \in Conn, NEW i \in 1..Len(pushed'[d])
            PROVE  FrameFits(pushed[d][i])'
        <5>1. pushed[d] \in Seq(Frame)
          BY <1>0 DEF TypeOK
        <5>2. CASE d # c
          <6>1. pushed'[d] = pushed[d]
            BY <1>0, <4>1, <5>2 DEF TypeOK
          <6>2. pushed[d][i] \in Frame /\ FrameFits(pushed[d][i])
            BY <1>0, <4>6, <5>1, <6>1 DEF Frames
          <6> QED BY <4>3, <6>1, <6>2 DEF FrameFits
        <5>3. CASE d = c
          <6>1. pushed'[d] = Append(pushed[d], new)
            BY <1>0, <4>1, <4>5, <5>3 DEF TypeOK
          <6> HIDE DEF new
          <6>2. CASE i = Len(pushed[d]) + 1
            <7>1. pushed'[d][i] = new
              BY <4>5, <5>1, <6>1, <6>2
            <7> QED BY <4>4, <7>1 DEF FrameFits, Sent
          <6>3. CASE i # Len(pushed[d]) + 1
            <7>1. i \in 1..Len(pushed[d]) /\ pushed'[d][i] = pushed[d][i]
              BY <4>5, <4>6, <5>1, <6>1, <6>3
            <7> DEFINE f == pushed[d][i]
            <7>2. f \in Frame /\ FrameFits(f) /\ pushed'[d][i] = f
              BY <1>0, <5>1, <7>1 DEF Frames
            <7> HIDE DEF f
            <7>3. /\ req'[f.req].pc \in Sent
                  /\ req'[f.req].pc # "done" => req'[f.req].tok = f.tok
              BY <4>3, <7>2 DEF FrameFits
            <7> QED BY <7>2, <7>3 DEF FrameFits
          <6> QED BY <6>2, <6>3
        <5> QED BY <5>2, <5>3
      <4> QED BY <4>6 DEF Frames
    <3> QED BY <3>1, <3>2
  <2> QED BY <1>7, <2>1, <2>2, <2>3, <2>4 DEF Handler
<1>8. ASSUME NEW m \in acks, Deliver(m) PROVE Frames'
  <2>1. \A r \in Request : req'[r].pc = req[r].pc /\ req'[r].tok = req[r].tok
    BY <1>0, <1>8, DeliverMoves
  <2> QED BY <1>1, <1>8, <2>1 DEF Deliver, Onward
<1>9. CASE AgentStep
  <2>1. CASE Start \/ Dial \/ DialFails \/ Fallback
    BY <1>1, <1>2, <2>1 DEF Start, Dial, DialFails, Fallback, net
  <2>2. CASE Crash \/ Disconnect \/ OnToken
    <3>1. UNCHANGED req
      BY <2>2 DEF Crash, Disconnect, OnToken
    <3>2. \A c \in Conn :
             \/ pushed'[c] = pushed[c] \/ pushed'[c] = << >>
             \/ pushed[c] # << >> /\ pushed'[c] = Tail(pushed[c])
      BY <1>0, <2>2 DEF Crash, Disconnect, OnToken, TypeOK
    <3> QED BY <1>0, <1>2, <3>1, <3>2, FramesKept
  <2> QED BY <1>9, <2>1, <2>2 DEF AgentStep
<1>10. CASE AdminStep
  BY <1>1, <1>2, <1>10
     DEF AdminStep, RegenMachineToken, InstallToken, SetDisabled, net
<1> QED BY <1>4, <1>5, <1>6, <1>7, <1>8, <1>9, <1>10 DEF Next

LEMMA RepliesNext == WrittenInv /\ Next => Replies'
<1> SUFFICES ASSUME WrittenInv, Next PROVE Replies'
  OBVIOUS
<1>0. TypeOK /\ Frames /\ Replies /\ written \subseteq written'
  BY HistoryGrows DEF WrittenInv
<1>1. ASSUME UNCHANGED <<req, acks>> PROVE Replies'
  BY <1>0, <1>1, RepliesKept DEF Onward, Sent
<1>2. ASSUME NEW c, Shutdown(c) PROVE Replies'
  <2>1. /\ Onward /\ acks' \subseteq acks
        /\ \A r \in Request : /\ req'[r].pc = req[r].pc
                              /\ req'[r].tok = req[r].tok
                              /\ req'[r].reply = "ok" => req[r].reply = "ok"
    BY <1>0, <1>2, ShutdownOnward
  <2> QED BY <1>0, <2>1, RepliesKept
<1>3. ASSUME NEW r \in Request, Finish(r), UNCHANGED acks PROVE Replies'
  <2>1. Onward /\ req'[r] = Local("done")
          /\ \A s \in Request : s # r => req'[s] = req[s]
    BY <1>0, <1>3, FinishOnward
  <2>2. req'[r].reply = "none" /\ req'[r].pc = "done"
    BY <2>1 DEF Local
  <2>3. \A s \in Request :
          req'[s].reply = "ok" \/ req'[s].pc = "committed" =>
            /\ req[s].reply = "ok" \/ req[s].pc = "committed"
            /\ req'[s].tok = req[s].tok
    BY <2>1, <2>2
  <2> QED BY <1>0, <1>3, <2>1, <2>3, RepliesKept
<1>4. ASSUME NEW r \in Request, NEW k, req' = [req EXCEPT ![r] = k],
             req[r].pc \notin Sent, k.pc # "committed", k.reply = "none",
             UNCHANGED acks
      PROVE  Replies'
  <2>1. req'[r] = k /\ \A s \in Request : s # r => req'[s] = req[s]
    BY <1>0, <1>4 DEF TypeOK
  <2>2. Onward
    BY <1>4, <2>1 DEF Onward, Sent
  <2>3. \A s \in Request :
          req'[s].reply = "ok" \/ req'[s].pc = "committed" =>
            /\ req[s].reply = "ok" \/ req[s].pc = "committed"
            /\ req'[s].tok = req[s].tok
    BY <1>4, <2>1
  <2> QED BY <1>0, <1>4, <2>2, <2>3, RepliesKept
<1>5. ASSUME NEW c \in Conn, ServerStep(c) PROVE Replies'
  BY <1>1, <1>2, <1>5
     DEF ServerStep, Accept, Attach, HelloTimeout, ReadLoopFails, Detach
<1>6. CASE \/ Reject \/ SweepCopy \/ SweepCheck
           \/ \E k \in Caller : LookStep(k)
  BY <1>1, <1>2, <1>6 DEF Reject, SweepCopy, SweepCheck, LookStep,
                          SelectFormal, SelectStaged, Promote, net
<1>7. ASSUME NEW r \in Request, Handler(r) PROVE Replies'
  <2>1. CASE Authenticate(r) \/ Authed(r) \/ Denied(r)
    <3>1. \E pc \in {"lookup", "authed", "done"} :
            req' = [req EXCEPT ![r] = Local(pc)]
      BY <2>1 DEF Authenticate, Authed, Denied, Finish
    <3>2. \A pc \in {"lookup", "authed", "done"} :
            Local(pc).pc # "committed" /\ Local(pc).reply = "none"
      BY DEF Local
    <3>3. req[r].pc \notin Sent /\ UNCHANGED acks
      BY <2>1 DEF Authenticate, Authed, Denied, Sent, net
    <3> QED BY <1>4, <3>1, <3>2, <3>3
  <2>2. CASE StageMachineToken(r)
    <3>1. /\ \E t : req' = [req EXCEPT ![r] = [pc |-> "staged", conn |-> hub,
                                               tok |-> t, reply |-> "none"]]
          /\ req[r].pc = "authed" /\ UNCHANGED acks
      BY <2>2 DEF StageMachineToken, net
    <3> QED BY <1>4, <3>1 DEF Sent
  <2>3. CASE \/ Offline(r) \/ Refused(r) \/ Timeout(r) \/ SetToken(r)
    BY <1>3, <2>3 DEF Offline, Refused, Timeout, SetToken, net
  <2>4. CASE RotateToken(r)
    <3>1. CASE Finish(r)
      BY <1>3, <2>4, <3>1 DEF RotateToken
    <3>2. CASE ~Finish(r)
      <4> DEFINE k == [req[r] EXCEPT !.pc = "waiting"]
      <4>1. req' = [req EXCEPT ![r] = k] /\ req[r].pc = "staged"
              /\ UNCHANGED acks
        BY <2>4, <3>2 DEF RotateToken
      <4>2. k.pc = "waiting" /\ k.tok = req[r].tok /\ k.reply = req[r].reply
        BY <1>0, <4>1 DEF TypeOK, Refresh
      <4> HIDE DEF k
      <4>3. req'[r] = k /\ \A s \in Request : s # r => req'[s] = req[s]
        BY <1>0, <4>1 DEF TypeOK
      <4>4. Onward
        BY <4>1, <4>3 DEF Onward, Sent
      <4>5. \A s \in Request :
              req'[s].reply = "ok" \/ req'[s].pc = "committed" =>
                /\ req[s].reply = "ok" \/ req[s].pc = "committed"
                /\ req'[s].tok = req[s].tok
        BY <4>2, <4>3
      <4> QED BY <1>0, <4>1, <4>4, <4>5, RepliesKept
    <3> QED BY <3>1, <3>2
  <2>5. CASE CommitMachineToken(r)
    <3> DEFINE k == [req[r] EXCEPT !.pc = "committed"]
    <3>1. req' = [req EXCEPT ![r] = k] /\ UNCHANGED acks
            /\ req[r].pc = "waiting" /\ req[r].reply = "ok"
      BY <2>5 DEF CommitMachineToken, net
    <3>2. k.pc = "committed" /\ k.tok = req[r].tok
      BY <1>0, <3>1 DEF TypeOK, Refresh
    <3> HIDE DEF k
    <3>3. req'[r] = k /\ \A s \in Request : s # r => req'[s] = req[s]
      BY <1>0, <3>1 DEF TypeOK
    <3>4. Onward
      BY <3>1, <3>2, <3>3 DEF Onward, Sent
    <3>5. \A s \in Request :
            req'[s].reply = "ok" \/ req'[s].pc = "committed" =>
              /\ req[s].reply = "ok" \/ req[s].pc = "committed"
              /\ req'[s].tok = req[s].tok
      BY <3>1, <3>2, <3>3
    <3> QED BY <1>0, <3>1, <3>4, <3>5, RepliesKept
  <2> QED BY <1>7, <2>1, <2>2, <2>3, <2>4, <2>5 DEF Handler
<1>8. ASSUME NEW m \in acks, Deliver(m) PROVE Replies'
  <2>1. \A r \in Request :
            /\ req'[r].pc = req[r].pc /\ req'[r].tok = req[r].tok
            /\ req'[r].reply = req[r].reply
               \/ (r = m.req /\ (req'[r].reply = "ok" => m.ok)
                   /\ req[r].pc = "waiting")
    BY <1>0, <1>8, DeliverMoves
  <2>2. acks' \subseteq acks /\ UNCHANGED written
    BY <1>8 DEF Deliver, past
  <2>3. \A n \in acks : n.req \in Request
    BY <1>0 DEF TypeOK, Ack
  <2>4. m.ok /\ req[m.req].pc # "done" => req[m.req].tok \in written
    BY <1>0 DEF Replies
  <2> QED BY <1>0, <2>1, <2>2, <2>3, <2>4 DEF Replies
<1>9. CASE AgentStep
  <2>1. CASE \/ Start \/ Crash \/ Dial \/ DialFails \/ Disconnect
             \/ Fallback
    BY <1>1, <2>1
       DEF Start, Crash, Dial, DialFails, Disconnect, Fallback, net
  <2>2. CASE OnToken
    <3>1. CASE UNCHANGED <<file, written, agent>>
            /\ \A m \in acks' : m.ok => m \in acks
      <4>1. UNCHANGED req
        BY <2>2 DEF OnToken
      <4>2. Onward
        BY <4>1 DEF Onward, Sent
      <4> QED BY <1>0, <3>1, <4>1, <4>2, RepliesKept
    <3>2. CASE ~ (UNCHANGED <<file, written, agent>>
                    /\ \A m \in acks' : m.ok => m \in acks)
      <4> DEFINE f == Head(pushed[agent.conn])
      <4>1. /\ written' = written \cup {f.tok} /\ UNCHANGED req
            /\ \A m \in acks' : m \in acks \/ m.req = f.req
        BY <2>2, <3>2 DEF OnToken
      <4>2. pushed[agent.conn] # << >> /\ agent.conn \in Conn
        BY <1>0, <2>2 DEF OnToken, TypeOK
      <4>3. FrameFits(f)
        <5>1. pushed[agent.conn] \in Seq(Frame)
          BY <1>0, <4>2 DEF TypeOK
        <5>2. f = pushed[agent.conn][1] /\ 1 \in 1..Len(pushed[agent.conn])
          BY <4>2, <5>1
        <5> QED BY <1>0, <4>2, <5>2 DEF Frames
      <4> HIDE DEF f
      <4> QED BY <1>0, <4>1, <4>3 DEF Replies, FrameFits
    <3> QED BY <3>1, <3>2
  <2> QED BY <1>9, <2>1, <2>2 DEF AgentStep
<1>10. CASE AdminStep
  BY <1>1, <1>10
     DEF AdminStep, RegenMachineToken, InstallToken, SetDisabled, net
<1> QED BY <1>5, <1>6, <1>7, <1>8, <1>9, <1>10 DEF Next

LEMMA WrittenInit == Init => WrittenInv
<1> SUFFICES ASSUME Init PROVE WrittenInv
  OBVIOUS
<1>1. TypeOK
  BY TypeInit
<1>2. Holders
  BY DEF Init, Holders, Kept, NoLookup, Off
<1>3. \A c \in Conn : pushed[c] = << >>
  BY DEF Init
<1>4. Frames
  BY <1>3 DEF Frames
<1>5. \A r \in Request : req[r].reply = "none" /\ req[r].pc = "idle"
  BY DEF Init, Local
<1>6. Replies
  BY <1>5 DEF Init, Replies
<1>7. FormalWasWritten
  BY DEF Init, FormalWasWritten
<1> QED BY <1>1, <1>2, <1>4, <1>6, <1>7 DEF WrittenInv

LEMMA WrittenNext == WrittenInv /\ [Next]_vars => WrittenInv'
<1>1. WrittenInv /\ Next => WrittenInv'
  BY TypeNext, HoldersNext, FramesNext, RepliesNext, FormalNext
     DEF WrittenInv
<1>2. WrittenInv /\ UNCHANGED vars => WrittenInv'
  <2> SUFFICES ASSUME WrittenInv, UNCHANGED vars PROVE WrittenInv'
    OBVIOUS
  <2>1. TypeOK'
    BY TypeNext DEF WrittenInv
  <2>2. Holders' /\ FormalWasWritten'
    BY DEF vars, WrittenInv, Holders, Kept, FormalWasWritten
  <2>3. Frames' /\ Replies'
    BY DEF vars, WrittenInv, Frames, FrameFits, Replies
  <2> QED BY <2>1, <2>2, <2>3 DEF WrittenInv
<1> QED BY <1>1, <1>2

\* FormalWasWritten: whatever refreshes overlap and whatever is lost, the
\* formal token is one the agent has had in its file or one the administrator
\* was given (rotate.go, "no ack, no change"; CommitMachineToken by value).
THEOREM FormalTokenWasWritten == Spec => []FormalWasWritten
<1>1. WrittenInv => FormalWasWritten
  BY DEF WrittenInv
<1> QED BY <1>1, WrittenInit, WrittenNext, PTL DEF Spec

-----------------------------------------------------------------------------
(* The split brain heals.  While nobody interferes there is never more     *)
(* than one new token about: it is staged only when no other one is, and   *)
(* until the agent has written it nobody else knows it, so that nobody can *)
(* make it the formal one.  From the moment it is written the file keeps   *)
(* it, and a promotion or a late commit does what the file wants.          *)

Generated == written \cup Good(row) \subseteq used

\* Nothing sends the agent back to a previous token: it dials with what the
\* file has, and a 401 finds it without another token.
Undisturbed ==
    /\ ~disabled /\ issued = {}
    /\ agent.pc = "rejected" => agent.prev = NoTok
    /\ agent.pc = "dialing" => look["dial"].tok = file

FileFollows == file = IF row.pending \in written THEN row.pending ELSE row.tok

\* A token between its staging and the agent's file.
Unread(t) == t = row.pending /\ t \notin written
Ahead(r) == req[r].pc = "staged"
InFlight ==
    /\ \A r \in Request : Ahead(r) => Unread(req[r].tok)
    /\ \A c \in Conn : \A i \in 1..Len(pushed[c]) : Unread(pushed[c][i].tok)
Alone ==
    /\ \A r, s \in Request : Ahead(r) /\ Ahead(s) => r = s
    /\ \A r \in Request, c \in Conn : Ahead(r) => pushed[c] = << >>
    /\ \A c, d \in Conn : pushed[c] # << >> /\ pushed[d] # << >> => c = d
    /\ \A c \in Conn : Len(pushed[c]) <= 1

Settled == Generated /\ FileFollows /\ InFlight /\ Alone
CalmInv == calm => Settled /\ Undisturbed

\* Nothing new is on its way after the step.
NothingNew ==
    /\ \A r \in Request : Ahead(r)' => Ahead(r) /\ req'[r].tok = req[r].tok
    /\ \A c \in Conn : pushed'[c] = pushed[c] \/ pushed'[c] = << >>

\* Who presents or commits a token the file has had does no harm.
LEMMA StaysSettled ==
  ASSUME WrittenInv, Settled, NothingNew, NEW t \in Kept,
         row' = row \/ row' = Committed(t),
         UNCHANGED <<used, file, written>>
  PROVE  Settled'
<1>1. row' = row \/ (/\ row' = [tok |-> t, pending |-> NoTok]
                     /\ t = row.pending /\ t \in written)
  BY DEF Committed, Staged, Kept
<1>2. NoTok \notin written /\ row \in Row
  BY TokenAssumption DEF WrittenInv, TypeOK
<1>3. Generated'
  BY <1>1, <1>2 DEF Settled, Generated, Good, Row
<1>4. FileFollows'
  BY <1>1, <1>2 DEF Settled, FileFollows
<1>5. InFlight'
  <2>1. CASE row' = row
    BY <2>1 DEF Settled, InFlight, NothingNew, Unread
  <2>2. CASE row.pending \in written
    <3>1. \A r \in Request : ~Ahead(r)
      BY <2>2 DEF Settled, InFlight, Unread
    <3>2. \A c \in Conn : \A i \in 1..Len(pushed[c]) : FALSE
      BY <2>2 DEF Settled, InFlight, Unread
    <3>3. \A c \in Conn : \A i \in 1..Len(pushed'[c]) : FALSE
      BY <3>2 DEF NothingNew
    <3> QED BY <3>1, <3>3 DEF InFlight, NothingNew
  <2> QED BY <1>1, <2>1, <2>2
<1>6. Alone'
  <2>1. \A c \in Conn : pushed'[c] # << >> => pushed'[c] = pushed[c]
    BY DEF NothingNew
  <2>2. \A c \in Conn : Len(pushed'[c]) <= 1
    BY DEF NothingNew, Settled, Alone
  <2> QED BY <2>1, <2>2 DEF Alone, NothingNew, Settled
<1> QED BY <1>3, <1>4, <1>5, <1>6 DEF Settled

LEMMA FileIsGood ==
  ASSUME WrittenInv, Settled
  PROVE  file \in Good(row)
BY TokenAssumption DEF WrittenInv, TypeOK, Settled, FileFollows, Good, Row

LEMMA ShutdownNothingNew ==
  ASSUME TypeOK, NEW c, Shutdown(c), UNCHANGED pushed
  PROVE  NothingNew
BY ShutdownOnward DEF NothingNew, Ahead

LEMMA FinishNothingNew ==
  ASSUME TypeOK, NEW r \in Request, Finish(r), UNCHANGED pushed
  PROVE  NothingNew
BY FinishOnward DEF NothingNew, Ahead, Local

LEMMA StaysUndisturbed ==
  ASSUME Undisturbed, UNCHANGED <<disabled, issued, file>>,
         \/ agent' = agent /\ look'["dial"].tok = look["dial"].tok
         \/ agent' = agent /\ agent.pc # "dialing"
         \/ agent'.pc \in {"off", "loop", "connected"}
  PROVE  Undisturbed'
BY DEF Undisturbed

\* A statement of a lookup promotes nothing but a token somebody has.
LEMMA CalmLook ==
  ASSUME WrittenInv, CalmInv, calm, NEW k \in Caller, LookStep(k)
  PROVE  Settled' /\ Undisturbed'
<1>1. Settled /\ Undisturbed /\ TypeOK /\ Holders
  BY DEF CalmInv, WrittenInv
<1>2. UNCHANGED <<used, file, written, disabled, issued, agent, req, pushed>>
  BY DEF LookStep, SelectFormal, SelectStaged, Promote, past, db, net
<1>3. look[k].tok \in Kept /\ (row' = row \/ row' = Committed(look[k].tok))
  BY <1>1 DEF LookStep, SelectFormal, SelectStaged, Promote, db, SetRow,
              Holders
<1>4. look'["dial"].tok = look["dial"].tok
  BY <1>1, LookStepKeepsToken DEF Caller
<1>5. NothingNew
  BY <1>2 DEF NothingNew, Ahead
<1>6. Settled'
  BY <1>1, <1>2, <1>3, <1>5, StaysSettled
<1>7. Undisturbed'
  BY <1>1, <1>2, <1>4, StaysUndisturbed
<1> QED BY <1>6, <1>7

LEMMA CalmServer ==
  ASSUME WrittenInv, CalmInv, calm, NEW c \in Conn, ServerStep(c)
  PROVE  Settled' /\ Undisturbed'
<1>1. Settled /\ Undisturbed /\ TypeOK
  BY DEF CalmInv, WrittenInv
<1>2. UNCHANGED <<row, used, file, written, disabled, issued>>
  BY DEF ServerStep, Accept, Attach, HelloTimeout, ReadLoopFails, Detach, db,
         past
<1>3. Undisturbed'
  <2>1. CASE Accept(c)
    <3>1. agent'.pc = "connected" \/ (agent' = agent /\ agent.pc # "dialing")
      BY <1>1, <2>1 DEF Accept, TypeOK, Agent
    <3> QED BY <1>1, <1>2, <3>1, StaysUndisturbed
  <2>2. CASE ~Accept(c)
    <3>1. UNCHANGED <<agent, look>>
      BY <2>2
         DEF ServerStep, Attach, HelloTimeout, ReadLoopFails, Detach, checks
    <3> QED BY <1>1, <1>2, <3>1, StaysUndisturbed
  <2> QED BY <2>1, <2>2
<1>4. NothingNew
  <2>1. CASE UNCHANGED <<req, pushed>>
    BY <2>1 DEF NothingNew, Ahead
  <2>2. CASE UNCHANGED pushed /\ (Shutdown(hub) \/ Shutdown(c))
    BY <1>1, <2>2, ShutdownNothingNew
  <2> QED BY <2>1, <2>2
          DEF ServerStep, Accept, Attach, HelloTimeout, ReadLoopFails, Detach
<1>5. NoTok \in Kept
  BY DEF Kept
<1>6. Settled'
  BY <1>1, <1>2, <1>4, <1>5, StaysSettled
<1> QED BY <1>3, <1>6

\* While it stays calm a dial is refused only to an agent that remembers no
\* other token: what it dials with is good.
LEMMA CalmReject ==
  ASSUME Undisturbed, file \in Good(row), TypeOK, calm', Reject
  PROVE  Undisturbed'
<1>1. UNCHANGED <<disabled, issued, file>>
  BY DEF Reject, db
<1>2. CASE agent.pc = "dialing"
  <2>1. agent.prev = NoTok
    BY <1>2 DEF Reject, Undisturbed
  <2>2. agent'.pc = "rejected" /\ agent'.prev = agent.prev
    BY <1>2 DEF Reject, TypeOK, Agent
  <2> QED BY <1>1, <2>1, <2>2 DEF Undisturbed
<1>3. CASE agent.pc # "dialing"
  BY <1>1, <1>3 DEF Reject, Undisturbed
<1> QED BY <1>2, <1>3

LEMMA CalmSweep ==
  ASSUME WrittenInv, CalmInv, calm, calm', Reject \/ SweepCopy \/ SweepCheck
  PROVE  Settled' /\ Undisturbed'
<1>1. Settled /\ Undisturbed /\ TypeOK
  BY DEF CalmInv, WrittenInv
<1>2. UNCHANGED <<row, used, file, written, disabled, issued>>
  BY DEF Reject, SweepCopy, SweepCheck, past, db
<1>3. NothingNew
  <2>1. CASE UNCHANGED <<req, pushed>>
    BY <2>1 DEF NothingNew, Ahead
  <2>2. CASE UNCHANGED pushed /\ Shutdown(sweep)
    BY <1>1, <2>2, ShutdownNothingNew
  <2> QED BY <2>1, <2>2 DEF Reject, SweepCopy, SweepCheck, net
<1>4. Undisturbed'
  <2>1. CASE Reject
    BY <1>1, <2>1, FileIsGood, CalmReject
  <2>2. CASE SweepCopy \/ SweepCheck
    <3>1. agent' = agent /\ \E l : look' = [look EXCEPT !["sweep"] = l]
      BY <2>2 DEF SweepCopy, SweepCheck, Lookups
    <3>2. look'["dial"].tok = look["dial"].tok
      BY <1>1, <3>1 DEF TypeOK, Caller
    <3> QED BY <1>1, <1>2, <3>1, <3>2, StaysUndisturbed
  <2> QED BY <2>1, <2>2
<1>5. NoTok \in Kept
  BY DEF Kept
<1>6. Settled'
  BY <1>1, <1>2, <1>3, <1>5, StaysSettled
<1> QED BY <1>4, <1>6

\* A token is staged where no other one is: nothing was on its way.
LEMMA CalmStage ==
  ASSUME WrittenInv, CalmInv, calm', NEW r \in Request, StageMachineToken(r)
  PROVE  Settled'
<1>1. calm /\ row.pending = NoTok
  BY DEF StageMachineToken
<1>2. Settled /\ TypeOK
  BY <1>1 DEF CalmInv, WrittenInv
<1>3. PICK t \in Fresh : /\ used' = used \cup {t}
                         /\ row' = [row EXCEPT !.pending = t]
                         /\ req' = [req EXCEPT ![r] =
                               [pc |-> "staged", conn |-> hub,
                                tok |-> t, reply |-> "none"]]
  BY DEF StageMachineToken, SetRow
<1>4. t \in Token /\ t \notin used /\ t \notin written
  BY <1>2, <1>3, FreshType DEF Settled, Generated
<1>5. UNCHANGED <<file, written, pushed>>
  BY DEF StageMachineToken, net
<1>6. \A s \in Request : ~Ahead(s)
  <2>1. \A s \in Request : Ahead(s) => req[s].tok = NoTok /\ req[s] \in Refresh
    BY <1>1, <1>2 DEF Settled, InFlight, Unread, TypeOK
  <2> QED BY <2>1, TokenAssumption DEF Ahead, Refresh
<1>7. \A c \in Conn : pushed[c] = << >>
  <2> TAKE c \in Conn
  <2>1. pushed[c] \in Seq(Frame)
    BY <1>2 DEF TypeOK
  <2>2. \A i \in 1..Len(pushed[c]) : pushed[c][i].tok = NoTok
    BY <1>1, <1>2 DEF Settled, InFlight, Unread
  <2>3. \A i \in 1..Len(pushed[c]) : pushed[c][i] \in Frame
    BY <2>1
  <2>4. \A i \in 1..Len(pushed[c]) : pushed[c][i].tok \in Token
    BY <2>3 DEF Frame
  <2> QED BY <2>1, <2>2, <2>4, TokenAssumption
<1>8. row \in Row /\ NoTok \notin written
  BY <1>2, TokenAssumption DEF TypeOK
<1>9. row'.pending = t /\ row'.tok = row.tok
  BY <1>3, <1>8 DEF Row
<1>10. Generated'
  BY <1>2, <1>3, <1>5, <1>8, <1>9 DEF Settled, Generated, Good
<1>11. FileFollows'
  BY <1>1, <1>2, <1>4, <1>5, <1>8, <1>9 DEF Settled, FileFollows
<1>12. \A s \in Request : Ahead(s)' => s = r /\ req'[s].tok = t
  BY <1>2, <1>3, <1>6 DEF Ahead, TypeOK
<1>13. InFlight'
  BY <1>4, <1>5, <1>7, <1>9, <1>12 DEF InFlight, Unread
<1>14. Alone'
  BY <1>5, <1>7, <1>12 DEF Alone
<1> QED BY <1>10, <1>11, <1>13, <1>14 DEF Settled

\* The token goes from the handler to the wire.
LEMMA CalmPush ==
  ASSUME WrittenInv, Settled, NEW r \in Request, RotateToken(r)
  PROVE  Settled'
<1>1. TypeOK /\ Ahead(r) /\ UNCHANGED <<row, used, file, written>>
  BY DEF WrittenInv, RotateToken, Ahead, db, past
<1>2. \A c \in Conn : pushed[c] = << >>
  BY <1>1 DEF Settled, Alone
<1>3. \A s \in Request : Ahead(s) => s = r
  BY <1>1 DEF Settled, Alone
<1>4. CASE conn[req[r].conn].st = "up"
  <2> DEFINE f == [req |-> r, tok |-> req[r].tok]
  <2>1. /\ pushed' = [pushed EXCEPT ![req[r].conn] = Append(@, f)]
        /\ req' = [req EXCEPT ![r].pc = "waiting"]
    BY <1>4 DEF RotateToken
  <2>2. req[r].conn \in Conn
    BY <1>1 DEF TypeOK, Refresh, Ahead
  <2>3. \A c \in Conn : pushed'[c] = IF c = req[r].conn THEN <<f>> ELSE << >>
    <3> HIDE DEF f
    <3>1. Append(pushed[req[r].conn], f) = <<f>>
      <4>1. pushed[req[r].conn] = << >>
        BY <1>2, <2>2
      <4>2. Append(<< >>, f) = <<f>>
        OBVIOUS
      <4> QED BY <4>1, <4>2
    <3>2. DOMAIN pushed = Conn
      BY <1>1 DEF TypeOK
    <3> QED BY <1>2, <2>1, <2>2, <3>1, <3>2
  <2>4. \A s \in Request : ~Ahead(s)'
    BY <1>1, <1>3, <2>1 DEF Ahead, TypeOK
  <2>5. f.tok = row'.pending /\ f.tok \notin written'
    BY <1>1 DEF Settled, InFlight, Unread
  <2> HIDE DEF f
  <2>6. \A c \in Conn : \A i \in 1..Len(pushed'[c]) : pushed'[c][i] = f
    BY <2>3
  <2>7. InFlight'
    BY <2>4, <2>5, <2>6 DEF InFlight, Unread
  <2>8. Alone'
    <3>1. \A c \in Conn : Len(pushed'[c]) <= 1
      <4> TAKE c \in Conn
      <4>1. CASE c = req[r].conn
        <5>1. pushed'[c] = <<f>>
          BY <2>3, <4>1
        <5> QED BY <5>1
      <4>2. CASE c # req[r].conn
        <5>1. pushed'[c] = << >>
          BY <2>3, <4>2
        <5> QED BY <5>1
      <4> QED BY <4>1, <4>2
    <3>2. \A c \in Conn : pushed'[c] # << >> => c = req[r].conn
      BY <2>3
    <3> QED BY <2>4, <3>1, <3>2 DEF Alone
  <2>9. Generated' /\ FileFollows'
    BY <1>1 DEF Settled, Generated, FileFollows, Good
  <2> QED BY <2>7, <2>8, <2>9 DEF Settled
<1>5. CASE conn[req[r].conn].st # "up"
  <2>1. NothingNew
    BY <1>1, <1>5, FinishNothingNew DEF RotateToken
  <2> QED BY <1>1, <2>1, StaysSettled DEF Kept
<1> QED BY <1>4, <1>5

LEMMA CalmHandler ==
  ASSUME WrittenInv, CalmInv, calm', NEW r \in Request, Handler(r)
  PROVE  Settled' /\ Undisturbed'
<1>1. calm
  BY DEF Handler, Authenticate, Authed, Denied, StageMachineToken, Offline,
         RotateToken, Refused, Timeout, CommitMachineToken, SetToken, past
<1>2. Settled /\ Undisturbed /\ TypeOK /\ Replies
  BY <1>1 DEF CalmInv, WrittenInv
<1>3. Undisturbed'
  <2>1. UNCHANGED <<disabled, issued, file, agent>>
    BY DEF Handler, Authenticate, Authed, Denied, StageMachineToken, Offline,
           RotateToken, Refused, Timeout, CommitMachineToken, SetToken, past,
           db
  <2>2. look' = look \/ \E l : look' = [look EXCEPT ![r] = l]
    BY DEF Handler, Authenticate, Authed, Denied, StageMachineToken, Offline,
           RotateToken, Refused, Timeout, CommitMachineToken, SetToken,
           Lookups, checks
  <2>3. look'["dial"].tok = look["dial"].tok
    BY <1>2, <2>2, RequestAssumption DEF TypeOK, Caller
  <2> QED BY <1>2, <2>1, <2>3, StaysUndisturbed
<1>4. CASE Authenticate(r) \/ Authed(r)
  <2>1. UNCHANGED <<row, used, file, written, pushed>>
    BY <1>4 DEF Authenticate, Authed, db, net, past
  <2>2. \E pc \in {"lookup", "authed"} : req' = [req EXCEPT ![r] = Local(pc)]
    BY <1>4 DEF Authenticate, Authed
  <2>3. NothingNew
    BY <1>2, <2>1, <2>2 DEF NothingNew, Ahead, Local, TypeOK
  <2> QED BY <1>2, <1>3, <2>1, <2>3, StaysSettled DEF Kept
<1>5. CASE StageMachineToken(r)
  BY <1>3, <1>5, CalmStage
<1>6. CASE RotateToken(r)
  BY <1>2, <1>3, <1>6, CalmPush
<1>7. CASE CommitMachineToken(r)
  <2>1. NothingNew
    BY <1>2, <1>7 DEF CommitMachineToken, NothingNew, Ahead, net, TypeOK
  <2>2. req[r].tok \in Kept /\ row' = Committed(req[r].tok)
    BY <1>2, <1>7 DEF Replies, Kept, CommitMachineToken, SetRow
  <2> QED BY <1>2, <1>3, <1>7, <2>1, <2>2, StaysSettled DEF CommitMachineToken
<1>8. CASE Denied(r) \/ Offline(r) \/ Refused(r) \/ Timeout(r) \/ SetToken(r)
  <2>1. UNCHANGED <<row, used, file, written, pushed>> /\ Finish(r)
    BY <1>8 DEF Denied, Offline, Refused, Timeout, SetToken, db, net, past
  <2>2. NothingNew
    BY <1>2, <2>1, FinishNothingNew
  <2> QED BY <1>2, <1>3, <2>1, <2>2, StaysSettled DEF Kept
<1> QED BY <1>4, <1>5, <1>6, <1>7, <1>8 DEF Handler

LEMMA CalmDeliver ==
  ASSUME WrittenInv, CalmInv, calm, NEW m \in acks, Deliver(m)
  PROVE  Settled' /\ Undisturbed'
<1>1. Settled /\ Undisturbed /\ TypeOK
  BY DEF CalmInv, WrittenInv
<1>2. UNCHANGED <<row, used, file, written, pushed>>
  BY DEF Deliver, db, past
<1>3. NothingNew
  BY <1>1, <1>2, DeliverMoves DEF NothingNew, Ahead
<1>4. Undisturbed'
  <2>1. UNCHANGED <<disabled, issued, file, agent, look>>
    BY DEF Deliver, db, past, checks
  <2> QED BY <1>1, <2>1, StaysUndisturbed
<1> QED BY <1>1, <1>2, <1>3, <1>4, StaysSettled DEF Kept

\* The agent writes the token, and the file has what is staged.
LEMMA CalmOnToken ==
  ASSUME WrittenInv, Settled, OnToken
  PROVE  Settled'
<1>1. TypeOK /\ agent.conn \in Conn /\ pushed[agent.conn] # << >>
  BY DEF WrittenInv, TypeOK, OnToken
<1> DEFINE f == Head(pushed[agent.conn])
<1>2. UNCHANGED <<row, req, used>>
  BY DEF OnToken, db
<1>3. pushed[agent.conn] \in Seq(Frame) /\ Len(pushed[agent.conn]) <= 1
  BY <1>1 DEF Settled, Alone, TypeOK
<1>4. f = pushed[agent.conn][1] /\ 1 \in 1..Len(pushed[agent.conn])
  BY <1>1, <1>3
<1>5. Unread(f.tok) /\ f.tok \in Token
  <2>1. Unread(f.tok)
    BY <1>1, <1>4 DEF Settled, InFlight
  <2>2. pushed[agent.conn][1] \in Frame
    BY <1>3, <1>4
  <2> QED BY <1>4, <2>1, <2>2 DEF Frame
<1>6. \A r \in Request : ~Ahead(r) /\ ~Ahead(r)'
  BY <1>1, <1>2 DEF Settled, Alone, Ahead
<1>7. Tail(pushed[agent.conn]) = << >>
  BY <1>1, <1>3
<1>8. \A c \in Conn : pushed'[c] = << >>
  <2>1. pushed' = [pushed EXCEPT ![agent.conn] = Tail(@)]
    BY DEF OnToken
  <2>2. \A c \in Conn : c # agent.conn => pushed[c] = << >>
    BY <1>1 DEF Settled, Alone
  <2> QED BY <1>1, <1>7, <2>1, <2>2 DEF TypeOK
<1>9. InFlight' /\ Alone'
  BY <1>6, <1>8 DEF InFlight, Alone
<1>10. \/ file' = f.tok /\ written' = written \cup {f.tok}
       \/ UNCHANGED <<file, written>>
  BY DEF OnToken
<1> HIDE DEF f
<1>11. FileFollows'
  BY <1>2, <1>5, <1>10 DEF Settled, FileFollows, Unread
<1>12. Generated'
  BY <1>2, <1>5, <1>10, TokenAssumption DEF Settled, Generated, Unread, Good
<1> QED BY <1>9, <1>11, <1>12 DEF Settled

LEMMA CalmAgent ==
  ASSUME WrittenInv, CalmInv, calm, AgentStep
  PROVE  Settled' /\ Undisturbed'
<1>1. Settled /\ Undisturbed /\ TypeOK
  BY DEF CalmInv, WrittenInv
<1>2. CASE OnToken
  <2>1. agent.pc = "connected" /\ agent'.pc = "connected"
    BY <1>1, <1>2 DEF OnToken, TypeOK, Agent
  <2>2. UNCHANGED <<disabled, issued>>
    BY <1>2 DEF OnToken, db
  <2>3. Undisturbed'
    BY <1>1, <2>1, <2>2 DEF Undisturbed
  <2> QED BY <1>1, <1>2, <2>3, CalmOnToken
<1>3. CASE Fallback
  <2>1. UNCHANGED <<row, disabled, issued, req, used, file, written, pushed>>
    BY <1>1, <1>3 DEF Fallback, Undisturbed, db, net, past
  <2>2. agent'.pc = "loop"
    BY <1>1, <1>3 DEF Fallback, TypeOK, Agent
  <2>3. NothingNew
    BY <2>1 DEF NothingNew, Ahead
  <2> QED BY <1>1, <2>1, <2>2, <2>3, StaysSettled, StaysUndisturbed DEF Kept
<1>4. CASE Start \/ Crash \/ Dial \/ DialFails \/ Disconnect
  <2>1. UNCHANGED <<row, disabled, issued, req, used, file, written>>
    BY <1>4 DEF Start, Crash, Dial, DialFails, Disconnect, db, past
  <2>2. NothingNew
    <3>1. pushed' = pushed \/ (\A c \in Conn : pushed'[c] = << >>)
                           \/ pushed' = [pushed EXCEPT ![agent.conn] = << >>]
      BY <1>4 DEF Start, Crash, Dial, DialFails, Disconnect, net
    <3> QED BY <1>1, <2>1, <3>1 DEF NothingNew, Ahead, TypeOK
  <2>3. Undisturbed'
    <3>1. CASE Dial
      <4>1. agent'.pc = "dialing" /\ look'["dial"].tok = file
        BY <1>1, <3>1 DEF Dial, Lookups, Asks, TypeOK, Agent, Caller
      <4> QED BY <1>1, <2>1, <4>1 DEF Undisturbed
    <3>2. CASE Start \/ Crash \/ DialFails \/ Disconnect
      <4>1. agent'.pc \in {"off", "loop"}
        <5>1. CASE Start
          BY <5>1 DEF Start, Off
        <5>2. CASE Crash
          BY <5>2 DEF Crash, Off
        <5>3. CASE DialFails \/ Disconnect
          BY <1>1, <5>3 DEF DialFails, Disconnect, TypeOK, Agent
        <5> QED BY <3>2, <5>1, <5>2, <5>3
      <4> QED BY <1>1, <2>1, <4>1, StaysUndisturbed
    <3> QED BY <1>4, <3>1, <3>2
  <2> QED BY <1>1, <2>1, <2>2, <2>3, StaysSettled DEF Kept
<1> QED BY <1>2, <1>3, <1>4 DEF AgentStep

LEMMA CalmNext ==
  ASSUME WrittenInv, CalmInv, [Next]_vars
  PROVE  CalmInv'
<1> SUFFICES ASSUME calm' PROVE Settled' /\ Undisturbed'
  BY DEF CalmInv
<1>1. CASE UNCHANGED vars
  BY <1>1 DEF vars, CalmInv, Settled, Undisturbed, Generated, FileFollows,
              Good, InFlight, Alone, Ahead, Unread
<1>2. ASSUME NEW r \in Request, Handler(r) PROVE Settled' /\ Undisturbed'
  BY <1>2, CalmHandler
<1>8. ASSUME NEW k \in Caller, LookStep(k) PROVE Settled' /\ Undisturbed'
  <2>1. calm
    BY <1>8 DEF LookStep, SelectFormal, SelectStaged, Promote, past
  <2> QED BY <1>8, <2>1, CalmLook
<1>3. ASSUME NEW c \in Conn, ServerStep(c) PROVE Settled' /\ Undisturbed'
  <2>1. calm
    BY <1>3 DEF ServerStep, Accept, Attach, HelloTimeout, ReadLoopFails,
                Detach, past
  <2> QED BY <1>3, <2>1, CalmServer
<1>4. CASE Reject \/ SweepCopy \/ SweepCheck
  <2>1. calm
    BY <1>4 DEF Reject, SweepCopy, SweepCheck, past
  <2> QED BY <1>4, <2>1, CalmSweep
<1>5. ASSUME NEW m \in acks, Deliver(m) PROVE Settled' /\ Undisturbed'
  <2>1. calm
    BY <1>5 DEF Deliver, past
  <2> QED BY <1>5, <2>1, CalmDeliver
<1>6. CASE AgentStep
  <2>1. calm
    BY <1>6 DEF AgentStep, Start, Crash, Dial, DialFails, Disconnect, OnToken,
                Fallback, past
  <2> QED BY <1>6, <2>1, CalmAgent
<1>7. CASE AdminStep
  <2>1. InstallToken /\ calm
    BY <1>7 DEF AdminStep, RegenMachineToken, SetDisabled, InstallToken
  <2> QED BY <2>1 DEF InstallToken, CalmInv, Undisturbed
<1> QED BY <1>1, <1>2, <1>3, <1>4, <1>5, <1>6, <1>7, <1>8 DEF Next

LEMMA CalmInit == Init => CalmInv
<1> SUFFICES ASSUME Init PROVE Settled /\ Undisturbed
  BY DEF CalmInv
<1>1. /\ \A r \in Request : ~Ahead(r)
      /\ \A c \in Conn : pushed[c] = << >>
  BY DEF Init, Ahead, Local
<1>2. InFlight /\ Alone
  BY <1>1 DEF InFlight, Alone
<1>3. Generated /\ FileFollows
  BY TokenAssumption DEF Init, Generated, FileFollows, Good
<1>4. Undisturbed
  BY DEF Init, Undisturbed, Off
<1> QED BY <1>2, <1>3, <1>4 DEF Settled

\* CalmFileIsGood: the token file holds a token the server takes, whatever
\* acks, connections, processes and file writes were lost and whatever ran
\* between the statements of a lookup, as long as no staged token has been
\* overwritten, the administrator has kept out, and no good token has been
\* refused to an agent that remembers another (machines.go: StageMachineToken,
\* MachineByToken; each exclusion is a way to a void file, see
\* AgentHoldsGoodToken).
THEOREM CalmMachineIsNotLockedOut == Spec => []CalmFileIsGood
<1>1. Init => WrittenInv /\ CalmInv
  BY WrittenInit, CalmInit
<1>2. WrittenInv /\ CalmInv /\ [Next]_vars => (WrittenInv /\ CalmInv)'
  BY WrittenNext, CalmNext
<1>3. WrittenInv /\ CalmInv => CalmFileIsGood
  BY FileIsGood DEF CalmInv, CalmFileIsGood
<1> QED BY <1>1, <1>2, <1>3, PTL DEF Spec

=============================================================================
