------------------------- MODULE StellarSessionProofs -------------------------
(***************************************************************************)
(* Proofs about StellarSession for every command line, environment, plan   *)
(* file, script, sequence of REPL blocks and classification of prompts,    *)
(* and any number of transactions of others.                               *)
(***************************************************************************)
EXTENDS StellarSession, TLAPS

Transactions == [run : Nat, action : Nat, challenge : Nat]
OutputLines ==
  [action : Nat, status : {"ok", "error"}, hash : Transactions, marked : BOOLEAN]

FlowTypes ==
  /\ run \in Nat
  /\ cursor \in Nat \ {0}
  /\ answer \in [ok : BOOLEAN, hash : Transactions]
  /\ ledger \in Seq(Transactions)
  /\ outputs \in Seq(OutputLines)
  /\ \A i \in DOMAIN plan : plan[i].challenge \in Nat

InFlow == {"judged", "previewed", "submitting", "answering"}
Sending == {"submitting", "answering"}

\* A plan in the flow was permitted, and has a line per action that is done.
PermittedInv ==
  pc \in InFlow => /\ exit = 0
                   /\ ~(prompted /\ Unclear(plan))
                   /\ Len(outputs) = cursor - 1
                   /\ run # 0

\* The hash in an output: its own transaction, which is in the ledger, or of a
\* contract what a function returned.
FoundHash(hash) ==
  \/ hash = NoHash
  \/ hash = Own /\ Own \in ToSet(ledger)
  \/ hash = ReturnValue /\ plan[cursor].kind \in Contract

\* The call that is answered, and what it left in the ledger.
AnswerInv ==
  pc = "answering" =>
    /\ cursor \in DOMAIN plan
    /\ plan[cursor].kind \in Classic \union Contract
    /\ answer.ok /\ plan[cursor].kind # "invoke" => Own \in ToSet(ledger)
    /\ FoundHash(answer.hash)

\* The transactions of the plan that is executed.
SentInv ==
  \A i \in Sent :
    /\ ledger[i].run \in 1 .. run
    /\ ledger[i].run = run =>
         /\ pc \in Sending \union {"done"}
         /\ exit = 0 /\ ~(prompted /\ Unclear(plan))
         /\ pc = "submitting" => ledger[i].action < cursor
         /\ pc = "answering" => ledger[i].action <= cursor
         /\ ledger[i].action \in DOMAIN plan
         /\ ledger[i].challenge = plan[ledger[i].action].challenge

FlowInv ==
  /\ FlowTypes /\ PermittedInv /\ AnswerInv /\ SentInv
  /\ SentOnceInOrder /\ HashesAreTraceable /\ OkWasSent

\* A plan that may be executed.
IsPlan(actions) ==
  \A i \in DOMAIN actions :
    actions[i] \in [kind : {actions[i].kind}, ready : BOOLEAN, challenge : Nat]

LEMMA FlowInitInv == FlowInit => FlowInv
  <1> SUFFICES ASSUME FlowInit PROVE FlowInv
    OBVIOUS
  <1> USE DEF FlowInit
  <1>1. FlowTypes
    BY DEF FlowTypes, NoAnswer, NoHash, Tx, Transactions
  <1>2. PermittedInv /\ AnswerInv
    BY DEF PermittedInv, AnswerInv, InFlow
  <1>3. Sent = {}
    BY DEF Sent
  <1>4. SentInv /\ SentOnceInOrder
    BY <1>3 DEF SentInv, SentOnceInOrder
  <1>5. HashesAreTraceable /\ OkWasSent
    BY DEF HashesAreTraceable, OkWasSent
  <1>6. QED
    BY <1>1, <1>2, <1>4, <1>5 DEF FlowInv

LEMMA SourceKeepsPlan ==
  ASSUME NEW actions, IsPlan(actions), NEW source
  PROVE  /\ DOMAIN WithSource(actions, source) = DOMAIN actions
         /\ \A i \in DOMAIN actions :
              /\ WithSource(actions, source)[i].kind = actions[i].kind
              /\ WithSource(actions, source)[i].challenge = actions[i].challenge
              /\ actions[i].challenge \in Nat
  BY DEF WithSource, IsPlan

LEMMA ExecuteInv ==
  ASSUME FlowInv, NEW actions, NEW asked, NEW codes, NEW flow, NEW source,
         IsPlan(actions), Execute(actions, asked, codes, flow, source)
  PROVE  FlowInv'
  <1> DEFINE next == WithSource(actions, source)
  <1>1. /\ plan' = next /\ run' = run + 1 /\ prompted' = asked /\ cursor' = 1
        /\ answer' = NoAnswer /\ outputs' = <<>> /\ ledger' = ledger
        /\ \E code \in codes : exit' = Verdict(code, actions, asked, flow)
        /\ pc' = IF flow /\ exit' = 0 THEN "judged" ELSE "done"
    BY DEF Execute
  <1>2. /\ DOMAIN next = DOMAIN actions
        /\ \A i \in DOMAIN actions : /\ next[i].kind = actions[i].kind
                                     /\ next[i].challenge \in Nat
    BY SourceKeepsPlan
  <1> HIDE DEF next
  <1>3. FlowTypes'
    BY <1>1, <1>2 DEF FlowInv, FlowTypes, NoAnswer, NoHash, Tx, Transactions
  <1>4. PermittedInv'
    <2>1. Unclear(next) = Unclear(actions)
      BY <1>2 DEF Unclear
    <2>2. pc' = "judged" => flow /\ exit' = 0 /\ ~(asked /\ Unclear(actions))
      BY <1>1 DEF Verdict
    <2>3. Len(outputs') = cursor' - 1
      BY <1>1
    <2>4. Unclear(plan)' = Unclear(next)
      BY <1>1 DEF Unclear
    <2>5. QED
      BY <1>1, <2>1, <2>2, <2>3, <2>4 DEF PermittedInv, InFlow, FlowInv, FlowTypes
  <1>5. AnswerInv'
    BY <1>1 DEF AnswerInv
  <1>6. Sent' = Sent
    BY <1>1 DEF Sent
  <1>7. \A i \in Sent : ledger[i].run \in 1 .. run' /\ ledger[i].run # run'
    BY <1>1 DEF FlowInv, FlowTypes, SentInv
  <1>8. SentInv'
    BY <1>1, <1>6, <1>7 DEF SentInv
  <1>9. SentOnceInOrder'
    BY <1>1, <1>6 DEF FlowInv, SentOnceInOrder
  <1>10. HashesAreTraceable' /\ OkWasSent'
    BY <1>1 DEF HashesAreTraceable, OkWasSent
  <1>11. QED
    BY <1>3, <1>4, <1>5, <1>8, <1>9, <1>10 DEF FlowInv

\* Steps before the submission, and after the last action of a plan.
LEMMA QuietInv ==
  ASSUME FlowInv, Simulate \/ Confirm \/ Finish
  PROVE  FlowInv'
  <1>1. /\ UNCHANGED <<plan, run, prompted, cursor, answer, ledger, outputs, exit>>
        /\ \/ pc = "judged" /\ pc' = "previewed"
           \/ pc = "previewed" /\ pc' \in {"submitting", "done"}
           \/ pc = "submitting" /\ pc' = "done"
    BY DEF Simulate, Confirm, Finish
  <1>2. FlowTypes'
    BY <1>1 DEF FlowInv, FlowTypes
  <1>3. PermittedInv'
    BY <1>1 DEF FlowInv, PermittedInv, InFlow, Unclear
  <1>4. AnswerInv'
    BY <1>1 DEF AnswerInv
  <1>5. Sent' = Sent
    BY <1>1 DEF Sent
  <1>6. SentInv'
    BY <1>1, <1>5 DEF FlowInv, SentInv, Sending, Unclear
  <1>7. SentOnceInOrder'
    BY <1>1, <1>5 DEF FlowInv, SentOnceInOrder
  <1>8. HashesAreTraceable' /\ OkWasSent'
    BY <1>1 DEF FlowInv, HashesAreTraceable, OkWasSent
  <1>9. QED
    BY <1>2, <1>3, <1>4, <1>6, <1>7, <1>8 DEF FlowInv

LEMMA LatestType ==
  ASSUME FlowTypes
  PROVE  /\ Latest \subseteq Transactions
         /\ \A hash \in Latest : hash = NoHash \/ hash \in ToSet(ledger)
  <1>1. NoHash \in Transactions
    BY DEF NoHash, Tx, Transactions
  <1>2. ledger # <<>> => Last(ledger) \in Transactions /\ Last(ledger) \in ToSet(ledger)
    BY DEF FlowTypes, Last, ToSet
  <1>3. QED
    BY <1>1, <1>2 DEF Latest

\* A line of an action: what it says is true, and its hash can be traced.
Honest(line) ==
  /\ line.hash # NoHash =>
       \/ line.hash = ReturnValue /\ plan[cursor].kind \in Contract /\ ~line.marked
       \/ /\ line.hash \in ToSet(ledger)
          /\ line.hash = Own \/ line.marked \/ plan[cursor].kind = "deploy"
  /\ line.status = "ok" /\ plan[cursor].kind \in Classic \union {"deploy"} =>
       Own \in ToSet(ledger)

LEMMA NextActionInv ==
  ASSUME FlowInv, pc \in Sending, cursor \in DOMAIN plan, NEW line \in OutputLines,
         Honest(line), NextAction(line), answer' \in {answer, NoAnswer},
         UNCHANGED <<plan, run, prompted, ledger, exit>>
  PROVE  FlowInv'
  <1>1. /\ outputs' = Append(outputs, line) /\ cursor' = cursor + 1 /\ pc' = "submitting"
    BY DEF NextAction
  <1>2. Len(outputs) = cursor - 1 /\ cursor \in Nat \ {0}
    BY DEF FlowInv, FlowTypes, PermittedInv, InFlow, Sending
  <1>3. outputs \in Seq(OutputLines) /\ outputs' \in Seq(OutputLines)
    BY <1>1 DEF FlowInv, FlowTypes
  <1>4. /\ DOMAIN outputs' = DOMAIN outputs \union {cursor}
        /\ cursor \notin DOMAIN outputs
        /\ outputs'[cursor] = line
        /\ \A i \in DOMAIN outputs : outputs'[i] = outputs[i]
        /\ Len(outputs') = cursor
    BY <1>1, <1>2, <1>3
  <1>5. FlowTypes'
    <2>1. answer' \in [ok : BOOLEAN, hash : Transactions]
      <3>1. NoAnswer \in [ok : BOOLEAN, hash : Transactions]
        BY DEF NoAnswer, NoHash, Tx, Transactions
      <3>2. QED
        BY <3>1 DEF FlowInv, FlowTypes
    <2>2. cursor' \in Nat \ {0}
      BY <1>1, <1>2
    <2>3. QED
      BY <1>3, <2>1, <2>2 DEF FlowInv, FlowTypes
  <1>6. PermittedInv'
    BY <1>1, <1>2, <1>4 DEF FlowInv, PermittedInv, InFlow, Sending, Unclear
  <1>7. AnswerInv'
    BY <1>1 DEF AnswerInv
  <1>8. Sent' = Sent /\ \A i \in Sent : ledger[i].action \in Nat
    <2>1. \A i \in DOMAIN ledger : ledger[i] \in Transactions
      BY DEF FlowInv, FlowTypes
    <2>2. QED
      BY <2>1 DEF Sent, Transactions
  <1>9. SentInv'
    BY <1>1, <1>2, <1>8 DEF FlowInv, SentInv, Sending, Unclear
  <1>10. SentOnceInOrder'
    BY <1>8 DEF FlowInv, SentOnceInOrder
  <1>11. HashesAreTraceable'
    BY <1>4 DEF FlowInv, HashesAreTraceable, Honest, Own
  <1>12. OkWasSent'
    BY <1>4 DEF FlowInv, OkWasSent, Honest, Own
  <1>13. QED
    BY <1>5, <1>6, <1>7, <1>9, <1>10, <1>11, <1>12 DEF FlowInv

LEMMA LineType ==
  ASSUME FlowTypes, NEW status \in {"ok", "error"}, NEW hash \in Transactions,
         NEW marked \in BOOLEAN
  PROVE  /\ Line(status, hash, marked) \in OutputLines
         /\ Line(status, hash, marked).status = status
         /\ Line(status, hash, marked).hash = hash
         /\ Line(status, hash, marked).marked = marked
  BY DEF FlowTypes, Line, OutputLines

LEMMA NoHashType == NoHash \in Transactions
  BY DEF NoHash, Tx, Transactions

LEMMA SkipInv ==
  ASSUME FlowInv, Skip
  PROVE  FlowInv'
  <1> DEFINE line == Line("error", NoHash, FALSE)
  <1>1. line \in OutputLines /\ Honest(line)
    <2>1. line \in OutputLines /\ line.hash = NoHash /\ line.status = "error"
      BY LineType, NoHashType, ZenonT(40) DEF FlowInv
    <2>2. QED
      BY <2>1 DEF Honest
  <1>2. QED
    BY <1>1, NextActionInv DEF Skip, Sending

LEMMA ReadInv ==
  ASSUME FlowInv, Read
  PROVE  FlowInv'
  <1>1. PICK status \in {"ok", "error"} : NextAction(Line(status, NoHash, FALSE))
    BY DEF Read
  <1> DEFINE line == Line(status, NoHash, FALSE)
  <1>2. plan[cursor].kind \notin Classic \union {"deploy"}
    BY DEF Read, Reads, Classic
  <1>3. line \in OutputLines /\ line.hash = NoHash
    BY LineType, NoHashType, ZenonT(40) DEF FlowInv
  <1> HIDE DEF line
  <1>4. Honest(line)
    BY <1>2, <1>3 DEF Honest
  <1>5. NextAction(line)
    BY <1>1 DEF line
  <1>6. QED
    BY <1>3, <1>4, <1>5, NextActionInv DEF Read, Sending

LEMMA ReportInv ==
  ASSUME FlowInv, Report
  PROVE  FlowInv'
  <1>1. /\ pc = "answering" /\ answer' = NoAnswer
        /\ UNCHANGED <<plan, run, prompted, ledger, exit>>
    BY DEF Report
  <1>2. cursor \in DOMAIN plan /\ plan[cursor].kind \in Classic \union Contract
    BY <1>1 DEF FlowInv, AnswerInv
  <1>3. answer.ok /\ plan[cursor].kind # "invoke" => Own \in ToSet(ledger)
    BY <1>1 DEF FlowInv, AnswerInv
  <1>4. /\ Own \in Transactions /\ FlowTypes
        /\ FoundHash(answer.hash) /\ answer.hash \in Transactions
    BY <1>1, <1>2 DEF Own, Tx, Transactions, FlowInv, FlowTypes, AnswerInv
  <1>5. \E line \in OutputLines : Honest(line) /\ NextAction(line)
    <2>1. ASSUME NEW hash \in Transactions, NEW marked \in BOOLEAN, answer.ok,
                 NextAction(Line("ok", hash, marked)),
                 hash # NoHash =>
                   \/ hash = ReturnValue /\ plan[cursor].kind \in Contract /\ ~marked
                   \/ /\ hash \in ToSet(ledger)
                      /\ hash = Own \/ marked \/ plan[cursor].kind = "deploy"
          PROVE  \E line \in OutputLines : Honest(line) /\ NextAction(line)
      <3> DEFINE line == Line("ok", hash, marked)
      <3>1. line \in OutputLines /\ line.hash = hash /\ line.marked = marked
        BY <1>4 DEF Line, OutputLines, FlowTypes
      <3> HIDE DEF line
      <3>2. Honest(line)
        BY <1>3, <2>1, <3>1 DEF Honest, Classic
      <3>3. NextAction(line)
        BY <2>1 DEF line
      <3>4. QED
        BY <3>1, <3>2, <3>3
    <2>2. CASE ~answer.ok /\ NextAction(Error)
      <3>1. Error \in OutputLines /\ Error.hash = NoHash /\ Error.status = "error"
        BY <1>4, LineType, NoHashType, ZenonT(40) DEF Error
      <3>2. Honest(Error)
        BY <3>1 DEF Honest
      <3>3. QED
        BY <2>2, <3>1, <3>2
    <2>3. CASE answer.ok /\ plan[cursor].kind \in Classic /\ NextAction(ClassicLine)
      <3>1. answer.hash # NoHash => answer.hash = Own /\ Own \in ToSet(ledger)
        BY <1>4, <2>3 DEF FoundHash, Classic, Contract
      <3>2. NextAction(Line("ok", answer.hash, FALSE))
        BY <2>3 DEF ClassicLine
      <3>3. QED
        BY <1>4, <2>1, <2>3, <3>1, <3>2
    <2>4. ASSUME answer.ok, plan[cursor].kind = "invoke", NEW latest \in Latest,
                 NextAction(InvokeLine(latest))
          PROVE  \E line \in OutputLines : Honest(line) /\ NextAction(line)
      <3>1. CASE answer.hash # NoHash
        <4>1. NextAction(Line("ok", answer.hash, FALSE))
          BY <2>4, <3>1 DEF InvokeLine
        <4>2. QED
          BY <1>4, <2>1, <2>4, <4>1 DEF FoundHash
      <3>2. CASE answer.hash = NoHash
        <4>1. NextAction(Line("ok", latest, latest # NoHash))
          BY <2>4, <3>2 DEF InvokeLine
        <4>2. latest \in Transactions /\ (latest # NoHash => latest \in ToSet(ledger))
          BY <1>4, LatestType
        <4>3. QED
          BY <2>1, <2>4, <4>1, <4>2
      <3>3. QED
        BY <3>1, <3>2
    <2>5. ASSUME answer.ok, plan[cursor].kind = "deploy", NEW latest \in Latest,
                 NextAction(DeployLine(latest))
          PROVE  \E line \in OutputLines : Honest(line) /\ NextAction(line)
      <3>1. PICK hash : hash = IF answer.hash # NoHash THEN answer.hash ELSE latest
        OBVIOUS
      <3>2. NextAction(Line("ok", hash, FALSE))
        BY <2>5, <3>1 DEF DeployLine
      <3>3. /\ hash \in Transactions
            /\ hash # NoHash => hash = ReturnValue \/ hash \in ToSet(ledger)
        BY <1>4, <3>1, LatestType DEF FoundHash
      <3>4. QED
        BY <2>1, <2>5, <3>2, <3>3 DEF Contract
    <2>6. QED
      BY <2>2, <2>3, <2>4, <2>5 DEF Report
  <1>6. QED
    BY <1>1, <1>2, <1>5, NextActionInv DEF Sending

\* The ledger only grows.
LEMMA AppendedLedger ==
  ASSUME FlowTypes, NEW tx \in Transactions, ledger' = Append(ledger, tx)
  PROVE  /\ ledger' \in Seq(Transactions)
         /\ DOMAIN ledger' = DOMAIN ledger \union {Len(ledger) + 1}
         /\ \A i \in DOMAIN ledger : ledger'[i] = ledger[i] /\ i < Len(ledger) + 1
         /\ ledger'[Len(ledger) + 1] = tx
         /\ ToSet(ledger) \subseteq ToSet(ledger')
         /\ tx \in ToSet(ledger')
  <1>1. /\ ledger' \in Seq(Transactions)
        /\ DOMAIN ledger' = DOMAIN ledger \union {Len(ledger) + 1}
        /\ \A i \in DOMAIN ledger : ledger'[i] = ledger[i] /\ i < Len(ledger) + 1
        /\ ledger'[Len(ledger) + 1] = tx
    BY DEF FlowTypes
  <1>2. QED
    BY <1>1 DEF ToSet

\* Once a call was made its transaction may be in the ledger, whatever it answers.
LEMMA CallInv ==
  ASSUME FlowInv, Call
  PROVE  FlowInv'
  <1>1. /\ pc = "submitting" /\ pc' = "answering"
        /\ cursor \in DOMAIN plan /\ plan[cursor].kind \in Classic \union Contract
        /\ UNCHANGED <<plan, run, prompted, cursor, outputs, exit>>
    BY DEF Call
  <1>2. PICK sent \in BOOLEAN, ok \in BOOLEAN : \E hash \in OutputHashes(sent) :
          /\ ok => sent \/ plan[cursor].kind = "invoke"
          /\ ledger' = IF sent THEN Append(ledger, Own) ELSE ledger
          /\ answer' = [ok |-> ok, hash |-> IF ok THEN hash ELSE NoHash]
    BY DEF Call
  <1>3. /\ Own \in Transactions /\ Own.run = run /\ Own.action = cursor
        /\ Own.challenge = plan[cursor].challenge
        /\ FlowTypes
    BY <1>1 DEF Own, Tx, Transactions, FlowInv, FlowTypes
  <1>4. /\ answer' \in [ok : BOOLEAN, hash : Transactions] /\ answer'.ok = ok
        /\ \/ answer'.hash = NoHash
           \/ answer'.hash = Own /\ sent
           \/ answer'.hash = ReturnValue /\ plan[cursor].kind \in Contract
    <2>1. PICK hash \in OutputHashes(sent) :
            answer' = [ok |-> ok, hash |-> IF ok THEN hash ELSE NoHash]
      BY <1>2
    <2>2. \/ hash = NoHash
          \/ hash = Own /\ sent
          \/ hash = ReturnValue /\ plan[cursor].kind \in Contract
      BY DEF OutputHashes
    <2>3. hash \in Transactions /\ NoHash \in Transactions
      BY <1>3, <2>2 DEF ReturnValue, NoHash, Tx, Transactions
    <2>4. QED
      BY <2>1, <2>2, <2>3
  <1>5. Own' = Own
    BY <1>1 DEF Own
  <1>6. /\ ledger' \in Seq(Transactions)
        /\ \A i \in DOMAIN ledger : i \in DOMAIN ledger' /\ ledger'[i] = ledger[i]
        /\ \A i \in DOMAIN ledger' \ DOMAIN ledger :
             ledger'[i] = Own /\ \A j \in DOMAIN ledger : j < i
        /\ \A i, j \in DOMAIN ledger' \ DOMAIN ledger : i = j
        /\ ToSet(ledger) \subseteq ToSet(ledger')
        /\ sent => Own \in ToSet(ledger')
    <2>1. CASE sent
      BY <1>2, <1>3, <2>1, AppendedLedger
    <2>2. CASE ~sent
      BY <1>2, <1>3, <2>2 DEF FlowTypes
    <2>3. QED
      BY <2>1, <2>2
  <1>7. \A i \in Sent' : \/ i \in Sent /\ ledger'[i] = ledger[i]
                         \/ i \in DOMAIN ledger' \ DOMAIN ledger
    BY <1>6 DEF Sent
  <1>8. FlowTypes'
    BY <1>1, <1>3, <1>4, <1>6 DEF FlowTypes
  <1>9. PermittedInv'
    BY <1>1 DEF FlowInv, PermittedInv, InFlow, Unclear
  <1>10. AnswerInv'
    <2>1. FoundHash(answer.hash)'
      BY <1>1, <1>4, <1>5, <1>6 DEF FoundHash
    <2>2. QED
      BY <1>1, <1>2, <1>4, <1>5, <1>6, <2>1 DEF AnswerInv
  <1>11. exit = 0 /\ ~(prompted /\ Unclear(plan))
    BY <1>1 DEF FlowInv, PermittedInv, InFlow
  <1>12. \A i \in Sent : ledger[i].action \in Nat /\ ledger[i].run \in Nat
    <2>1. \A i \in DOMAIN ledger : ledger[i] \in Transactions
      BY <1>3 DEF FlowTypes
    <2>2. QED
      BY <2>1 DEF Sent, Transactions
  <1>13. run \in 1 .. run /\ cursor \in Nat
    <2>1. run # 0
      BY <1>1 DEF FlowInv, PermittedInv, InFlow
    <2>2. QED
      BY <2>1, <1>3 DEF FlowTypes
  <1>14. SentInv'
    BY <1>1, <1>3, <1>6, <1>7, <1>11, <1>12, <1>13
    DEF FlowInv, SentInv, Sending, Unclear
  <1>15. SentOnceInOrder'
    <2> SUFFICES ASSUME NEW i \in Sent', NEW j \in Sent', i < j
                 PROVE  \/ ledger'[i].run < ledger'[j].run
                        \/ /\ ledger'[i].run = ledger'[j].run
                           /\ ledger'[i].action < ledger'[j].action
      BY DEF SentOnceInOrder
    <2>1. CASE i \in Sent /\ j \in Sent
      BY <1>6, <2>1 DEF FlowInv, SentOnceInOrder, Sent
    <2>2. CASE i \in Sent /\ ledger'[j] = Own
      BY <1>1, <1>3, <1>7, <1>12, <1>13, <1>6, <2>2 DEF FlowInv, SentInv, Sent
    <2>3. CASE i \notin DOMAIN ledger
      <3>1. j \in DOMAIN ledger
        BY <1>6, <2>3 DEF Sent
      <3>2. j < i
        BY <1>6, <2>3, <3>1 DEF Sent
      <3>3. i \in Int /\ j \in Int
        BY <1>6 DEF Sent
      <3>4. QED
        BY <3>2, <3>3
    <2>4. QED
      BY <1>6, <1>7, <2>1, <2>2, <2>3 DEF Sent
  <1>16. HashesAreTraceable'
    BY <1>1, <1>6 DEF FlowInv, HashesAreTraceable
  <1>17. OkWasSent'
    BY <1>1, <1>6 DEF FlowInv, OkWasSent
  <1>18. QED
    BY <1>8, <1>9, <1>10, <1>14, <1>15, <1>16, <1>17 DEF FlowInv

LEMMA OtherInv ==
  ASSUME FlowInv, Other
  PROVE  FlowInv'
  <1>1. /\ pc \in Sending /\ ledger' = Append(ledger, Foreign)
        /\ UNCHANGED <<plan, run, prompted, pc, cursor, answer, outputs, exit>>
    BY DEF Other, Sending
  <1>2. Foreign \in Transactions /\ FlowTypes
    BY DEF Foreign, Tx, Transactions, FlowInv
  <1>3. /\ ledger' \in Seq(Transactions)
        /\ DOMAIN ledger' = DOMAIN ledger \union {Len(ledger) + 1}
        /\ \A i \in DOMAIN ledger : ledger'[i] = ledger[i]
        /\ ledger'[Len(ledger) + 1] = Foreign
        /\ ToSet(ledger) \subseteq ToSet(ledger')
    BY <1>1, <1>2, AppendedLedger
  <1>4. Sent' \subseteq Sent /\ \A i \in Sent : ledger'[i] = ledger[i]
    BY <1>3 DEF Sent
  <1>5. FlowTypes'
    BY <1>1, <1>2, <1>3 DEF FlowTypes
  <1>6. PermittedInv'
    BY <1>1 DEF FlowInv, PermittedInv, Unclear
  <1>7. AnswerInv'
    BY <1>1, <1>3 DEF FlowInv, AnswerInv, FoundHash, Own
  <1>8. SentInv'
    BY <1>1, <1>4 DEF FlowInv, SentInv, Unclear
  <1>9. SentOnceInOrder'
    BY <1>4 DEF FlowInv, SentOnceInOrder
  <1>10. HashesAreTraceable'
    BY <1>1, <1>3 DEF FlowInv, HashesAreTraceable
  <1>11. OkWasSent'
    BY <1>1, <1>3 DEF FlowInv, OkWasSent
  <1>12. QED
    BY <1>5, <1>6, <1>7, <1>8, <1>9, <1>10, <1>11 DEF FlowInv

LEMMA FlowNextInv ==
  ASSUME FlowInv, FlowNext
  PROVE  FlowInv'
  BY QuietInv, SkipInv, ReadInv, CallInv, ReportInv, OtherInv DEF FlowNext

LEMMA FlowKept ==
  ASSUME FlowInv, UNCHANGED flowVars
  PROVE  FlowInv'
  <1> USE DEF flowVars
  <1>1. FlowTypes' /\ PermittedInv' /\ AnswerInv'
    BY DEF FlowInv, FlowTypes, PermittedInv, AnswerInv, FoundHash, Own, Unclear
  <1>2. Sent' = Sent
    BY DEF Sent
  <1>3. SentInv' /\ SentOnceInOrder' /\ HashesAreTraceable' /\ OkWasSent'
    BY <1>2 DEF FlowInv, SentInv, SentOnceInOrder, HashesAreTraceable, OkWasSent, Unclear
  <1>4. QED
    BY <1>1, <1>3 DEF FlowInv

------------------------------------------------------------------------------
(* What a session keeps. *)

Inputs == Scripts \union Blocks
Named == UNION {{s[i].words[2] : i \in DOMAIN s} : s \in Inputs}
ActionKinds == Kinds \union Named \union {"payment"}
ActionType == [kind : ActionKinds, ready : BOOLEAN, challenge : Nat]
ChallengeType == [payment : ActionType, finalized : BOOLEAN]

IsContext(c) ==
  c = [network |-> c.network, horizon |-> c.horizon, friendbot |-> c.friendbot,
       pinned |-> c.pinned, source |-> c.source, exec |-> c.exec,
       x402 |-> c.x402, allowlist |-> c.allowlist, policy |-> c.policy,
       variables |-> c.variables, challenges |-> c.challenges, plan |-> c.plan,
       prompted |-> c.prompted]
IsPinned(p) == p = [horizon |-> p.horizon, friendbot |-> p.friendbot]

\* No two actions of a plan pay the same challenge.
Distinct(actions) ==
  \A i, j \in DOMAIN actions :
    i # j => actions[i].challenge = 0 \/ actions[i].challenge # actions[j].challenge

Endpoints(c) ==
  /\ ~c.pinned.horizon => c.horizon \in {"blank", DefaultHorizon(c.network)}
  /\ ~c.pinned.friendbot => c.friendbot \in {"blank", DefaultFriendbot(c.network)}

\* The plan so far pays finalized challenges only, each once.
ContextInv(c) ==
  /\ IsContext(c) /\ IsPinned(c.pinned)
  /\ c.plan \in Seq(ActionType)
  /\ c.challenges \in Seq(ChallengeType)
  /\ \A n \in DOMAIN c.challenges : c.challenges[n].payment.challenge = n
  /\ \A i \in DOMAIN c.plan :
       c.plan[i].challenge # 0 => /\ c.plan[i].challenge \in DOMAIN c.challenges
                                  /\ c.challenges[c.plan[i].challenge].finalized
  /\ Distinct(c.plan)
  /\ Endpoints(c)

\* A challenge that is closed stays closed.
Extends(c) ==
  \A n \in DOMAIN ctx.challenges :
    /\ n \in DOMAIN c.challenges
    /\ ctx.challenges[n].finalized => c.challenges[n].finalized

SessionTypes ==
  /\ phase \in {"start", "building", "reading", "executing", "stopped"}
  /\ at \in Nat \ {0}
  /\ input \in Inputs \union {<<>>}
  /\ paying \in Nat

\* Nothing is sent before the one plan of a script, a plan file or a prompt.
BeforeRun == phase \in {"start", "building"} => pc = "idle" /\ ledger = <<>> /\ paying = 0

\* The plan that is executed pays nothing that an earlier one paid.
PaidInv ==
  /\ Distinct(plan)
  /\ \A i \in Sent : ledger[i].run # run =>
       \A k \in DOMAIN plan :
         plan[k].challenge = 0 \/ plan[k].challenge # ledger[i].challenge

\* In the REPL a paid challenge is closed, or is the one that is being paid.
ReplInv ==
  phase = "reading" =>
    /\ pc \in InFlow => \A k \in DOMAIN plan : plan[k].challenge \in {0, paying}
    /\ paying # 0 => /\ paying \in DOMAIN ctx.challenges
                     /\ ~ctx.challenges[paying].finalized
                     /\ pc # "idle"
                     /\ \E k \in DOMAIN plan : plan[k].challenge = paying
    /\ \A i \in Sent : ledger[i].challenge # 0 =>
         /\ ledger[i].challenge \in DOMAIN ctx.challenges
         /\ \/ ctx.challenges[ledger[i].challenge].finalized
            \/ ledger[i].challenge = paying /\ ledger[i].run = run

Inv ==
  /\ FlowInv /\ SessionTypes /\ ContextInv(ctx) /\ BeforeRun
  /\ PaidInv /\ ReplInv /\ ChallengePaidOnce

LEMMA ActionTypes ==
  /\ \A kind \in ActionKinds : Action(kind) \in ActionType /\ Action(kind).challenge = 0
  /\ \A s \in Inputs : \A i \in DOMAIN s : s[i].words[2] \in ActionKinds
  /\ Kinds \subseteq ActionKinds
  <1>1. \A kind \in ActionKinds : Action(kind) \in ActionType /\ Action(kind).challenge = 0
    BY DEF Action, ActionType
  <1>2. QED
    BY <1>1 DEF ActionKinds, Named

\* A plan of actions that pay no challenge.
LEMMA FreePlan ==
  ASSUME NEW actions, \A i \in DOMAIN actions : actions[i] \in ActionType,
         \A i \in DOMAIN actions : actions[i].challenge = 0
  PROVE  IsPlan(actions) /\ Distinct(actions)
  BY DEF IsPlan, Distinct, ActionType

LEMMA UnderstoodPlan ==
  ASSUME NEW kinds \in Understood
  PROVE  /\ Actions(kinds) \in Seq(ActionType)
         /\ \A i \in DOMAIN Actions(kinds) : Actions(kinds)[i].challenge = 0
  <1>1. kinds \in Seq(Kinds)
    BY SessionAssumption
  <1>2. \A i \in 1 .. Len(kinds) : kinds[i] \in ActionKinds
    BY <1>1, ActionTypes
  <1>3. Actions(kinds) = [i \in 1 .. Len(kinds) |-> Action(kinds[i])] /\ Len(kinds) \in Nat
    BY <1>1 DEF Actions
  <1>4. \A i \in 1 .. Len(kinds) :
          Action(kinds[i]) \in ActionType /\ Action(kinds[i]).challenge = 0
    BY <1>2, ActionTypes
  <1>5. QED
    BY <1>3, <1>4

\* Executing a plan that pays none of the challenges paid so far.
LEMMA RunInv ==
  ASSUME Inv, NEW actions, NEW asked, Run(actions, asked),
         IsPlan(actions), Distinct(actions),
         \A i \in Sent : \A k \in DOMAIN actions :
           actions[k].challenge = 0 \/ actions[k].challenge # ledger[i].challenge
  PROVE  /\ FlowInv' /\ PaidInv' /\ ChallengePaidOnce'
         /\ run' = run + 1 /\ ledger' = ledger /\ Sent' = Sent /\ pc' # "idle"
         /\ DOMAIN plan' = DOMAIN actions
         /\ \A k \in DOMAIN actions : plan'[k].challenge = actions[k].challenge
  <1>1. Execute(actions, asked, Codes, call.flow, ctx.source)
    BY DEF Run
  <1>2. FlowInv'
    BY <1>1, ExecuteInv DEF Inv
  <1>3. /\ DOMAIN plan' = DOMAIN actions
        /\ \A k \in DOMAIN actions : plan'[k].challenge = actions[k].challenge
    BY <1>1, SourceKeepsPlan DEF Execute
  <1>4. run' = run + 1 /\ ledger' = ledger /\ pc' # "idle"
    BY <1>1 DEF Execute
  <1>5. Sent' = Sent
    BY <1>4 DEF Sent
  <1>6. PaidInv'
    BY <1>3, <1>4, <1>5 DEF PaidInv, Distinct
  <1>7. ChallengePaidOnce'
    BY <1>4, <1>5 DEF Inv, ChallengePaidOnce
  <1>8. QED
    BY <1>2, <1>3, <1>4, <1>5, <1>6, <1>7

\* A step of the session that runs nothing.
Quiet ==
  /\ UNCHANGED <<flowVars, input, paying>>
  /\ at' \in Nat \ {0}
  /\ phase' \in {phase, "stopped"}
  /\ ContextInv(ctx') /\ Extends(ctx')
  /\ paying # 0 => UNCHANGED ctx

LEMMA PaidKept ==
  ASSUME Inv, UNCHANGED flowVars
  PROVE  FlowInv' /\ PaidInv' /\ ChallengePaidOnce' /\ Sent' = Sent
  <1>1. FlowInv'
    BY FlowKept DEF Inv
  <1>2. Sent' = Sent
    BY DEF Sent, flowVars
  <1>3. PaidInv' /\ ChallengePaidOnce'
    BY <1>2 DEF Inv, PaidInv, ChallengePaidOnce, Distinct, flowVars
  <1>4. QED
    BY <1>1, <1>2, <1>3

LEMMA QuietKeepsInv ==
  ASSUME Inv, Quiet
  PROVE  Inv'
  <1>1. FlowInv' /\ PaidInv' /\ ChallengePaidOnce' /\ Sent' = Sent
    BY PaidKept DEF Quiet
  <1>2. SessionTypes' /\ BeforeRun'
    BY DEF Inv, SessionTypes, BeforeRun, Quiet, flowVars
  <1>3. ContextInv(ctx)'
    BY DEF Quiet, ContextInv, Distinct, Endpoints, DefaultHorizon, DefaultFriendbot,
           IsContext, IsPinned
  <1>4. ReplInv'
    BY <1>1 DEF Inv, ReplInv, Quiet, Extends, flowVars
  <1>5. QED
    BY <1>1, <1>2, <1>3, <1>4 DEF Inv

LEMMA SameContext == ASSUME ContextInv(ctx), UNCHANGED ctx PROVE ContextInv(ctx') /\ Extends(ctx')
  BY DEF Extends, ContextInv, Distinct, Endpoints, DefaultHorizon, DefaultFriendbot,
         IsContext, IsPinned

LEMMA FailQuiet == ASSUME Inv, FailScript PROVE Quiet
  BY SameContext DEF FailScript, Quiet, Inv, SessionTypes

LEMMA DoneQuiet ==
  ASSUME Inv, paying = 0, NEW c, Done(c), ContextInv(c), Extends(c)
  PROVE  Quiet
  BY DEF Done, Quiet, Inv, SessionTypes

LEMMA FailsQuiet == ASSUME Inv, paying = 0, Fails PROVE Quiet
  <1>1. ContextInv(ctx) /\ Extends(ctx)
    BY DEF Inv, Extends
  <1>2. QED
    BY <1>1, DoneQuiet, FailQuiet DEF Fails

\* A directive changes settings and variables, no challenge and no plan.
LEMMA DirectiveQuiet ==
  ASSUME Inv, paying = 0, NEW c, Done(c), IsContext(c), IsPinned(c.pinned), Endpoints(c),
         c.plan = ctx.plan, c.challenges = ctx.challenges
  PROVE  Quiet
  <1>1. ContextInv(c) /\ Extends(c)
    BY DEF Inv, ContextInv, Extends
  <1>2. QED
    BY <1>1, DoneQuiet

LEMMA SettingsQuiet ==
  ASSUME Inv, paying = 0, Network \/ Horizon \/ Friendbot \/ Source \/ Generate \/ Bootstrap
  PROVE  Quiet
  <1>1. IsContext(ctx) /\ IsPinned(ctx.pinned) /\ Endpoints(ctx)
    BY DEF Inv, ContextInv
  <1>2. CASE Network
    <2> DEFINE c0 == [ctx EXCEPT
             !.network = Value,
             !.horizon = IF ctx.pinned.horizon THEN @ ELSE DefaultHorizon(Value),
             !.friendbot = IF ctx.pinned.friendbot THEN @ ELSE DefaultFriendbot(Value)]
    <2>0. PICK c : c = c0
      OBVIOUS
    <2>1. /\ IsContext(c)
          /\ c.network = Value /\ c.pinned = ctx.pinned
          /\ c.horizon = IF ctx.pinned.horizon THEN ctx.horizon ELSE DefaultHorizon(Value)
          /\ c.friendbot = IF ctx.pinned.friendbot THEN ctx.friendbot ELSE DefaultFriendbot(Value)
          /\ c.plan = ctx.plan /\ c.challenges = ctx.challenges
      BY <1>1, <2>0 DEF IsContext
    <2>2. Done(c)
      BY <2>0, <1>2 DEF Network
    <2> HIDE DEF c0
    <2>3. Endpoints(c)
      BY <1>1, <2>1 DEF Endpoints
    <2>4. QED
      BY <1>1, <2>1, <2>2, <2>3, DirectiveQuiet
  <1>3. CASE Horizon
    <2> DEFINE c0 == [ctx EXCEPT !.horizon = "own", !.pinned.horizon = TRUE]
    <2>0. PICK c : c = c0
      OBVIOUS
    <2>1. /\ IsContext(c) /\ IsPinned(c.pinned)
          /\ c.network = ctx.network /\ c.pinned.horizon = TRUE
          /\ c.pinned.friendbot = ctx.pinned.friendbot /\ c.friendbot = ctx.friendbot
          /\ c.plan = ctx.plan /\ c.challenges = ctx.challenges
      BY <1>1, <2>0 DEF IsContext, IsPinned
    <2>2. Done(c)
      BY <2>0, <1>3 DEF Horizon
    <2> HIDE DEF c0
    <2>3. Endpoints(c)
      BY <1>1, <2>1 DEF Endpoints
    <2>4. QED
      BY <2>1, <2>2, <2>3, DirectiveQuiet
  <1>4. CASE Friendbot
    <2> DEFINE c0 == [ctx EXCEPT !.friendbot = IF Value = "off" THEN "none" ELSE "own",
                                !.pinned.friendbot = TRUE]
    <2>0. PICK c : c = c0
      OBVIOUS
    <2>1. /\ IsContext(c) /\ IsPinned(c.pinned)
          /\ c.network = ctx.network /\ c.pinned.friendbot = TRUE
          /\ c.pinned.horizon = ctx.pinned.horizon /\ c.horizon = ctx.horizon
          /\ c.plan = ctx.plan /\ c.challenges = ctx.challenges
      BY <1>1, <2>0 DEF IsContext, IsPinned
    <2>2. Done(c)
      BY <2>0, <1>4 DEF Friendbot
    <2> HIDE DEF c0
    <2>3. Endpoints(c)
      BY <1>1, <2>1 DEF Endpoints
    <2>4. QED
      BY <2>1, <2>2, <2>3, DirectiveQuiet
  <1>5. CASE Done([ctx EXCEPT !.source = TRUE])
    <2> DEFINE c0 == [ctx EXCEPT !.source = TRUE]
    <2>0. PICK c : c = c0
      OBVIOUS
    <2>1. /\ IsContext(c)
          /\ c.network = ctx.network /\ c.pinned = ctx.pinned
          /\ c.horizon = ctx.horizon /\ c.friendbot = ctx.friendbot
          /\ c.plan = ctx.plan /\ c.challenges = ctx.challenges
      BY <1>1, <2>0 DEF IsContext
    <2>2. Done(c)
      BY <2>0, <1>5
    <2> HIDE DEF c0
    <2>3. Endpoints(c)
      BY <1>1, <2>1 DEF Endpoints
    <2>4. QED
      BY <1>1, <2>1, <2>2, <2>3, DirectiveQuiet
  <1>6. QED
    BY <1>2, <1>3, <1>4, <1>5, FailsQuiet DEF Source, Generate, Bootstrap, Wallet

LEMMA ContextQuiet == ASSUME Inv, paying = 0, Done(ctx) PROVE Quiet
  BY DoneQuiet DEF Inv, Extends

LEMMA ToggleQuiet ==
  ASSUME Inv, paying = 0, NEW flag \in Toggles, Toggle(flag)
  PROVE  Quiet
  <1> DEFINE c0 == [ctx EXCEPT ![flag] = Value = "on"]
  <1>0. PICK c : c = c0
    OBVIOUS
  <1>1. Fails \/ Done(ctx) \/ (flag \notin {"txrep", "debug"} /\ Done(c))
    BY <1>0 DEF Toggle
  <1>2. CASE flag \notin {"txrep", "debug"} /\ Done(c)
    <2>1. flag \in {"allowlist", "policy", "x402"}
      BY <1>2 DEF Toggles
    <2>2. /\ IsContext(c) /\ c.pinned = ctx.pinned
          /\ c.network = ctx.network /\ c.horizon = ctx.horizon /\ c.friendbot = ctx.friendbot
          /\ c.plan = ctx.plan /\ c.challenges = ctx.challenges
      <3>1. IsContext(ctx)
        BY DEF Inv, ContextInv
      <3>2. CASE flag = "allowlist"
        BY <1>0, <3>1, <3>2 DEF IsContext
      <3>3. CASE flag = "policy"
        BY <1>0, <3>1, <3>3 DEF IsContext
      <3>4. CASE flag = "x402"
        BY <1>0, <3>1, <3>4 DEF IsContext
      <3>5. QED
        BY <2>1, <3>2, <3>3, <3>4
    <2> HIDE DEF c0
    <2>3. IsPinned(c.pinned) /\ Endpoints(c)
      BY <2>2 DEF Inv, ContextInv, Endpoints
    <2>4. QED
      BY <1>2, <2>2, <2>3, DirectiveQuiet
  <1>3. QED
    BY <1>1, <1>2, FailsQuiet, ContextQuiet

LEMMA VariableQuiet ==
  ASSUME Inv, paying = 0, NEW v, Done([ctx EXCEPT !.variables = v])
  PROVE  Quiet
  <1> DEFINE c == [ctx EXCEPT !.variables = v]
  <1>1. IsContext(ctx) /\ IsPinned(ctx.pinned) /\ Endpoints(ctx)
    BY DEF Inv, ContextInv
  <1>2. /\ IsContext(c) /\ c.pinned = ctx.pinned
        /\ c.network = ctx.network /\ c.horizon = ctx.horizon /\ c.friendbot = ctx.friendbot
        /\ c.plan = ctx.plan /\ c.challenges = ctx.challenges
    BY <1>1 DEF IsContext
  <1>3. Done(c)
    OBVIOUS
  <1> HIDE DEF c
  <1>4. Endpoints(c)
    BY <1>1, <1>2 DEF Endpoints
  <1>5. QED
    BY <1>1, <1>2, <1>3, <1>4, DirectiveQuiet

\* A statement that queues actions which pay nothing.
LEMMA QueueQuiet ==
  ASSUME Inv, paying = 0, NEW c, Done(c), NEW more \in Seq(ActionType),
         \A i \in DOMAIN more : more[i].challenge = 0,
         IsContext(c), c.plan = ctx.plan \o more, c.challenges = ctx.challenges,
         c.pinned = ctx.pinned, c.network = ctx.network, c.horizon = ctx.horizon,
         c.friendbot = ctx.friendbot
  PROVE  Quiet
  <1>1. ctx.plan \in Seq(ActionType) /\ ContextInv(ctx)
    BY DEF Inv, ContextInv
  <1>2. /\ c.plan \in Seq(ActionType)
        /\ \A i \in DOMAIN c.plan :
             \/ i \in DOMAIN ctx.plan /\ c.plan[i] = ctx.plan[i]
             \/ i \notin DOMAIN ctx.plan /\ c.plan[i].challenge = 0
    <2>1. /\ c.plan \in Seq(ActionType) /\ Len(c.plan) = Len(ctx.plan) + Len(more)
          /\ \A i \in 1 .. Len(ctx.plan) + Len(more) :
               c.plan[i] = IF i <= Len(ctx.plan) THEN ctx.plan[i] ELSE more[i - Len(ctx.plan)]
      BY <1>1
    <2>2. \A i \in DOMAIN c.plan : i \notin DOMAIN ctx.plan =>
            i - Len(ctx.plan) \in DOMAIN more /\ ~(i <= Len(ctx.plan))
      BY <1>1, <2>1
    <2>3. QED
      BY <1>1, <2>1, <2>2
  <1>3. Distinct(c.plan)
    BY <1>1, <1>2 DEF ContextInv, Distinct
  <1>4. IsPinned(c.pinned) /\ Endpoints(c)
    BY <1>1 DEF ContextInv, Endpoints
  <1>5. ContextInv(c)
    BY <1>1, <1>2, <1>3, <1>4 DEF ContextInv
  <1>6. QED
    BY <1>5, DoneQuiet DEF Extends

LEMMA PromptInScriptQuiet == ASSUME Inv, paying = 0, PromptInScript PROVE Quiet
  <1>1. ASSUME NEW kinds \in Understood,
               Done([ctx EXCEPT !.plan = @ \o Actions(kinds), !.prompted = TRUE])
        PROVE  Quiet
    <2> DEFINE c0 == [ctx EXCEPT !.plan = @ \o Actions(kinds), !.prompted = TRUE]
    <2>1. PICK c : c = c0
      OBVIOUS
    <2>2. /\ IsContext(c) /\ c.plan = ctx.plan \o Actions(kinds)
          /\ c.challenges = ctx.challenges /\ c.pinned = ctx.pinned
          /\ c.network = ctx.network /\ c.horizon = ctx.horizon /\ c.friendbot = ctx.friendbot
      BY <2>1 DEF Inv, ContextInv, IsContext
    <2>3. Done(c)
      BY <1>1, <2>1
    <2> HIDE DEF c0
    <2>4. QED
      BY <2>2, <2>3, UnderstoodPlan, QueueQuiet
  <1>2. QED
    BY <1>1, FailQuiet DEF PromptInScript

LEMMA WordsOfInput ==
  ASSUME Inv, Within
  PROVE  /\ at \in DOMAIN input /\ input \in Inputs
         /\ input \in Seq(Lines)
         /\ Words[2] \in ActionKinds
  <1>1. input \in Inputs
    BY DEF Inv, SessionTypes, Within
  <1>2. input \in Seq(Lines)
    BY <1>1, SessionAssumption DEF Inputs
  <1>3. at \in DOMAIN input
    BY <1>2 DEF Inv, SessionTypes, Within
  <1>4. QED
    BY <1>1, <1>2, <1>3, ActionTypes DEF Words

LEMMA ActionLineQuiet == ASSUME Inv, paying = 0, Within, ActionLine PROVE Quiet
  <1> DEFINE c0 == [ctx EXCEPT !.plan = Append(@, Action(Words[2]))]
             more == <<Action(Words[2])>>
  <1>1. PICK c : c = c0
    OBVIOUS
  <1>2. /\ IsContext(c) /\ c.plan = Append(ctx.plan, Action(Words[2]))
        /\ c.challenges = ctx.challenges /\ c.pinned = ctx.pinned
        /\ c.network = ctx.network /\ c.horizon = ctx.horizon /\ c.friendbot = ctx.friendbot
    BY <1>1 DEF Inv, ContextInv, IsContext
  <1>3. Action(Words[2]) \in ActionType /\ Action(Words[2]).challenge = 0
    BY WordsOfInput, ActionTypes
  <1>4. more \in Seq(ActionType) /\ \A i \in DOMAIN more : more[i].challenge = 0
    BY <1>3
  <1>5. c.plan = ctx.plan \o more
    BY <1>2, <1>3 DEF Inv, ContextInv
  <1>6. Done(c)
    BY <1>1 DEF ActionLine
  <1> HIDE DEF c0, more
  <1>7. QED
    BY <1>2, <1>4, <1>5, <1>6, QueueQuiet

\* A new challenge is open, and the others are as they were.
LEMMA RequestQuiet == ASSUME Inv, paying = 0, Request PROVE Quiet
  <1> DEFINE payment == Payment(Words, Len(ctx.challenges) + 1)
             challenge == [payment |-> payment, finalized |-> FALSE]
             c0 == [ctx EXCEPT !.challenges = Append(@, challenge)]
  <1>1. Fails \/ Done(c0)
    BY DEF Request
  <1>2. CASE Done(c0)
    <2>1. ContextInv(ctx) /\ ctx.challenges \in Seq(ChallengeType)
      BY DEF Inv, ContextInv
    <2>2. challenge \in ChallengeType /\ challenge.payment.challenge = Len(ctx.challenges) + 1
      <3>1. payment \in ActionType /\ payment.challenge = Len(ctx.challenges) + 1
        BY <2>1 DEF Payment, ActionType, ActionKinds
      <3> HIDE DEF payment
      <3>2. QED
        BY <3>1 DEF ChallengeType
    <2>3. PICK c : c = c0
      OBVIOUS
    <2>4. /\ IsContext(c) /\ c.plan = ctx.plan
          /\ c.challenges = Append(ctx.challenges, challenge) /\ c.pinned = ctx.pinned
          /\ c.network = ctx.network /\ c.horizon = ctx.horizon /\ c.friendbot = ctx.friendbot
      BY <2>1, <2>3 DEF ContextInv, IsContext
    <2> HIDE DEF challenge, payment
    <2>5. /\ c.challenges \in Seq(ChallengeType)
          /\ DOMAIN c.challenges = DOMAIN ctx.challenges \union {Len(ctx.challenges) + 1}
          /\ \A n \in DOMAIN ctx.challenges : c.challenges[n] = ctx.challenges[n]
          /\ c.challenges[Len(ctx.challenges) + 1] = challenge
      BY <2>1, <2>2, <2>4
    <2>6. IsPinned(c.pinned) /\ Endpoints(c)
      BY <2>1, <2>4 DEF ContextInv, Endpoints
    <2>7. ContextInv(c)
      BY <2>1, <2>2, <2>4, <2>5, <2>6 DEF ContextInv
    <2>8. Extends(c)
      BY <2>5 DEF Extends
    <2>9. QED
      BY <1>2, <2>3, <2>7, <2>8, DoneQuiet
  <1>3. QED
    BY <1>1, <1>2, FailsQuiet

\* A script pays a challenge by an action of its plan, and closes it.
LEMMA FinalizeInScriptQuiet == ASSUME Inv, paying = 0, FinalizeInScript PROVE Quiet
  <1>1. ASSUME NEW n \in Open,
               Done([ctx EXCEPT !.plan = Append(@, ctx.challenges[n].payment),
                                !.challenges[n].finalized = TRUE])
        PROVE  Quiet
    <2> DEFINE payment == ctx.challenges[n].payment
               c0 == [ctx EXCEPT !.plan = Append(@, payment),
                                 !.challenges[n].finalized = TRUE]
    <2>1. /\ ContextInv(ctx) /\ ctx.plan \in Seq(ActionType)
          /\ ctx.challenges \in Seq(ChallengeType)
      BY DEF Inv, ContextInv
    <2>2. n \in DOMAIN ctx.challenges /\ ~ctx.challenges[n].finalized
      BY DEF Open, Resolved
    <2>open. ctx.challenges[n] \in ChallengeType /\ n \in Nat \ {0}
      BY <2>1, <2>2
    <2>3. payment \in ActionType /\ payment.challenge = n /\ n # 0
      BY <2>1, <2>2, <2>open DEF ContextInv, ChallengeType
    <2>4. PICK c : c = c0
      OBVIOUS
    <2>5. /\ IsContext(c) /\ c.plan = Append(ctx.plan, payment)
          /\ c.challenges = [ctx.challenges EXCEPT ![n].finalized = TRUE]
          /\ c.pinned = ctx.pinned
          /\ c.network = ctx.network /\ c.horizon = ctx.horizon /\ c.friendbot = ctx.friendbot
      BY <2>1, <2>4 DEF ContextInv, IsContext
    <2> HIDE DEF payment
    <2>6. /\ c.plan \in Seq(ActionType)
          /\ DOMAIN c.plan = DOMAIN ctx.plan \union {Len(ctx.plan) + 1}
          /\ \A i \in DOMAIN ctx.plan : c.plan[i] = ctx.plan[i]
          /\ c.plan[Len(ctx.plan) + 1] = payment
      BY <2>1, <2>3, <2>5
    <2>7. [ctx.challenges[n] EXCEPT !.finalized = TRUE] \in ChallengeType
      BY <2>open DEF ChallengeType
    <2>8. /\ c.challenges \in Seq(ChallengeType)
          /\ DOMAIN c.challenges = DOMAIN ctx.challenges
          /\ c.challenges[n].finalized
          /\ c.challenges[n].payment = ctx.challenges[n].payment
          /\ \A m \in DOMAIN ctx.challenges \ {n} : c.challenges[m] = ctx.challenges[m]
      BY <2>1, <2>2, <2>5, <2>7 DEF ChallengeType
    <2>9. IsPinned(c.pinned) /\ Endpoints(c)
      BY <2>1, <2>5 DEF ContextInv, Endpoints
    <2>10. \A i \in DOMAIN ctx.plan : ctx.plan[i].challenge # n
      BY <2>1, <2>2, <2>3 DEF ContextInv
    <2>11. Distinct(c.plan)
      BY <2>1, <2>3, <2>6, <2>10 DEF ContextInv, Distinct
    <2>12. ContextInv(c)
      BY <2>1, <2>2, <2>3, <2>5, <2>6, <2>8, <2>9, <2>11 DEF ContextInv
    <2>13. Extends(c)
      BY <2>8 DEF Extends
    <2>14. Done(c)
      BY <1>1, <2>4 DEF payment
    <2>15. QED
      BY <2>12, <2>13, <2>14, DoneQuiet
  <1>2. QED
    BY <1>1, FailQuiet DEF FinalizeInScript

\* The REPL runs a plan: of actions and prompts, which pays nothing, or the one
\* payment of an open challenge, which nothing that was sent pays.
LEMMA ReplRunInv ==
  ASSUME Inv, Ready, NEW actions, NEW asked, Run(actions, asked),
         IsPlan(actions), Distinct(actions),
         \/ /\ \A k \in DOMAIN actions : actions[k].challenge = 0
            /\ paying' = paying
         \/ /\ paying' \in DOMAIN ctx.challenges /\ ~ctx.challenges[paying'].finalized
            /\ DOMAIN actions = {1} /\ actions[1].challenge = paying',
         at' \in Nat \ {0}, UNCHANGED <<phase, input, ctx>>
  PROVE  Inv'
  <1>1. /\ phase = "reading" /\ paying = 0 /\ ContextInv(ctx)
    BY DEF Ready, Inv
  <1>2. \A i \in Sent : ledger[i].challenge # 0 =>
          /\ ledger[i].challenge \in DOMAIN ctx.challenges
          /\ ctx.challenges[ledger[i].challenge].finalized
    BY <1>1 DEF Inv, ReplInv
  <1>3. \A i \in Sent : \A k \in DOMAIN actions :
          actions[k].challenge = 0 \/ actions[k].challenge # ledger[i].challenge
    BY <1>2
  <1>4. /\ FlowInv' /\ PaidInv' /\ ChallengePaidOnce'
        /\ run' = run + 1 /\ ledger' = ledger /\ Sent' = Sent /\ pc' # "idle"
        /\ DOMAIN plan' = DOMAIN actions
        /\ \A k \in DOMAIN actions : plan'[k].challenge = actions[k].challenge
    BY <1>3, RunInv
  <1>5. paying' \in Nat
    <2>1. DOMAIN ctx.challenges \subseteq Nat
      BY <1>1 DEF ContextInv
    <2>2. QED
      BY <1>1, <2>1
  <1>6. SessionTypes' /\ BeforeRun'
    BY <1>1, <1>5 DEF Inv, SessionTypes, BeforeRun
  <1>7. ContextInv(ctx)'
    BY <1>1, SameContext
  <1>8. ReplInv'
    BY <1>1, <1>2, <1>4 DEF ReplInv
  <1>9. QED
    BY <1>4, <1>6, <1>7, <1>8 DEF Inv

LEMMA RunManualInv == ASSUME Inv, RunManual PROVE Inv'
  <1> DEFINE actions == [i \in DOMAIN input |-> Action(input[i].words[2])]
  <1>1. Ready /\ Within /\ Run(actions, FALSE) /\ at' = Len(input) + 1
        /\ UNCHANGED <<phase, input, ctx, paying>>
    BY DEF RunManual
  <1>2. input \in Inputs /\ input \in Seq(Lines)
    BY <1>1, WordsOfInput
  <1>3. \A i \in DOMAIN actions : actions[i] \in ActionType /\ actions[i].challenge = 0
    BY <1>2, ActionTypes
  <1>4. at' \in Nat \ {0}
    BY <1>1, <1>2
  <1> HIDE DEF actions
  <1>5. IsPlan(actions) /\ Distinct(actions)
    BY <1>3, FreePlan
  <1>6. QED
    BY <1>1, <1>3, <1>4, <1>5, ReplRunInv

LEMMA NextLine == ASSUME Inv PROVE at + 1 \in Nat \ {0}
  BY DEF Inv, SessionTypes

LEMMA PromptInReplInv == ASSUME Inv, PromptInRepl PROVE Inv'
  <1>1. ASSUME NEW kinds \in Understood, Run(Actions(kinds), TRUE), at' = at + 1,
               UNCHANGED <<phase, input, ctx, paying>>
        PROVE  Inv'
    <2>1. \A i \in DOMAIN Actions(kinds) :
            Actions(kinds)[i] \in ActionType /\ Actions(kinds)[i].challenge = 0
      BY UnderstoodPlan
    <2>2. IsPlan(Actions(kinds)) /\ Distinct(Actions(kinds))
      BY <2>1, FreePlan
    <2>3. Ready
      BY DEF PromptInRepl, InRepl
    <2>4. QED
      BY <1>1, <2>1, <2>2, <2>3, NextLine, ReplRunInv
  <1>2. paying = 0
    BY DEF PromptInRepl, InRepl, Ready
  <1>3. QED
    BY <1>1, <1>2, ContextQuiet, QuietKeepsInv DEF PromptInRepl

LEMMA FinalizeInReplInv == ASSUME Inv, FinalizeInRepl PROVE Inv'
  <1>1. ASSUME NEW n \in Open, Run(<<ctx.challenges[n].payment>>, FALSE), paying' = n,
               at' = at + 1, UNCHANGED <<phase, input, ctx>>
        PROVE  Inv'
    <2> DEFINE actions == <<ctx.challenges[n].payment>>
    <2>1. n \in DOMAIN ctx.challenges /\ ~ctx.challenges[n].finalized
      BY DEF Open, Resolved
    <2>2. ctx.challenges[n] \in ChallengeType /\ ctx.challenges[n].payment.challenge = n
      BY <2>1 DEF Inv, ContextInv
    <2>3. ctx.challenges[n].payment \in ActionType
      BY <2>2 DEF ChallengeType
    <2>4. DOMAIN actions = {1} /\ actions[1] \in ActionType /\ actions[1].challenge = n
      BY <2>2, <2>3
    <2>5. Run(actions, FALSE)
      BY <1>1
    <2> HIDE DEF actions
    <2>6. IsPlan(actions) /\ Distinct(actions)
      BY <2>4 DEF IsPlan, Distinct, ActionType
    <2>7. Ready
      BY DEF FinalizeInRepl, InRepl
    <2>8. QED
      BY <1>1, <2>1, <2>4, <2>5, <2>6, <2>7, NextLine, ReplRunInv
  <1>2. paying = 0
    BY DEF FinalizeInRepl, InRepl, Ready
  <1>3. QED
    BY <1>1, <1>2, ContextQuiet, QuietKeepsInv DEF FinalizeInRepl

LEMMA StatementsInv == ASSUME Inv, Statements PROVE Inv'
  <1>1. Within /\ paying = 0
    BY DEF Statements, InRepl, InScript, AtLine, InBlock, Ready, Inv, BeforeRun
  <1>2. CASE FinalizeInRepl \/ PromptInRepl
    BY <1>2, FinalizeInReplInv, PromptInReplInv
  <1>3. CASE Quiet
    BY <1>3, QuietKeepsInv
  <1>4. Quiet \/ FinalizeInRepl \/ PromptInRepl
    <2>1. ASSUME Plain PROVE Quiet
      BY <1>1, <2>1, ContextQuiet DEF Plain
    <2>2. ASSUME Threshold \/ Macro \/ CliBinary PROVE Quiet
      BY <1>1, <2>2, ContextQuiet, FailsQuiet, FailQuiet DEF Threshold, Macro, CliBinary
    <2>3. ASSUME NEW kind \in Toggles, Toggle(kind) PROVE Quiet
      BY <1>1, <2>3, ToggleQuiet
    <2>4. ASSUME Predict \/ Assign PROVE Quiet
      BY <1>1, <2>4, VariableQuiet, FailsQuiet DEF Predict, Assign
    <2>5. QED
      BY <1>1, <2>1, <2>2, <2>3, <2>4, SettingsQuiet, RequestQuiet,
         FinalizeInScriptQuiet, ActionLineQuiet, PromptInScriptQuiet DEF Statements
  <1>5. QED
    BY <1>2, <1>3, <1>4

\* The steps through the blocks of a script, and the other lines of the REPL.
LEMMA StructureInv == ASSUME Inv, Structure, ~RunScript PROVE Inv'
  <1>1. /\ UNCHANGED <<flowVars, input, paying, ctx>>
        /\ phase' \in {phase, "stopped"} /\ at' \in {at, at + 1}
    BY DEF Structure, BadIndentation, OrphanBranch, OpenChain, NextBranch, OpenBranch,
           CloseChain, CloseBlock, SkipStatement, FailScript
  <1>2. at' \in Nat \ {0}
    BY <1>1, NextLine DEF Inv, SessionTypes
  <1>3. Quiet
    BY <1>1, <1>2, SameContext DEF Quiet, Inv
  <1>4. QED
    BY <1>3, QuietKeepsInv

LEMMA ReplLinesInv == ASSUME Inv, Exit \/ SetupTestnet PROVE Inv'
  <1>1. CASE Exit
    <2>1. Quiet
      BY <1>1, SameContext DEF Exit, Quiet, Inv, SessionTypes
    <2>2. QED
      BY <2>1, QuietKeepsInv
  <1>2. CASE SetupTestnet
    <2> DEFINE c0 == [ctx EXCEPT !.network = "testnet", !.horizon = "testnet",
                                 !.friendbot = "testnet",
                                 !.pinned = [horizon |-> FALSE, friendbot |-> FALSE]]
    <2>1. PICK c : c = c0
      OBVIOUS
    <2>2. /\ IsContext(c) /\ c.plan = ctx.plan /\ c.challenges = ctx.challenges
          /\ c.pinned = [horizon |-> FALSE, friendbot |-> FALSE]
          /\ c.network = "testnet" /\ c.horizon = "testnet" /\ c.friendbot = "testnet"
      BY <2>1 DEF Inv, ContextInv, IsContext
    <2>3. ctx' = c
      BY <1>2, <2>1 DEF SetupTestnet
    <2> HIDE DEF c0
    <2>4. IsPinned(c.pinned) /\ Endpoints(c)
      BY <2>2 DEF IsPinned, Endpoints, DefaultHorizon, DefaultFriendbot
    <2>5. ContextInv(c) /\ Extends(c)
      BY <2>2, <2>4 DEF Inv, ContextInv, Extends
    <2>6. Quiet
      BY <1>2, <2>3, <2>5, NextLine DEF SetupTestnet, Quiet, Ready
    <2>7. QED
      BY <2>6, QuietKeepsInv
  <1>3. QED
    BY <1>1, <1>2

\* The one plan of a script, a plan file or a prompt, before which nothing was sent.
LEMMA OnePlanInv ==
  ASSUME Inv, phase \in {"start", "building"}, phase' = "executing",
         NEW actions, NEW asked, Run(actions, asked), IsPlan(actions), Distinct(actions),
         UNCHANGED <<input, at, ctx, paying>>
  PROVE  Inv'
  <1>1. Sent = {}
    BY DEF Inv, BeforeRun, Sent
  <1>2. FlowInv' /\ PaidInv' /\ ChallengePaidOnce'
    BY <1>1, RunInv
  <1>3. SessionTypes' /\ BeforeRun' /\ ReplInv'
    BY DEF Inv, SessionTypes, BeforeRun, ReplInv
  <1>4. ContextInv(ctx)'
    BY SameContext DEF Inv
  <1>5. QED
    BY <1>2, <1>3, <1>4 DEF Inv

LEMMA RunFileInv == ASSUME Inv, RunFile PROVE Inv'
  <1> DEFINE FreeActions == [kind : Kinds, ready : BOOLEAN, challenge : {0}]
  <1>1. PICK p \in Files : Run(p, FALSE)
    BY DEF RunFile
  <1>2. p \in Seq(FreeActions)
    BY SessionAssumption
  <1>3. \A a \in FreeActions : a \in ActionType /\ a.challenge = 0
    BY ActionTypes DEF ActionType
  <1> HIDE DEF FreeActions
  <1>4. \A i \in DOMAIN p : p[i] \in ActionType /\ p[i].challenge = 0
    BY <1>2, <1>3
  <1>5. IsPlan(p) /\ Distinct(p)
    BY <1>4, FreePlan
  <1>6. QED
    BY <1>1, <1>5, OnePlanInv DEF RunFile

LEMMA RunTextInv == ASSUME Inv, RunText PROVE Inv'
  <1>1. ASSUME NEW kinds \in Understood, Run(Actions(kinds), TRUE), phase' = "executing"
        PROVE  Inv'
    <2>1. \A i \in DOMAIN Actions(kinds) :
            Actions(kinds)[i] \in ActionType /\ Actions(kinds)[i].challenge = 0
      BY UnderstoodPlan
    <2>2. IsPlan(Actions(kinds)) /\ Distinct(Actions(kinds))
      BY <2>1, FreePlan
    <2>3. QED
      BY <1>1, <2>2, OnePlanInv DEF RunText
  <1>2. CASE phase' = "stopped" /\ UNCHANGED flowVars
    <2>1. Quiet
      BY <1>2, SameContext DEF RunText, Quiet, Inv, SessionTypes
    <2>2. QED
      BY <2>1, QuietKeepsInv
  <1>3. QED
    BY <1>1, <1>2 DEF RunText

LEMMA RunScriptInv == ASSUME Inv, RunScript PROVE Inv'
  <1>1. phase = "building" /\ phase' = "executing" /\ Run(ctx.plan, ctx.prompted)
        /\ UNCHANGED <<input, at, ctx, paying>>
    BY DEF RunScript, BlockEnds, InBlock
  <1>2. ctx.plan \in Seq(ActionType) /\ Distinct(ctx.plan)
    BY DEF Inv, ContextInv
  <1>3. \A i \in DOMAIN ctx.plan : ctx.plan[i] \in ActionType
    BY <1>2
  <1>4. IsPlan(ctx.plan)
    BY <1>3 DEF IsPlan, ActionType
  <1>5. QED
    BY <1>1, <1>2, <1>4, OnePlanInv

LEMMA OpenInv == ASSUME Inv, OpenScript \/ OpenRepl \/ TypeBlock PROVE Inv'
  <1>1. /\ UNCHANGED <<flowVars, ctx, paying>>
        /\ at' \in {at, 1} /\ input' \in Inputs \union {input}
        /\ \/ phase = "start" /\ phase' \in {"building", "reading"}
           \/ phase = "reading" /\ phase' = "reading"
    BY DEF OpenScript, OpenRepl, TypeBlock, Ready, Inputs
  <1>2. FlowInv' /\ PaidInv' /\ ChallengePaidOnce' /\ Sent' = Sent
    BY <1>1, PaidKept
  <1>3. SessionTypes' /\ BeforeRun'
    BY <1>1 DEF Inv, SessionTypes, BeforeRun, flowVars
  <1>4. ContextInv(ctx)'
    BY <1>1, SameContext DEF Inv
  <1>5. ReplInv'
    <2>1. CASE phase = "start"
      <3>1. Sent = {} /\ pc' = "idle" /\ paying' = 0
        BY <1>1, <2>1 DEF Inv, BeforeRun, Sent, flowVars
      <3>2. QED
        BY <1>2, <3>1 DEF ReplInv, InFlow
    <2>2. CASE phase = "reading"
      BY <1>1, <1>2, <2>2 DEF Inv, ReplInv, flowVars
    <2>3. QED
      BY <1>1, <2>1, <2>2
  <1>6. QED
    BY <1>2, <1>3, <1>4, <1>5 DEF Inv

\* execute_plan returned: what it sent was permitted, so the challenge is closed;
\* when it was refused nothing was sent, and the challenge stays open.
LEMMA FinalizedInv == ASSUME Inv, Finalized PROVE Inv'
  <1> DEFINE c0 == [ctx EXCEPT !.challenges[paying].finalized = Paid]
  <1>1. /\ phase = "reading" /\ pc = "done" /\ paying # 0 /\ paying' = 0 /\ ctx' = c0
        /\ UNCHANGED <<flowVars, phase, input, at>>
    BY DEF Finalized
  <1>2. FlowInv' /\ PaidInv' /\ ChallengePaidOnce' /\ Sent' = Sent
    BY <1>1, PaidKept
  <1>3. /\ ContextInv(ctx) /\ ctx.challenges \in Seq(ChallengeType)
        /\ paying \in DOMAIN ctx.challenges
        /\ \E k \in DOMAIN plan : plan[k].challenge = paying
    BY <1>1 DEF Inv, ContextInv, ReplInv
  <1>4. PICK c : c = c0
    OBVIOUS
  <1>5. /\ IsContext(c) /\ c.plan = ctx.plan
        /\ c.challenges = [ctx.challenges EXCEPT ![paying].finalized = Paid]
        /\ c.pinned = ctx.pinned
        /\ c.network = ctx.network /\ c.horizon = ctx.horizon /\ c.friendbot = ctx.friendbot
    BY <1>3, <1>4 DEF ContextInv, IsContext
  <1>6. ctx' = c
    BY <1>1, <1>4
  <1> HIDE DEF c0
  <1>7. ctx.challenges[paying] \in ChallengeType
    BY <1>3
  <1>8. [ctx.challenges[paying] EXCEPT !.finalized = Paid] \in ChallengeType
    BY <1>7 DEF ChallengeType, Paid
  <1>9. /\ c.challenges \in Seq(ChallengeType)
        /\ DOMAIN c.challenges = DOMAIN ctx.challenges
        /\ \A m \in DOMAIN ctx.challenges \ {paying} : c.challenges[m] = ctx.challenges[m]
        /\ c.challenges[paying] = [ctx.challenges[paying] EXCEPT !.finalized = Paid]
    BY <1>3, <1>5, <1>7, <1>8
  <1>10. /\ c.challenges[paying].finalized = Paid
         /\ c.challenges[paying].payment = ctx.challenges[paying].payment
    BY <1>7, <1>9 DEF ChallengeType
  <1>11. ContextInv(c)
    <2>1. IsPinned(c.pinned) /\ Endpoints(c)
      BY <1>3, <1>5 DEF ContextInv, Endpoints
    <2>2. \A i \in DOMAIN ctx.plan : ctx.plan[i].challenge # paying
      BY <1>1, <1>3 DEF Inv, ContextInv, ReplInv
    <2>3. QED
      BY <1>3, <1>5, <1>9, <1>10, <2>1, <2>2 DEF ContextInv
  <1>12. \A i \in Sent : ledger[i].challenge = paying => ledger[i].run = run
    BY <1>3 DEF Inv, PaidInv
  <1>13. \A i \in Sent : ledger[i].run = run => Paid
    BY DEF Inv, FlowInv, SentInv, Paid
  <1>14. \A i \in Sent : ledger[i].challenge # 0 =>
           /\ ledger[i].challenge \in DOMAIN c.challenges
           /\ c.challenges[ledger[i].challenge].finalized
    <2> SUFFICES ASSUME NEW i \in Sent, ledger[i].challenge # 0
                 PROVE  /\ ledger[i].challenge \in DOMAIN c.challenges
                        /\ c.challenges[ledger[i].challenge].finalized
      OBVIOUS
    <2>1. /\ ledger[i].challenge \in DOMAIN ctx.challenges
          /\ \/ ctx.challenges[ledger[i].challenge].finalized
             \/ ledger[i].challenge = paying
      BY <1>1 DEF Inv, ReplInv
    <2>2. CASE ledger[i].challenge = paying
      BY <1>3, <1>9, <1>10, <1>12, <1>13, <2>2
    <2>3. CASE ledger[i].challenge # paying
      BY <1>9, <2>1, <2>3
    <2>4. QED
      BY <2>2, <2>3
  <1>15. ReplInv'
    BY <1>1, <1>2, <1>6, <1>14 DEF ReplInv, InFlow, flowVars
  <1>16. SessionTypes' /\ BeforeRun'
    BY <1>1 DEF Inv, SessionTypes, BeforeRun
  <1>17. ContextInv(ctx)'
    <2>1. ContextInv(ctx')
      BY <1>6, <1>11
    <2>2. QED
      BY <2>1 DEF ContextInv, Distinct, Endpoints, DefaultHorizon, DefaultFriendbot,
                  IsContext, IsPinned
  <1>18. QED
    BY <1>2, <1>15, <1>16, <1>17 DEF Inv

\* What a step of execute_plan adds to the ledger.
LEMMA FlowEffect ==
  ASSUME FlowInv, FlowNext
  PROVE  /\ UNCHANGED <<plan, run>>
         /\ pc \in InFlow /\ pc' # "idle"
         /\ \/ Sent' \subseteq Sent /\ \A i \in Sent : ledger'[i] = ledger[i]
            \/ /\ pc = "submitting" /\ cursor \in DOMAIN plan
               /\ \A i \in Sent' : \/ i \in Sent /\ ledger'[i] = ledger[i]
                                   \/ i = Len(ledger) + 1 /\ ledger'[i] = Own
               /\ \A i \in Sent : i # Len(ledger) + 1
  <1>1. UNCHANGED <<plan, run>> /\ pc \in InFlow /\ pc' # "idle"
    BY DEF FlowNext, Simulate, Confirm, Skip, Read, Call, Report, Finish, Other,
           NextAction, InFlow
  <1>2. CASE UNCHANGED ledger
    BY <1>1, <1>2 DEF Sent
  <1>3. CASE Other
    <2>1. Foreign \in Transactions /\ FlowTypes /\ ledger' = Append(ledger, Foreign)
      BY <1>3 DEF Foreign, Tx, Transactions, FlowInv, Other
    <2>2. /\ DOMAIN ledger' = DOMAIN ledger \union {Len(ledger) + 1}
          /\ \A i \in DOMAIN ledger : ledger'[i] = ledger[i]
          /\ ledger'[Len(ledger) + 1] = Foreign
      BY <2>1, AppendedLedger
    <2>3. Sent' \subseteq Sent /\ \A i \in Sent : ledger'[i] = ledger[i]
      BY <2>2 DEF Sent
    <2>4. QED
      BY <1>1, <2>3
  <1>4. CASE Call /\ ledger' = Append(ledger, Own)
    <2>1. pc = "submitting" /\ cursor \in DOMAIN plan
      BY <1>4 DEF Call
    <2>2. Own \in Transactions /\ FlowTypes
      BY <2>1 DEF Own, Tx, Transactions, FlowInv, FlowTypes
    <2>3. /\ DOMAIN ledger' = DOMAIN ledger \union {Len(ledger) + 1}
          /\ \A i \in DOMAIN ledger : ledger'[i] = ledger[i] /\ i < Len(ledger) + 1
          /\ ledger'[Len(ledger) + 1] = Own
      BY <1>4, <2>2, AppendedLedger
    <2>4. \A i \in Sent' : \/ i \in Sent /\ ledger'[i] = ledger[i]
                           \/ i = Len(ledger) + 1 /\ ledger'[i] = Own
      BY <2>3 DEF Sent
    <2>5. \A i \in Sent : i # Len(ledger) + 1
      <3>1. DOMAIN ledger = 1 .. Len(ledger) /\ Len(ledger) \in Nat
        BY <2>2 DEF FlowTypes
      <3>2. QED
        BY <3>1 DEF Sent
    <2>6. QED
      BY <1>1, <2>1, <2>4, <2>5
  <1>5. QED
    BY <1>2, <1>3, <1>4
    DEF FlowNext, Simulate, Confirm, Skip, Read, Call, Report, Finish

LEMMA FlowStepInv == ASSUME Inv, Flow PROVE Inv'
  <1>1. FlowNext /\ UNCHANGED sessionVars /\ FlowInv
    BY DEF Flow, Inv
  <1>2. FlowInv'
    BY <1>1, FlowNextInv
  <1>3. /\ UNCHANGED <<plan, run>>
        /\ pc \in InFlow /\ pc' # "idle"
        /\ \/ Sent' \subseteq Sent /\ \A i \in Sent : ledger'[i] = ledger[i]
           \/ /\ pc = "submitting" /\ cursor \in DOMAIN plan
              /\ \A i \in Sent' : \/ i \in Sent /\ ledger'[i] = ledger[i]
                                  \/ i = Len(ledger) + 1 /\ ledger'[i] = Own
              /\ \A i \in Sent : i # Len(ledger) + 1
    BY <1>1, FlowEffect
  <1>4. SessionTypes' /\ BeforeRun'
    BY <1>1, <1>3 DEF Inv, SessionTypes, BeforeRun, sessionVars, InFlow
  <1>5. ContextInv(ctx)'
    BY <1>1, SameContext DEF Inv, sessionVars
  <1>6. PaidInv' /\ ChallengePaidOnce' /\ ReplInv'
    <2>1. CASE Sent' \subseteq Sent /\ \A i \in Sent : ledger'[i] = ledger[i]
      <3>1. PaidInv'
        BY <1>3, <2>1 DEF Inv, PaidInv, Distinct
      <3>2. ChallengePaidOnce'
        BY <2>1 DEF Inv, ChallengePaidOnce
      <3>3. ReplInv'
        BY <1>1, <1>3, <2>1 DEF Inv, ReplInv, sessionVars, InFlow
      <3>4. QED
        BY <3>1, <3>2, <3>3
    <2>2. CASE /\ pc = "submitting" /\ cursor \in DOMAIN plan
               /\ \A i \in Sent' : \/ i \in Sent /\ ledger'[i] = ledger[i]
                                   \/ i = Len(ledger) + 1 /\ ledger'[i] = Own
               /\ \A i \in Sent : i # Len(ledger) + 1
      <3>1. Own.run = run /\ Own.challenge = plan[cursor].challenge
        BY DEF Own, Tx
      <3>2. \A i \in Sent : ledger[i].challenge # Own.challenge \/ Own.challenge = 0
        <4> SUFFICES ASSUME NEW i \in Sent, ledger[i].challenge = Own.challenge,
                            Own.challenge # 0
                     PROVE  FALSE
          OBVIOUS
        <4>1. CASE ledger[i].run # run
          BY <2>2, <3>1, <4>1 DEF Inv, PaidInv
        <4>2. CASE ledger[i].run = run
          <5>1. /\ ledger[i].action \in DOMAIN plan /\ ledger[i].action < cursor
                /\ ledger[i].challenge = plan[ledger[i].action].challenge
            BY <2>2, <4>2 DEF Inv, FlowInv, SentInv
          <5>2. ledger[i].action # cursor
            BY <5>1 DEF Inv, FlowInv, FlowTypes
          <5>3. QED
            BY <2>2, <3>1, <5>1, <5>2 DEF Inv, PaidInv, Distinct
        <4>3. QED
          BY <4>1, <4>2
      <3>3. PaidInv'
        BY <1>3, <2>2, <3>1 DEF Inv, PaidInv, Distinct
      <3>4. ChallengePaidOnce'
        BY <2>2, <3>2 DEF Inv, ChallengePaidOnce
      <3>5. ReplInv'
        BY <1>1, <1>3, <2>2, <3>1 DEF Inv, ReplInv, sessionVars, InFlow
      <3>6. QED
        BY <3>3, <3>4, <3>5
    <2>3. QED
      BY <1>3, <2>1, <2>2
  <1>7. QED
    BY <1>2, <1>4, <1>5, <1>6 DEF Inv

LEMMA InitInv == Init => Inv
  <1> SUFFICES ASSUME Init PROVE Inv
    OBVIOUS
  <1>1. /\ phase = "start" /\ input = <<>> /\ at = 1 /\ paying = 0
        /\ FlowInit /\ pc = "idle" /\ ledger = <<>> /\ plan = <<>>
    BY DEF Init, FlowInit
  <1>2. FlowInv
    BY <1>1, FlowInitInv
  <1>3. Sent = {}
    BY <1>1 DEF Sent
  <1>4. SessionTypes /\ BeforeRun /\ PaidInv /\ ReplInv /\ ChallengePaidOnce
    BY <1>1, <1>3 DEF SessionTypes, BeforeRun, PaidInv, ReplInv, ChallengePaidOnce, Distinct
  <1>5. PICK env \in Environments :
          ctx = IF call.mode = "repl" THEN [Context(env) EXCEPT !.source = FALSE]
                ELSE Context(env)
    BY DEF Init
  <1>6. PICK c : c = Context(env)
    OBVIOUS
  <1>7. /\ IsContext(c) /\ c.plan = <<>> /\ c.challenges = <<>> /\ IsPinned(c.pinned)
        /\ c.network = env.network
        /\ c.horizon = Endpoint(env.horizon, DefaultHorizon(env.network))
        /\ c.friendbot = Endpoint(env.friendbot, DefaultFriendbot(env.network))
        /\ c.pinned = [horizon |-> env.horizon = "own", friendbot |-> env.friendbot = "own"]
    BY <1>6 DEF Context, IsContext, IsPinned
  <1>8. env.horizon \in {"unset", "blank", "own"} /\ env.friendbot \in {"unset", "blank", "own"}
    BY SessionAssumption DEF Settings
  <1>9. Endpoints(c)
    <2> DEFINE h == env.horizon = "own"
               f == env.friendbot = "own"
    <2>1. h \in BOOLEAN /\ f \in BOOLEAN /\ c.pinned = [horizon |-> h, friendbot |-> f]
      BY <1>7
    <2> HIDE DEF h, f
    <2>2. c.pinned.horizon = h /\ c.pinned.friendbot = f
      BY <2>1
    <2>3. /\ c.pinned.horizon <=> env.horizon = "own"
          /\ c.pinned.friendbot <=> env.friendbot = "own"
      BY <2>1, <2>2 DEF h, f
    <2>4. /\ env.horizon # "own" => c.horizon \in {"blank", DefaultHorizon(env.network)}
          /\ env.friendbot # "own" => c.friendbot \in {"blank", DefaultFriendbot(env.network)}
      BY <1>7, <1>8 DEF Endpoint
    <2>5. QED
      BY <1>7, <2>3, <2>4 DEF Endpoints
  <1>10. ContextInv(ctx)
    <2>1. /\ IsContext(ctx) /\ ctx.plan = <<>> /\ ctx.challenges = <<>> /\ ctx.pinned = c.pinned
          /\ ctx.network = c.network /\ ctx.horizon = c.horizon
          /\ ctx.friendbot = c.friendbot
      BY <1>5, <1>6, <1>7 DEF IsContext
    <2>2. Endpoints(ctx)
      BY <1>9, <2>1 DEF Endpoints
    <2>3. QED
      BY <1>7, <2>1, <2>2 DEF ContextInv, Distinct
  <1>11. QED
    BY <1>2, <1>4, <1>10 DEF Inv

LEMMA NextInv == Inv /\ [Next]_vars => Inv'
  <1> SUFFICES ASSUME Inv, [Next]_vars PROVE Inv'
    OBVIOUS
  <1>1. CASE Flow
    BY <1>1, FlowStepInv
  <1>2. CASE Structure
    BY <1>2, StructureInv, RunScriptInv
  <1>3. CASE Statements
    BY <1>3, StatementsInv
  <1>4. CASE RunFile \/ RunText
    BY <1>4, RunFileInv, RunTextInv
  <1>5. CASE OpenScript \/ OpenRepl \/ TypeBlock
    BY <1>5, OpenInv
  <1>6. CASE Exit \/ SetupTestnet
    BY <1>6, ReplLinesInv
  <1>7. CASE RunManual
    BY <1>7, RunManualInv
  <1>8. CASE Finalized
    BY <1>8, FinalizedInv
  <1>9. CASE UNCHANGED vars
    <2>1. Quiet
      BY <1>9, SameContext DEF vars, sessionVars, Quiet, Inv, SessionTypes
    <2>2. QED
      BY <2>1, QuietKeepsInv
  <1>10. QED
    BY <1>1, <1>2, <1>3, <1>4, <1>5, <1>6, <1>7, <1>8, <1>9 DEF Next

------------------------------------------------------------------------------
(* Theorems *)

\* What a session keeps, in every state of every session: a script, a plan file,
\* a prompt or the REPL, with transactions of others and calls that fail after
\* their transaction was sent.
THEOREM SessionInvariant == Spec => []Inv
  <1>1. Init => Inv
    BY InitInv
  <1>2. Inv /\ [Next]_vars => Inv'
    BY NextInv
  <1>3. QED
    BY <1>1, <1>2, PTL DEF Spec

\* What a plan sent was permitted by the guards of execute_plan and confirmed,
\* and no part of a prompt's plan was left unknown.
THEOREM NothingUnjudgedIsSent == Spec => []NothingSentUnjudged
  <1>1. ASSUME Inv PROVE NothingSentUnjudged
    BY <1>1 DEF Inv, FlowInv, SentInv, Sending, NothingSentUnjudged
  <1>2. QED
    BY <1>1, SessionInvariant, PTL

\* submit_plan sends every action of every plan of a session at most once, in the
\* order of the plans and their actions.
THEOREM ActionsAreSentOnceInOrder == Spec => []SentOnceInOrder
  <1>1. Inv => SentOnceInOrder
    BY DEF Inv, FlowInv
  <1>2. QED
    BY <1>1, SessionInvariant, PTL

\* A hash submit_plan prints is that of a transaction in the ledger, of the action
\* itself or the latest one with a note or of a deployment, however many
\* transactions others submit meanwhile; only what is printed for a contract may be
\* the value a function returned (extract_tx_hash).
THEOREM PrintedHashesAreTraceable == Spec => []HashesAreTraceable
  <1>1. Inv => HashesAreTraceable
    BY DEF Inv, FlowInv
  <1>2. QED
    BY <1>1, SessionInvariant, PTL

\* submit_plan says ok of a transaction only when it is in the ledger.
THEOREM OkLinesAreTrue == Spec => []OkWasSent
  <1>1. Inv => OkWasSent
    BY DEF Inv, FlowInv
  <1>2. QED
    BY <1>1, SessionInvariant, PTL

\* No session pays a challenge twice, in a script or across the blocks of the
\* REPL: the finalized flag of execute_statement and run_repl.
THEOREM ChallengesArePaidOnce == Spec => []ChallengePaidOnce
  <1>1. Inv => ChallengePaidOnce
    BY DEF Inv
  <1>2. QED
    BY <1>1, SessionInvariant, PTL

\* Whatever network is chosen when, an endpoint nobody pinned is that of the
\* network, or blank: the _from_env flags and apply_network.
THEOREM EndpointsStayWithNetwork == Spec => []EndpointsFollowNetwork
  <1>1. Inv => EndpointsFollowNetwork
    BY DEF Inv, ContextInv, Endpoints, EndpointsFollowNetwork
  <1>2. QED
    BY <1>1, SessionInvariant, PTL
===============================================================================
