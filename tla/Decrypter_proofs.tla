--------------------------- MODULE Decrypter_proofs ---------------------------
(***************************************************************************)
(* Theorems about Decrypter, for any number of components, decryptions and *)
(* messages.                                                               *)
(***************************************************************************)
EXTENDS Decrypter, SequenceTheorems, TLAPS

Decrypting == {"password", "select", "abort", "verify", "init", "poll", "sleep", "use"}

Card == [chain : Seq(Ciphertexts), pending : Seq(Ciphertexts), rest : Seq(Ciphertexts)]

(* A decryption has an owner and a message left to decrypt, and only after *)
(* its last answer, asleep, has it used up its polls.                      *)
Employed(r) ==
  /\ run[r].pc \in Decrypting => run[r].owner \in Decrypters /\ run[r].todo # <<>>
  /\ run[r].pc \notin Decrypting => run[r].owner = None
  /\ run[r].pc = "init" => run[r].stage \in 1..4
  /\ run[r].pc # "sleep" => run[r].polls < MaxPolls

TypeInv == TypeOK /\ card \in Card /\ \A r \in Runs : Employed(r)

(* What the sequences of the module do.                                    *)
LEMMA TailOf ==
  ASSUME NEW S, NEW s \in Seq(S), s # <<>>
  PROVE  /\ Tail(s) \in Seq(S) /\ Head(s) \in S /\ Head(s) = s[1]
         /\ Len(s) \in Nat \ {0} /\ Len(Tail(s)) = Len(s) - 1
         /\ \A i \in 1..Len(Tail(s)) : Tail(s)[i] = s[i + 1]
<1>1. Head(s) = s[1] OBVIOUS
<1> QED BY <1>1, HeadTailProperties, EmptySeq

LEMMA CommandTypes ==
  ASSUME TypeInv, NEW r \in Runs, NEW cmd, NEW unread \in Seq(Answer), Command(cmd, r, unread),
         cmd \in {"push", "decipher"} => run[r].todo # <<>>
  PROVE  card' \in Card /\ answers' \in Seq(Answer)
<1> DEFINE parts == Append(card.chain, Head(run[r].todo))
<1>1. /\ card \in Card /\ run[r].todo \in Seq(Ciphertexts)
  BY DEF TypeInv, TypeOK, Run
<1>2. cmd \in {"push", "decipher"} => parts \in Seq(Ciphertexts)
  BY <1>1, TailOf, AppendProperties DEF Card
<1>3. card' \in Card
  <2>1. \/ card' = card
        \/ cmd = "push" /\ card' = [card EXCEPT !.chain = parts]
        \/ cmd = "decipher" /\ card' = [card EXCEPT !.chain = <<>>, !.pending = parts]
        \/ card' = [card EXCEPT !.chain = <<>>, !.rest = <<>>]
        \/ card' = [card EXCEPT !.chain = <<>>]
    BY DEF Command
  <2>2. <<>> \in Seq(Ciphertexts) BY EmptySeq
  <2> HIDE DEF parts
  <2> QED BY <1>1, <1>2, <2>1, <2>2 DEF Card
<1>4. answers' \in Seq(Answer)
  <2>1. \/ answers' = unread
        \/ \E kind \in {"ok", "fail", "ready", "params", "url"} :
             answers' = Append(unread, Plain(kind))
        \/ card.rest # <<>> /\ answers' = Append(unread, [kind |-> "rest", of |-> Head(card.rest)])
    BY DEF Command
  <2>2. \A kind \in {"ok", "fail", "ready", "params", "url"} : Plain(kind) \in Answer
    BY DEF Plain, Answer
  <2>3. card.rest # <<>> => [kind |-> "rest", of |-> Head(card.rest)] \in Answer
    BY <1>1, TailOf DEF Card, Answer
  <2> QED BY <2>1, <2>2, <2>3, AppendProperties
<1> QED BY <1>3, <1>4

LEMMA IdleRun ==
  /\ Idle \in Run /\ Idle.pc = "idle" /\ Idle.owner = None /\ Idle.done = <<>>
  /\ Idle.polls = 0 /\ 0 < MaxPolls
  /\ \A pc \in {"open", "select", "password"} :
       /\ [Idle EXCEPT !.pc = pc] \in Run
       /\ [Idle EXCEPT !.pc = pc].pc = pc /\ [Idle EXCEPT !.pc = pc].owner = None
<1>1. /\ <<>> \in Seq(Ciphertexts \cup {None}) /\ <<>> \in Seq(Ciphertexts)
      /\ 0 \in 0..MaxPolls /\ 0 < MaxPolls
  BY EmptySeq, ConstantsAssumption
<1>2. Idle \in Run BY <1>1 DEF Idle, Run
<1>3. Idle.pc = "idle" /\ Idle.owner = None /\ Idle.done = <<>> /\ Idle.polls = 0 BY DEF Idle
<1>4. ASSUME NEW pc \in {"open", "select", "password"}
      PROVE  /\ [Idle EXCEPT !.pc = pc] \in Run
             /\ [Idle EXCEPT !.pc = pc].pc = pc /\ [Idle EXCEPT !.pc = pc].owner = None
  BY <1>2, <1>3 DEF Run, UrlStages
<1> QED BY <1>1, <1>2, <1>3, <1>4

(* One run moves on, and the others do not.                                *)
Moves(r) == run' \in [Runs -> Run] /\ \A q \in Runs : q # r => run'[q] = run[q]

LEMMA MovesTypes ==
  ASSUME TypeInv, NEW r \in Runs, Moves(r), Employed(r)'
  PROVE  run' \in [Runs -> Run] /\ \A q \in Runs : Employed(q)'
BY DEF TypeInv, Moves, Employed

(* The end of a decryption.                                                *)
LEMMA FailsMoves ==
  ASSUME TypeInv, NEW r \in Runs, run[r].pc \in Decrypting, Fails(r)
  PROVE  /\ Moves(r) /\ run'[r] = Idle /\ run[r].owner \in Decrypters
         /\ task' \in [Decrypters -> [error : BOOLEAN, tap : BOOLEAN]]
         /\ screen' \in [Decrypters -> {"none", "pin", "password", "tap", "gone"}]
<1>1. run' = [run EXCEPT ![r] = Idle] BY DEF Fails
<1>2. Moves(r) /\ run'[r] = Idle BY <1>1, IdleRun DEF Moves, TypeInv, TypeOK
<1>3. run[r].owner \in Decrypters BY DEF TypeInv, Employed
<1>4. /\ task' \in {task, [task EXCEPT ![run[r].owner].error = TRUE]}
      /\ screen' \in {screen, [screen EXCEPT ![run[r].owner] = "none"]}
  BY DEF Fails
<1> QED BY <1>2, <1>3, <1>4 DEF TypeInv, TypeOK

LEMMA FailsTypes ==
  ASSUME TypeInv, NEW r \in Runs, run[r].pc \in Decrypting, Fails(r), card' \in Card,
         answers' \in Seq(Answer), readers' \in Seq(Runs)
  PROVE  TypeInv'
<1>1. Employed(r)' BY FailsMoves, IdleRun DEF Employed, Decrypting
<1>2. run' \in [Runs -> Run] /\ \A q \in Runs : Employed(q)'
  BY <1>1, FailsMoves, MovesTypes
<1>3. UNCHANGED <<shown, alone>> BY DEF Fails
<1> QED BY <1>2, <1>3, FailsMoves DEF TypeInv, TypeOK, Card

LEMMA SucceedsMoves ==
  ASSUME TypeInv, NEW r \in Runs, run[r].pc \in Decrypting, NEW plain \in Seq(Ciphertexts),
         Succeeds(r, plain)
  PROVE  /\ run' \in [Runs -> Run] /\ run'[r] = Idle /\ run[r].owner \in Decrypters
         /\ \A q \in Runs : q # r => run'[q] \in {run[q], [run[q] EXCEPT !.mounted = FALSE]}
         /\ shown' = [shown EXCEPT ![run[r].owner] = plain]
<1>1. run[r].owner \in Decrypters /\ run \in [Runs -> Run]
  BY DEF TypeInv, TypeOK, Employed
<1>2. \A q \in Runs : run'[q] = IF q = r THEN Idle
                                ELSE IF q \in Active(run[r].owner)
                                     THEN [run[q] EXCEPT !.mounted = FALSE] ELSE run[q]
  BY DEF Succeeds
<1>3. \A q \in Runs : [run[q] EXCEPT !.mounted = FALSE] \in Run BY <1>1 DEF Run
<1>4. run' \in [Runs -> Run]
  <2>1. run' = [q \in Runs |-> IF q = r THEN Idle
                               ELSE IF q \in Active(run[r].owner)
                                    THEN [run[q] EXCEPT !.mounted = FALSE] ELSE run[q]]
    BY DEF Succeeds
  <2> QED BY <1>1, <1>3, <2>1, IdleRun
<1>5. shown' = [shown EXCEPT ![run[r].owner] = plain] BY DEF Succeeds
<1> QED BY <1>1, <1>2, <1>4, <1>5

LEMMA SucceedsTypes ==
  ASSUME TypeInv, NEW r \in Runs, run[r].pc \in Decrypting, NEW plain \in Seq(Ciphertexts),
         Succeeds(r, plain), UNCHANGED usb
  PROVE  TypeInv'
<1>1. ASSUME NEW q \in Runs PROVE Employed(q)'
  <2>1. CASE q = r BY <2>1, SucceedsMoves, IdleRun DEF Employed, Decrypting
  <2>2. CASE q # r
    <3>1. run[q] \in Run BY DEF TypeInv, TypeOK
    <3>2. run'[q] \in {run[q], [run[q] EXCEPT !.mounted = FALSE]} BY <2>2, SucceedsMoves
    <3>3. /\ run'[q].pc = run[q].pc /\ run'[q].owner = run[q].owner
          /\ run'[q].todo = run[q].todo /\ run'[q].stage = run[q].stage
          /\ run'[q].polls = run[q].polls
      BY <3>1, <3>2 DEF Run
    <3> QED BY <3>3 DEF TypeInv, Employed
  <2> QED BY <2>1, <2>2
<1>2. /\ task' = [task EXCEPT ![run[r].owner] = NoTask]
      /\ screen' = [screen EXCEPT ![run[r].owner] = "gone"]
      /\ alone' = alone
  BY DEF Succeeds
<1>3. NoTask \in [error : BOOLEAN, tap : BOOLEAN] BY DEF NoTask
<1>4. /\ task' \in [Decrypters -> [error : BOOLEAN, tap : BOOLEAN]]
      /\ screen' \in [Decrypters -> {"none", "pin", "password", "tap", "gone"}]
  BY <1>2, <1>3 DEF TypeInv, TypeOK
<1>5. shown' \in [Decrypters -> Seq(Ciphertexts)]
  <2>1. shown' = [shown EXCEPT ![run[r].owner] = plain] BY DEF Succeeds
  <2>2. shown \in [Decrypters -> Seq(Ciphertexts)] BY DEF TypeInv, TypeOK
  <2> QED BY <2>1, <2>2
<1> QED BY <1>1, <1>2, <1>4, <1>5, SucceedsMoves DEF TypeInv, TypeOK, usb

-----------------------------------------------------------------------------
(* The types, action by action.                                            *)
LEMMA TypesComponent ==
  ASSUME TypeInv, NEW m \in Decrypters, Prompt(m) \/ BackToButtons(m) \/ Show(m) PROVE TypeInv'
<1>1. UNCHANGED <<run, card, answers, readers, alone>> BY DEF Prompt, BackToButtons, Show, usb
<1>2. screen' \in [Decrypters -> {"none", "pin", "password", "tap", "gone"}]
  BY DEF Prompt, BackToButtons, Show, TypeInv, TypeOK
<1>3. task' \in [Decrypters -> [error : BOOLEAN, tap : BOOLEAN]]
  <2>1. NoTask \in [error : BOOLEAN, tap : BOOLEAN] BY DEF NoTask
  <2> QED BY <2>1 DEF Prompt, BackToButtons, Show, TypeInv, TypeOK
<1>4. shown' \in [Decrypters -> Seq(Ciphertexts)]
  <2>1. shown' \in {shown, [shown EXCEPT ![m] = <<>>]} BY DEF Prompt, BackToButtons, Show
  <2>2. <<>> \in Seq(Ciphertexts) BY EmptySeq
  <2> QED BY <2>1, <2>2 DEF TypeInv, TypeOK
<1> QED BY <1>1, <1>2, <1>3, <1>4 DEF TypeInv, TypeOK, Employed

LEMMA TypesDecrypt ==
  ASSUME TypeInv, NEW m \in Decrypters, NEW r \in Runs, Decrypt(m, r) PROVE TypeInv'
<1>1. PICK right \in BOOLEAN :
        run' = [run EXCEPT ![r] =
                 [Idle EXCEPT !.pc = IF screen[m] = "pin" THEN "select" ELSE "password",
                              !.owner = m, !.mounted = TRUE, !.right = right, !.todo = Wanted[m]]]
  BY DEF Decrypt
<1> DEFINE new == [Idle EXCEPT !.pc = IF screen[m] = "pin" THEN "select" ELSE "password",
                              !.owner = m, !.mounted = TRUE, !.right = right, !.todo = Wanted[m]]
<1>2. Wanted[m] \in Seq(Ciphertexts) /\ Wanted[m] # <<>> BY ConstantsAssumption
<1>3. /\ new \in Run /\ new.pc \in {"select", "password"}
      /\ new.owner = m /\ new.todo = Wanted[m] /\ new.polls = 0
  BY <1>2, IdleRun DEF Run
<1>4. run' = [run EXCEPT ![r] = new] BY <1>1
<1> HIDE DEF new
<1>5. Moves(r) /\ run'[r] = new BY <1>3, <1>4 DEF Moves, TypeInv, TypeOK
<1>6. Employed(r)' BY <1>2, <1>3, <1>5, IdleRun DEF Employed, Decrypting
<1>7. task' \in [Decrypters -> [error : BOOLEAN, tap : BOOLEAN]]
  <2>1. NoTask \in [error : BOOLEAN, tap : BOOLEAN] BY DEF NoTask
  <2> QED BY <2>1 DEF Decrypt, Requested, TypeInv, TypeOK
<1>8. /\ screen' \in [Decrypters -> {"none", "pin", "password", "tap", "gone"}]
      /\ alone' \in BOOLEAN
  BY DEF Decrypt, TypeInv, TypeOK
<1>9. UNCHANGED <<usb, shown>> BY DEF Decrypt
<1> QED BY <1>5, <1>6, <1>7, <1>8, <1>9, MovesTypes DEF TypeInv, TypeOK, usb

LEMMA TypesCard ==
  ASSUME TypeInv, Tap \/ NoTap PROVE TypeInv'
<1>1. /\ UNCHANGED <<screen, task, run, readers, shown, alone>>
      /\ card.pending \in Seq(Ciphertexts) /\ card.pending # <<>>
      /\ card \in Card /\ answers \in Seq(Answer)
  BY DEF Tap, NoTap, TypeInv, TypeOK
<1>2. Head(card.pending) \in Ciphertexts BY <1>1, TailOf
<1>3. /\ <<>> \in Seq(Ciphertexts) /\ <<Head(card.pending)>> \in Seq(Ciphertexts)
  BY <1>2, EmptySeq
<1>4. \/ card' = card
      \/ card' = [card EXCEPT !.pending = <<>>]
      \/ card' = [card EXCEPT !.pending = <<>>, !.rest = <<>>]
      \/ card' = [card EXCEPT !.pending = <<>>, !.rest = <<Head(card.pending)>>]
  BY DEF Tap, NoTap
<1>5. card' \in Card BY <1>1, <1>3, <1>4 DEF Card
<1>6. /\ \A kind \in {"whole", "part"} : [kind |-> kind, of |-> Head(card.pending)] \in Answer
      /\ Plain("fail") \in Answer /\ Plain("wait") \in Answer
  BY <1>2 DEF Answer, Plain
<1>7. \/ \E kind \in {"whole", "part"} :
           answers' = Append(answers, [kind |-> kind, of |-> Head(card.pending)])
      \/ answers' \in {Append(answers, Plain("fail")), Append(answers, Plain("wait"))}
  BY DEF Tap, NoTap
<1>8. \E a \in Answer : answers' = Append(answers, a) BY <1>6, <1>7
<1>9. answers' \in Seq(Answer) BY <1>1, <1>8, AppendProperties
<1> QED BY <1>1, <1>5, <1>9 DEF TypeInv, TypeOK, Employed, Card

LEMMA TypesBefore ==
  ASSUME TypeInv, NEW r \in Runs,
         PasswordDecrypt(r) \/ SelectDevice(r) \/ Abort(r) \/ SendPin(r) \/ WakeUp(r)
  PROVE  TypeInv'
<1>0. /\ run \in [Runs -> Run] /\ readers \in Seq(Runs) /\ answers \in Seq(Answer)
      /\ card \in Card
  BY DEF TypeInv, TypeOK
<1>1. ASSUME Moves(r), Employed(r)', card' \in Card, answers' \in Seq(Answer),
             readers' \in Seq(Runs), UNCHANGED <<screen, task, shown, alone>>
      PROVE  TypeInv'
  BY <1>1, MovesTypes DEF TypeInv, TypeOK, Card
<1>2. CASE PasswordDecrypt(r)
  <2>1. run[r].pc \in Decrypting /\ run[r].todo \in Seq(Ciphertexts)
        /\ UNCHANGED usb
    BY <1>2 DEF PasswordDecrypt, Decrypting, TypeInv, TypeOK, Run
  <2>2. CASE Succeeds(r, run[r].todo) BY <2>1, <2>2, SucceedsTypes
  <2>3. CASE Fails(r) BY <1>0, <2>1, <2>3, FailsTypes DEF usb
  <2> QED BY <1>2, <2>2, <2>3 DEF PasswordDecrypt
<1>3. CASE SelectDevice(r)
  <2>1. run[r].pc = "select" /\ UNCHANGED usb BY <1>3 DEF SelectDevice
  <2>2. CASE Fails(r) BY <1>0, <2>1, <2>2, FailsTypes DEF usb, Decrypting
  <2>3. CASE ~Fails(r)
    <3>1. /\ run' = [run EXCEPT ![r].pc = "abort"]
          /\ UNCHANGED <<screen, task, shown, alone>>
      BY <1>3, <2>3 DEF SelectDevice
    <3>2. Moves(r) BY <1>0, <3>1 DEF Moves, Run
    <3>3. Employed(r)' BY <1>0, <2>1, <3>1 DEF TypeInv, Employed, Decrypting, Run
    <3> QED BY <1>0, <1>1, <2>1, <3>1, <3>2, <3>3 DEF usb
  <2> QED BY <2>2, <2>3
<1>4. CASE Abort(r)
  <2>1. /\ run[r].pc = "abort" /\ card' = Aborted /\ answers' \in {answers, <<>>}
        /\ run' = [run EXCEPT ![r].pc = "verify"]
        /\ UNCHANGED <<screen, task, readers, shown, alone>>
    BY <1>4 DEF Abort
  <2>2. Moves(r) BY <1>0, <2>1 DEF Moves, Run
  <2>3. Employed(r)' BY <1>0, <2>1 DEF TypeInv, Employed, Decrypting, Run
  <2>4. card' \in Card /\ answers' \in Seq(Answer)
    <3>1. <<>> \in Seq(Ciphertexts) /\ <<>> \in Seq(Answer) BY EmptySeq
    <3> QED BY <1>0, <2>1, <3>1 DEF Aborted, Card
  <2> QED BY <1>0, <1>1, <2>1, <2>2, <2>3, <2>4
<1>5. CASE SendPin(r)
  <2>1. /\ run[r].pc = "verify" /\ Command("verify", r, answers)
        /\ readers' = Append(readers, r)
        /\ run' = [run EXCEPT ![r].pc = "init", ![r].stage = 1]
        /\ UNCHANGED <<screen, task, shown, alone>>
    BY <1>5 DEF SendPin, Commands
  <2>2. Moves(r)
    <3>1. 1 \in 0..4 OBVIOUS
    <3>2. ASSUME NEW x \in Run PROVE [x EXCEPT !.pc = "init", !.stage = 1] \in Run
      BY <3>1 DEF Run
    <3> QED BY <1>0, <2>1, <3>2 DEF Moves
  <2>3. Employed(r)' BY <1>0, <2>1 DEF TypeInv, Employed, Decrypting, Run
  <2>4. card' \in Card /\ answers' \in Seq(Answer) BY <1>0, <2>1, CommandTypes
  <2>5. readers' \in Seq(Runs) BY <1>0, <2>1, AppendProperties
  <2> QED BY <1>1, <2>1, <2>2, <2>3, <2>4, <2>5
<1>6. CASE WakeUp(r)
  <2>1. run[r].pc = "sleep" /\ UNCHANGED <<card, answers>> BY <1>6 DEF WakeUp
  <2>2. CASE OutOfPolls(run[r].polls)
    <3>1. Fails(r) /\ UNCHANGED readers BY <1>6, <2>2 DEF WakeUp
    <3> QED BY <1>0, <2>1, <3>1, FailsTypes DEF Decrypting
  <2>3. CASE ~OutOfPolls(run[r].polls)
    <3>1. /\ run' = [run EXCEPT ![r].pc = "poll"]
          /\ readers' = Append(readers, r) /\ UNCHANGED <<screen, task, shown, alone>>
      BY <1>6, <2>3 DEF WakeUp
    <3>2. Moves(r) BY <1>0, <3>1 DEF Moves, Run
    <3>3. run[r].polls < MaxPolls
      <4>1. run[r].polls \in Nat BY <1>0, ConstantsAssumption DEF Run
      <4> QED BY <2>3, <4>1, ConstantsAssumption DEF OutOfPolls
    <3>4. Employed(r)' BY <1>0, <2>1, <3>1, <3>3 DEF TypeInv, Employed, Decrypting, Run
    <3>5. readers' \in Seq(Runs) BY <1>0, <3>1, AppendProperties
    <3> QED BY <1>0, <1>1, <2>1, <3>1, <3>2, <3>4, <3>5
  <2> QED BY <2>2, <2>3
<1> QED BY <1>2, <1>3, <1>4, <1>5, <1>6

(* What is common to the answers that are read.                            *)
LEMMA ReadsTypes ==
  ASSUME TypeInv, NEW r \in Runs, NEW a, NEW pc, Reads(r, a, pc)
  PROVE  /\ a \in Answer /\ a = answers[1] /\ run[r].pc = pc
         /\ Tail(answers) \in Seq(Answer) /\ Tail(readers) \in Seq(Runs)
         /\ Append(Tail(readers), r) \in Seq(Runs)
<1>1. answers \in Seq(Answer) /\ readers \in Seq(Runs) BY DEF TypeInv, TypeOK
<1> QED BY <1>1, TailOf, AppendProperties DEF Reads

LEMMA TypesCommand ==
  ASSUME TypeInv, NEW r \in Runs, NEW a, NextCommand(r, a) \/ Refused(r, a) PROVE TypeInv'
<1>0. run \in [Runs -> Run] /\ card \in Card BY DEF TypeInv, TypeOK
<1>1. /\ a \in Answer /\ run[r].pc = "init"
      /\ Tail(answers) \in Seq(Answer) /\ Tail(readers) \in Seq(Runs)
      /\ Append(Tail(readers), r) \in Seq(Runs)
  BY ReadsTypes DEF NextCommand, Refused
<1>2. /\ run[r].owner \in Decrypters /\ run[r].todo # <<>>
      /\ run[r].stage \in 1..4 /\ run[r].polls < MaxPolls
  BY <1>1 DEF TypeInv, Employed, Decrypting
<1>3. CASE Refused(r, a) BY <1>0, <1>1, <1>3, FailsTypes DEF Refused, Decrypting
<1>4. CASE NextCommand(r, a)
  <2>1. /\ Command(Commands[run[r].stage + 1], r, Tail(answers))
        /\ readers' = Append(Tail(readers), r) /\ UNCHANGED <<shown, alone>>
    BY <1>4 DEF NextCommand
  <2>2. card' \in Card /\ answers' \in Seq(Answer) BY <1>1, <1>2, <2>1, CommandTypes
  <2>3. CASE run[r].stage < 4
    <3>1. run' = [run EXCEPT ![r].stage = @ + 1] /\ UNCHANGED <<screen, task>>
      BY <1>4, <2>3 DEF NextCommand
    <3>2. run[r].stage + 1 \in 1..4 /\ run[r].stage + 1 \in 0..4 BY <1>2, <2>3
    <3>3. Moves(r) /\ run'[r].stage = run[r].stage + 1 /\ run'[r].pc = run[r].pc
          /\ run'[r].owner = run[r].owner /\ run'[r].todo = run[r].todo
          /\ run'[r].polls = run[r].polls
      BY <1>0, <3>1, <3>2 DEF Moves, Run
    <3>4. Employed(r)' BY <1>1, <1>2, <3>2, <3>3 DEF Employed, Decrypting
    <3> QED BY <1>1, <2>1, <2>2, <3>1, <3>3, <3>4, MovesTypes DEF TypeInv, TypeOK, Card
  <2>4. CASE run[r].stage = 4
    <3>1. run' = [run EXCEPT ![r].pc = "poll", ![r].stage = 0]
      BY <1>4, <2>4 DEF NextCommand
    <3>2. 0 \in 0..4 OBVIOUS
    <3>3. ASSUME NEW x \in Run PROVE [x EXCEPT !.pc = "poll", !.stage = 0] \in Run
      BY <3>2 DEF Run
    <3>4. Moves(r) BY <1>0, <3>1, <3>3 DEF Moves
    <3>5. /\ run'[r].pc = "poll" /\ run'[r].owner = run[r].owner
          /\ run'[r].todo = run[r].todo /\ run'[r].polls = run[r].polls
      BY <1>0, <3>1 DEF Run
    <3>6. Employed(r)' BY <1>2, <3>5 DEF Employed, Decrypting
    <3>7. /\ task' \in {task, [task EXCEPT ![run[r].owner].tap = TRUE]}
          /\ screen' \in {screen, [screen EXCEPT ![run[r].owner] = "tap"]}
      BY <1>4, <2>4 DEF NextCommand
    <3>8. /\ task' \in [Decrypters -> [error : BOOLEAN, tap : BOOLEAN]]
          /\ screen' \in [Decrypters -> {"none", "pin", "password", "tap", "gone"}]
      BY <1>2, <3>7 DEF TypeInv, TypeOK
    <3> QED BY <1>1, <2>1, <2>2, <3>4, <3>6, <3>8, MovesTypes DEF TypeInv, TypeOK, Card
  <2> QED BY <1>2, <2>3, <2>4
<1> QED BY <1>3, <1>4

LEMMA HalvesTypes ==
  ASSUME NEW key \in Seq(Ciphertexts \cup {None}), NEW a \in Answer
  PROVE  /\ NewHalves(key, a) \in Seq(Ciphertexts \cup {None})
         /\ key \o NewHalves(key, a) \in Seq(Ciphertexts \cup {None})
<1>1. a.of \in Ciphertexts \cup {None} BY DEF Answer
<1>2. /\ <<>> \in Seq(Ciphertexts \cup {None})
      /\ <<a.of>> \in Seq(Ciphertexts \cup {None})
      /\ <<a.of, a.of>> \in Seq(Ciphertexts \cup {None})
      /\ <<None>> \in Seq(Ciphertexts \cup {None})
  BY <1>1
<1>3. NewHalves(key, a) \in {<<>>, <<a.of>>, <<a.of, a.of>>, <<None>>} BY DEF NewHalves
<1> QED BY <1>2, <1>3, ConcatProperties

LEMMA TypesPoll ==
  ASSUME TypeInv, NEW r \in Runs, NEW a, PollLast(r, a) \/ PollAgain(r, a) PROVE TypeInv'
<1>0. run \in [Runs -> Run] /\ card \in Card BY DEF TypeInv, TypeOK
<1>1. /\ a \in Answer /\ run[r].pc = "poll"
      /\ Tail(answers) \in Seq(Answer) /\ Tail(readers) \in Seq(Runs)
  BY ReadsTypes DEF PollLast, PollAgain
<1>2. run[r].owner \in Decrypters /\ run[r].todo # <<>> /\ run[r].polls < MaxPolls
  BY <1>1 DEF TypeInv, Employed, Decrypting
<1> DEFINE key == run[r].key \o NewHalves(run[r].key, a)
<1>3. key \in Seq(Ciphertexts \cup {None})
  <2>1. run[r].key \in Seq(Ciphertexts \cup {None}) BY <1>0 DEF Run
  <2> QED BY <1>1, <2>1, HalvesTypes
<1>4. card' \in Card /\ answers' \in Seq(Answer) /\ readers' \in Seq(Runs)
  <2>1. PollAgain(r, a) /\ a.kind = "part" => Command("more", r, Tail(answers)) BY DEF PollAgain
  <2> QED BY <1>0, <1>1, <2>1, CommandTypes DEF PollLast, PollAgain
<1>5. CASE Fails(r) BY <1>1, <1>4, <1>5, FailsTypes DEF Decrypting
<1>6. CASE ~Fails(r)
  <2>1. PICK pc \in {"use", "sleep"}, polls \in 0..MaxPolls :
          /\ run' = [run EXCEPT ![r].pc = pc, ![r].polls = polls, ![r].key = key]
          /\ pc = "use" => polls < MaxPolls
    <3>1. CASE PollLast(r, a)
      <4>1. run' = [run EXCEPT ![r].pc = "use", ![r].key = @ \o NewHalves(@, a), ![r].polls = 0]
        BY <1>6, <3>1 DEF PollLast
      <4>2. run' = [run EXCEPT ![r].pc = "use", ![r].polls = 0, ![r].key = key]
        BY <1>0, <4>1 DEF Run
      <4>3. 0 \in 0..MaxPolls /\ 0 < MaxPolls BY ConstantsAssumption
      <4> QED BY <4>2, <4>3
    <3>2. CASE PollAgain(r, a)
      <4>1. run' = [run EXCEPT ![r].pc = "sleep", ![r].polls = @ + 1,
                               ![r].key = @ \o NewHalves(@, a)]
        BY <3>2 DEF PollAgain
      <4>2. run[r].polls \in 0..MaxPolls BY <1>0 DEF Run
      <4>3. run[r].polls + 1 \in 0..MaxPolls BY <1>2, <4>2, ConstantsAssumption
      <4>4. run' = [run EXCEPT ![r].pc = "sleep", ![r].polls = run[r].polls + 1, ![r].key = key]
        BY <1>0, <4>1 DEF Run
      <4> QED BY <4>3, <4>4
    <3> QED BY <3>1, <3>2
  <2>2. UNCHANGED <<screen, task, shown, alone>> BY <1>6 DEF PollLast, PollAgain
  <2> HIDE DEF key
  <2>3. ASSUME NEW x \in Run
        PROVE [x EXCEPT !.pc = pc, !.polls = polls, !.key = key] \in Run
    BY <1>3 DEF Run
  <2>4. Moves(r) BY <1>0, <2>1, <2>3 DEF Moves
  <2>5. /\ run'[r].pc \in {"use", "sleep"} /\ run'[r].owner = run[r].owner
        /\ run'[r].todo = run[r].todo
        /\ run'[r].pc # "sleep" => run'[r].polls < MaxPolls
    BY <1>0, <2>1 DEF Run
  <2>6. Employed(r)' BY <1>2, <2>5 DEF Employed, Decrypting
  <2> QED BY <1>4, <2>2, <2>4, <2>6, MovesTypes DEF TypeInv, TypeOK, Card
<1> QED BY <1>5, <1>6

LEMMA TypesUse ==
  ASSUME TypeInv, NEW r \in Runs, UseKey(r) PROVE TypeInv'
<1>0. run \in [Runs -> Run] /\ card \in Card /\ run[r].pc = "use" /\ UNCHANGED usb
  BY DEF TypeInv, TypeOK, UseKey
<1>1. /\ run[r].owner \in Decrypters /\ run[r].todo # <<>> /\ run[r].todo \in Seq(Ciphertexts)
      /\ run[r].done \in Seq(Ciphertexts) /\ run[r].polls < MaxPolls
  BY <1>0 DEF TypeInv, Employed, Decrypting, Run
<1> DEFINE done == Append(run[r].done, Head(run[r].key))
<1>2. CASE Fails(r)
  BY <1>0, <1>2, FailsTypes DEF usb, Decrypting, TypeInv, TypeOK
<1>3. CASE ~Fails(r)
  <2>1. Opens(run[r].key, Head(run[r].todo)) BY <1>3 DEF UseKey
  <2>2. Head(run[r].key) = Head(run[r].todo) BY <2>1 DEF Opens
  <2>3. Head(run[r].todo) \in Ciphertexts /\ Tail(run[r].todo) \in Seq(Ciphertexts)
    BY <1>1, TailOf
  <2> DEFINE n == Len(run[r].todo)
  <2>7. n \in Nat \ {0} /\ Len(Tail(run[r].todo)) = n - 1 BY <1>1, TailOf
  <2>4. done \in Seq(Ciphertexts) BY <1>1, <2>2, <2>3, AppendProperties
  <2>5. CASE n = 1
    <3>1. Succeeds(r, done) BY <1>3, <2>5 DEF UseKey
    <3> HIDE DEF done
    <3> QED BY <1>0, <2>4, <3>1, SucceedsTypes DEF Decrypting
  <2>6. CASE n # 1
    <3>0. Len(run[r].todo) # 1 BY <2>6
    <3>1. /\ run' = [run EXCEPT ![r].pc = "abort", ![r].key = StartKey(@),
                                ![r].todo = Tail(@), ![r].done = done]
          /\ UNCHANGED <<screen, task, shown, alone>>
      BY <1>3, <3>0 DEF UseKey
    <3>2. run' = [run EXCEPT ![r].pc = "abort", ![r].key = <<>>,
                             ![r].todo = Tail(run[r].todo), ![r].done = done]
      BY <1>0, <3>1 DEF Run, StartKey
    <3> HIDE DEF done
    <3> HIDE DEF n
    <3>3. Tail(run[r].todo) # <<>> BY <2>7, <2>6, EmptySeq
    <3>4. ASSUME NEW x \in Run
          PROVE [x EXCEPT !.pc = "abort", !.key = <<>>, !.todo = Tail(run[r].todo),
                          !.done = done] \in Run
      <4>1. <<>> \in Seq(Ciphertexts \cup {None}) BY EmptySeq
      <4> QED BY <2>3, <2>4, <4>1 DEF Run
    <3>5. Moves(r) BY <1>0, <3>2, <3>4 DEF Moves
    <3>6. /\ run'[r].pc = "abort" /\ run'[r].owner = run[r].owner
          /\ run'[r].todo = Tail(run[r].todo) /\ run'[r].polls = run[r].polls
      BY <1>0, <3>2 DEF Run
    <3>7. Employed(r)' BY <1>1, <3>3, <3>6 DEF Employed, Decrypting
    <3> QED BY <1>0, <3>1, <3>5, <3>7, MovesTypes DEF TypeInv, TypeOK, usb
  <2> QED BY <2>5, <2>6
<1> QED BY <1>2, <1>3

(* The run of a getPublicKey has no owner at any of its stages.            *)
LEMMA UrlMoves ==
  ASSUME TypeInv, NEW r \in Runs, run[r].pc \notin Decrypting, NEW pc \in UrlStages,
         run' = [run EXCEPT ![r].pc = pc]
  PROVE  Moves(r) /\ run'[r].pc = pc /\ Employed(r)'
<1>0. run \in [Runs -> Run] /\ run[r].owner = None /\ run[r].polls < MaxPolls
  BY DEF TypeInv, TypeOK, Employed, Decrypting
<1>1. ASSUME NEW x \in Run PROVE [x EXCEPT !.pc = pc] \in Run BY DEF Run
<1>2. Moves(r) BY <1>0, <1>1 DEF Moves
<1>3. run'[r].pc = pc /\ run'[r].owner = None /\ run'[r].polls = run[r].polls BY <1>0 DEF Run
<1> QED BY <1>0, <1>2, <1>3 DEF Employed, Decrypting, UrlStages

LEMMA UrlEnds ==
  ASSUME TypeInv, NEW r \in Runs, run' = [run EXCEPT ![r] = Idle]
  PROVE  Moves(r) /\ run'[r] = Idle /\ Employed(r)'
<1>1. Moves(r) /\ run'[r] = Idle BY IdleRun DEF Moves, TypeInv, TypeOK
<1> QED BY <1>1, IdleRun DEF Employed, Decrypting

LEMMA TypesUrl ==
  ASSUME TypeInv, NEW r \in Runs, NEW a,
         AddFromYubikey(r) \/ OpenDevice(r) \/ NextUrlCommand(r, a) \/ UrlAnswered(r, a)
           \/ TakesUrl(r, a)
  PROVE  TypeInv'
<1>0. /\ run \in [Runs -> Run] /\ card \in Card /\ answers \in Seq(Answer)
      /\ readers \in Seq(Runs)
  BY DEF TypeInv, TypeOK
<1>1. UNCHANGED <<screen, task, shown>> /\ alone' \in BOOLEAN
  BY DEF AddFromYubikey, OpenDevice, NextUrlCommand, UrlAnswered, TakesUrl, TypeInv, TypeOK
<1>2. ASSUME NEW pc, Reads(r, a, pc)
      PROVE  /\ run[r].pc = pc /\ Tail(answers) \in Seq(Answer) /\ Tail(readers) \in Seq(Runs)
             /\ Append(Tail(readers), r) \in Seq(Runs)
  BY <1>2, ReadsTypes
<1>3. ASSUME NEW cmd, NEW unread \in Seq(Answer), Command(cmd, r, unread),
             cmd \notin {"push", "decipher"}
      PROVE  card' \in Card /\ answers' \in Seq(Answer)
  BY <1>3, CommandTypes
<1>4. card' \in Card /\ answers' \in Seq(Answer) /\ readers' \in Seq(Runs)
  <2>1. CASE AddFromYubikey(r) BY <1>0, <2>1 DEF AddFromYubikey, usb
  <2>2. CASE OpenDevice(r)
    <3>1. CASE UNCHANGED usb BY <1>0, <3>1 DEF usb
    <3>2. CASE card' = Aborted /\ answers' \in {answers, <<>>} /\ readers' = readers
      <4>1. <<>> \in Seq(Ciphertexts) /\ <<>> \in Seq(Answer) BY EmptySeq
      <4> QED BY <1>0, <3>2, <4>1 DEF Aborted, Card
    <3>3. CASE /\ \E cmd \in {"power", "file"} : Command(cmd, r, answers)
               /\ readers' = Append(readers, r)
      BY <1>0, <1>3, <3>3, AppendProperties
    <3> QED BY <2>2, <3>1, <3>2, <3>3 DEF OpenDevice
  <2>3. CASE NextUrlCommand(r, a)
    <3>1. /\ \E cmd \in {"params", "set", "data"} : Command(cmd, r, Tail(answers))
          /\ readers' = Append(Tail(readers), r)
          /\ \E pc : Reads(r, a, pc)
      BY <2>3 DEF NextUrlCommand
    <3> QED BY <1>2, <1>3, <3>1
  <2>4. CASE UrlAnswered(r, a) \/ TakesUrl(r, a)
    <3>1. /\ answers' = Tail(answers) /\ readers' = Tail(readers) /\ card' = card
          /\ \E pc : Reads(r, a, pc)
      BY <2>4 DEF UrlAnswered, TakesUrl
    <3> QED BY <1>0, <1>2, <3>1
  <2> QED BY <2>1, <2>2, <2>3, <2>4
<1>5. Moves(r) /\ Employed(r)'
  <2>1. CASE AddFromYubikey(r)
    <3>1. run' = [run EXCEPT ![r].pc = "open"] /\ run[r].pc \notin Decrypting
      BY <2>1, IdleRun DEF AddFromYubikey, Decrypting
    <3> QED BY <3>1, UrlMoves DEF UrlStages
  <2>2. CASE ~AddFromYubikey(r)
    <3>1. run[r].pc \in UrlStages
      BY <1>2, <2>2 DEF OpenDevice, NextUrlCommand, UrlAnswered, TakesUrl, UrlStages
    <3>2. run[r].pc \notin Decrypting BY <3>1 DEF UrlStages, Decrypting
    <3>3. \/ run' = [run EXCEPT ![r] = Idle]
          \/ \E pc \in UrlStages : run' = [run EXCEPT ![r].pc = pc]
      BY <2>2 DEF OpenDevice, NextUrlCommand, UrlAnswered, TakesUrl, UrlStages
    <3> QED BY <3>2, <3>3, UrlMoves, UrlEnds
  <2> QED BY <2>1, <2>2
<1> QED BY <1>1, <1>4, <1>5, MovesTypes DEF TypeInv, TypeOK, Card

LEMMA TypeInvHolds == Spec => []TypeInv
<1>1. Init => TypeInv
  <2> SUFFICES ASSUME Init PROVE TypeInv
    OBVIOUS
  <2>1. /\ <<>> \in Seq(Ciphertexts) /\ <<>> \in Seq(Answer) /\ <<>> \in Seq(Runs)
    BY EmptySeq
  <2>2. \A r \in Runs : Employed(r) BY IdleRun DEF Init, Employed, Decrypting
  <2>3. card \in Card BY <2>1 DEF Init, Card
  <2> QED BY <2>1, <2>2, <2>3, IdleRun DEF Init, TypeInv, TypeOK, NoTask, Card
<1>2. TypeInv /\ [Next]_vars => TypeInv'
  <2> SUFFICES ASSUME TypeInv, [Next]_vars PROVE TypeInv'
    OBVIOUS
  <2>1. CASE Tap \/ NoTap BY <2>1, TypesCard
  <2>2. ASSUME NEW m \in Decrypters, Prompt(m) \/ BackToButtons(m) \/ Show(m) PROVE TypeInv'
    BY <2>2, TypesComponent
  <2>3. ASSUME NEW m \in Decrypters, NEW r \in Runs, Decrypt(m, r) PROVE TypeInv'
    BY <2>3, TypesDecrypt
  <2>4. ASSUME NEW r \in Runs, Step(r) PROVE TypeInv'
    <3>1. CASE Answered(r)
      BY <3>1, TypesCommand, TypesPoll, TypesUrl DEF Answered
    <3> QED BY <2>4, <3>1, TypesBefore, TypesUse, TypesUrl DEF Step
  <2>5. CASE UNCHANGED vars BY <2>5 DEF vars, TypeInv, TypeOK, Employed
  <2> QED BY <2>1, <2>2, <2>3, <2>4, <2>5 DEF Next
<1> QED BY <1>1, <1>2, PTL DEF Spec

(* Every variable of Decrypter stays in its type: a decryption always has  *)
(* a message to go on with, and the card has halves of messages only.      *)
THEOREM TypeCorrect == Spec => []TypeOK
<1>1. TypeInv => TypeOK BY DEF TypeInv
<1> QED BY <1>1, TypeInvHolds, PTL

-----------------------------------------------------------------------------
(* The plaintexts: what a decryption has done and what it has yet to do    *)
(* are the messages its component wants.                                   *)
LEMMA Shift ==
  ASSUME NEW S, NEW d \in Seq(S), NEW t \in Seq(S), t # <<>>
  PROVE  /\ Append(d, Head(t)) \o Tail(t) = d \o t
         /\ Len(t) = 1 => Append(d, Head(t)) = d \o t
<1> DEFINE e == Append(d, Head(t))
           u == Tail(t)
           n == Len(d)
           k == Len(t)
<1>1. n \in Nat /\ k \in Nat \ {0} BY LenProperties, EmptySeq
<1>2. /\ Head(t) = t[1] /\ Head(t) \in S /\ u \in Seq(S) /\ Len(u) = k - 1
      /\ \A i \in 1..(k - 1) : u[i] = t[i + 1]
  BY TailOf
<1>3. /\ e \in Seq(S) /\ Len(e) = n + 1 /\ e[n + 1] = t[1] /\ \A i \in 1..n : e[i] = d[i]
  BY <1>2, AppendProperties
<1>4. /\ d \o t \in Seq(S) /\ Len(d \o t) = n + k
      /\ \A i \in 1..(n + k) : (d \o t)[i] = IF i <= n THEN d[i] ELSE t[i - n]
  BY ConcatProperties
<1> HIDE DEF e, u
<1>5. /\ e \o u \in Seq(S) /\ Len(e \o u) = Len(e) + Len(u)
      /\ \A i \in 1..(Len(e) + Len(u)) :
           (e \o u)[i] = IF i <= Len(e) THEN e[i] ELSE u[i - Len(e)]
  BY <1>2, <1>3, ConcatProperties
<1> HIDE DEF n, k
<1>6. Len(e) + Len(u) = n + k BY <1>1, <1>2, <1>3
<1>7. e \o u = d \o t
  <2>1. ASSUME NEW i \in 1..(n + k) PROVE (e \o u)[i] = (d \o t)[i]
    <3>0. (e \o u)[i] = IF i <= n + 1 THEN e[i] ELSE u[i - (n + 1)] BY <1>3, <1>5, <1>6
    <3>1. CASE i <= n BY <1>1, <1>3, <1>4, <3>0, <3>1
    <3>2. CASE i = n + 1 BY <1>1, <1>2, <1>3, <1>4, <3>0, <3>2
    <3>3. CASE i > n + 1
      <4> DEFINE j == i - (n + 1)
      <4>1. j \in 1..(k - 1) /\ j + 1 = i - n BY <1>1, <3>3
      <4>2. u[j] = t[j + 1] BY <1>2, <4>1
      <4> QED BY <1>1, <1>4, <3>0, <3>3, <4>1, <4>2
    <3>4. i <= n \/ i = n + 1 \/ i > n + 1 BY <1>1
    <3> QED BY <3>1, <3>2, <3>3, <3>4
  <2> QED BY <1>4, <1>5, <1>6, <2>1, SeqEqual
<1>8. ASSUME k = 1 PROVE e = d \o t
  <2>1. ASSUME NEW i \in 1..(n + 1) PROVE e[i] = (d \o t)[i]
    BY <1>1, <1>2, <1>3, <1>4, <1>8, <2>1
  <2> QED BY <1>3, <1>4, <1>8, <2>1, SeqEqual
<1> QED BY <1>7, <1>8 DEF e, u, k

(* A decryption goes on with the same messages.                            *)
Carries(q) ==
  /\ run'[q].todo = run[q].todo /\ run'[q].done = run[q].done
  /\ run'[q].owner = run[q].owner /\ run'[q].mounted = run[q].mounted
  /\ run'[q].pc \in Decrypting <=> run[q].pc \in Decrypting
  /\ run'[q].pc = "password" => run[q].pc = "password"

GoesOn == \A q \in Runs : run'[q] \in {run[q], Idle} \/ (run[q] # Idle /\ Carries(q))

LEMMA MostGoOn ==
  ASSUME TypeInv, [Next]_vars,
         ~ \E m \in Decrypters, r \in Runs : Decrypt(m, r),
         ~ \E r \in Runs : UseKey(r) \/ PasswordDecrypt(r) \/ AddFromYubikey(r)
  PROVE  GoesOn
<1>0. run \in [Runs -> Run] /\ Idle.pc = "idle" BY IdleRun DEF TypeInv, TypeOK
<1>1. CASE UNCHANGED run BY <1>1 DEF GoesOn
<1>2. ASSUME NEW r \in Runs, run' = [run EXCEPT ![r] = Idle] PROVE GoesOn
  BY <1>0, <1>2 DEF GoesOn
<1>3. ASSUME NEW r \in Runs, NEW pc, run' = [run EXCEPT ![r].pc = pc], run[r].pc # "idle",
             pc # "password", pc \in Decrypting <=> run[r].pc \in Decrypting
      PROVE  GoesOn
  BY <1>0, <1>3 DEF GoesOn, Carries, Run
<1>4. ASSUME NEW r \in Runs, SelectDevice(r) \/ Abort(r) \/ WakeUp(r) PROVE GoesOn
  BY <1>2, <1>3, <1>4 DEF SelectDevice, Abort, WakeUp, Fails, Decrypting
<1>5. ASSUME NEW r \in Runs, SendPin(r) PROVE GoesOn
  <2>1. run' = [run EXCEPT ![r].pc = "init", ![r].stage = 1] /\ run[r].pc = "verify"
    BY <1>5 DEF SendPin
  <2> QED BY <1>0, <2>1 DEF GoesOn, Carries, Run, Decrypting
<1>6. ASSUME NEW r \in Runs, OpenDevice(r) PROVE GoesOn
  BY <1>2, <1>3, <1>6 DEF OpenDevice, Decrypting
<1>7. ASSUME NEW r \in Runs, Answered(r) PROVE GoesOn
  <2> PICK a : \/ NextCommand(r, a) \/ Refused(r, a) \/ PollLast(r, a) \/ PollAgain(r, a)
               \/ NextUrlCommand(r, a) \/ UrlAnswered(r, a) \/ TakesUrl(r, a)
    BY <1>7 DEF Answered
  <2>1. CASE NextCommand(r, a)
    <3>1. run[r].pc = "init" BY <2>1 DEF NextCommand, Reads
    <3>2. \/ run' = [run EXCEPT ![r].stage = @ + 1]
          \/ run' = [run EXCEPT ![r].pc = "poll", ![r].stage = 0]
      BY <2>1 DEF NextCommand
    <3>3. /\ run'[r].todo = run[r].todo /\ run'[r].done = run[r].done
          /\ run'[r].owner = run[r].owner /\ run'[r].mounted = run[r].mounted
          /\ run'[r].pc \in {"init", "poll"} /\ \A q \in Runs : q # r => run'[q] = run[q]
      BY <1>0, <3>1, <3>2 DEF Run
    <3> QED BY <1>0, <3>1, <3>3 DEF GoesOn, Carries, Decrypting
  <2>2. CASE PollLast(r, a) \/ PollAgain(r, a)
    <3>1. run[r].pc = "poll" BY <2>2 DEF PollLast, PollAgain, Reads
    <3>2. \/ run' = [run EXCEPT ![r] = Idle]
          \/ run' = [run EXCEPT ![r].pc = "use", ![r].key = @ \o NewHalves(@, a), ![r].polls = 0]
          \/ run' = [run EXCEPT ![r].pc = "sleep", ![r].polls = @ + 1,
                                ![r].key = @ \o NewHalves(@, a)]
      BY <2>2 DEF PollLast, PollAgain, Fails
    <3> DEFINE used == [run EXCEPT ![r].pc = "use", ![r].key = @ \o NewHalves(@, a),
                                   ![r].polls = 0]
               slept == [run EXCEPT ![r].pc = "sleep", ![r].polls = @ + 1,
                                    ![r].key = @ \o NewHalves(@, a)]
               Same(new) ==
                 /\ new[r].todo = run[r].todo /\ new[r].done = run[r].done
                 /\ new[r].owner = run[r].owner /\ new[r].mounted = run[r].mounted
                 /\ new[r].pc \in {"use", "sleep"} /\ \A q \in Runs : q # r => new[q] = run[q]
    <3>3. Same(used) BY <1>0 DEF Run
    <3>4. Same(slept) BY <1>0 DEF Run
    <3>5. run' \in {used, slept} => Same(run') BY <3>3, <3>4
    <3> HIDE DEF used, slept
    <3>6. CASE run' \in {used, slept} BY <1>0, <3>1, <3>5, <3>6 DEF GoesOn, Carries, Decrypting
    <3> QED BY <1>2, <3>2, <3>6 DEF used, slept
  <2>3. CASE Refused(r, a) \/ UrlAnswered(r, a) \/ TakesUrl(r, a) \/ NextUrlCommand(r, a)
    BY <1>2, <1>3, <2>3
       DEF Refused, UrlAnswered, TakesUrl, NextUrlCommand, Fails, Decrypting, Reads
  <2> QED BY <2>1, <2>2, <2>3
<1>8. CASE Tap \/ NoTap \/ UNCHANGED vars \/ \E m \in Decrypters : Prompt(m) \/ BackToButtons(m) \/ Show(m)
  BY <1>1, <1>8 DEF Tap, NoTap, vars, Prompt, BackToButtons, Show
<1> QED BY <1>4, <1>5, <1>6, <1>7, <1>8 DEF Next, Step

Owns(q) ==
  run[q].pc \in Decrypting =>
    /\ run[q].done \o run[q].todo = Wanted[run[q].owner]
    /\ run[q].pc = "password" => run[q].done = <<>>

Own == OwnPlaintexts /\ \A q \in Runs : Owns(q)

LEMMA OwnSucceeds ==
  ASSUME TypeInv, Own, NEW r \in Runs, run[r].pc \in Decrypting, NEW plain \in Seq(Ciphertexts),
         plain = Wanted[run[r].owner], Succeeds(r, plain)
  PROVE  Own'
<1>1. OwnPlaintexts'
  <2>1. shown' = [shown EXCEPT ![run[r].owner] = plain] /\ run[r].owner \in Decrypters
    BY SucceedsMoves
  <2> QED BY <2>1 DEF Own, OwnPlaintexts, TypeInv, TypeOK
<1>2. ASSUME NEW q \in Runs PROVE Owns(q)'
  <2>1. CASE q = r BY <2>1, SucceedsMoves, IdleRun DEF Owns, Decrypting
  <2>2. CASE q # r
    <3>1. run[q] \in Run BY DEF TypeInv, TypeOK
    <3>2. run'[q] \in {run[q], [run[q] EXCEPT !.mounted = FALSE]} BY <2>2, SucceedsMoves
    <3>3. /\ run'[q].pc = run[q].pc /\ run'[q].owner = run[q].owner
          /\ run'[q].todo = run[q].todo /\ run'[q].done = run[q].done
      BY <3>1, <3>2 DEF Run
    <3> QED BY <3>3 DEF Own, Owns
  <2> QED BY <2>1, <2>2
<1> QED BY <1>1, <1>2 DEF Own

LEMMA OwnFails ==
  ASSUME TypeInv, Own, NEW r \in Runs, run[r].pc \in Decrypting, Fails(r) PROVE Own'
<1>1. UNCHANGED shown BY DEF Fails
<1>2. \A q \in Runs : Owns(q)' BY FailsMoves, IdleRun DEF Own, Owns, Moves, Decrypting
<1> QED BY <1>1, <1>2 DEF Own, OwnPlaintexts

LEMMA OwnUse ==
  ASSUME TypeInv, Own, NEW r \in Runs, UseKey(r) \/ PasswordDecrypt(r) PROVE Own'
<1>0. run \in [Runs -> Run] /\ run[r].pc \in Decrypting
  BY DEF TypeInv, TypeOK, UseKey, PasswordDecrypt, Decrypting
<1>1. /\ run[r].todo \in Seq(Ciphertexts) /\ run[r].done \in Seq(Ciphertexts)
      /\ run[r].owner \in Decrypters /\ run[r].todo # <<>>
      /\ run[r].done \o run[r].todo = Wanted[run[r].owner]
  BY <1>0 DEF TypeInv, Employed, Run, Own, Owns
<1>2. CASE Fails(r) BY <1>0, <1>2, OwnFails
<1>3. CASE PasswordDecrypt(r) /\ Succeeds(r, run[r].todo)
  <2>1. run[r].done = <<>> BY <1>3 DEF PasswordDecrypt, Own, Owns, Decrypting
  <2>2. run[r].todo = Wanted[run[r].owner] BY <1>1, <2>1, ConcatEmptySeq
  <2> QED BY <1>0, <1>1, <1>3, <2>2, OwnSucceeds
<1>4. CASE UseKey(r) /\ ~Fails(r)
  <2> DEFINE done == Append(run[r].done, Head(run[r].key))
  <2>1. Head(run[r].key) = Head(run[r].todo) BY <1>4 DEF UseKey, Opens
  <2>2. Head(run[r].todo) \in Ciphertexts BY <1>1, TailOf
  <2>3. /\ done \in Seq(Ciphertexts)
        /\ done \o Tail(run[r].todo) = Wanted[run[r].owner]
        /\ Len(run[r].todo) = 1 => done = Wanted[run[r].owner]
    <3>1. done = Append(run[r].done, Head(run[r].todo)) BY <2>1
    <3>2. done \in Seq(Ciphertexts) BY <1>1, <2>2, <3>1, AppendProperties
    <3>3. /\ done \o Tail(run[r].todo) = run[r].done \o run[r].todo
          /\ Len(run[r].todo) = 1 => done = run[r].done \o run[r].todo
      <4> HIDE DEF done
      <4> QED BY <1>1, <3>1, Shift
    <3> HIDE DEF done
    <3> QED BY <1>1, <3>2, <3>3
  <2>4. \/ Succeeds(r, done) /\ Len(run[r].todo) = 1
        \/ /\ run' = [run EXCEPT ![r].pc = "abort", ![r].key = StartKey(@),
                                 ![r].todo = Tail(@), ![r].done = done]
           /\ UNCHANGED shown
    BY <1>4 DEF UseKey
  <2> HIDE DEF done
  <2>5. CASE Succeeds(r, done) /\ Len(run[r].todo) = 1 BY <1>0, <2>3, <2>5, OwnSucceeds
  <2>6. CASE /\ run' = [run EXCEPT ![r].pc = "abort", ![r].key = StartKey(@),
                                   ![r].todo = Tail(@), ![r].done = done]
             /\ UNCHANGED shown
    <3>1. /\ run'[r].pc = "abort" /\ run'[r].owner = run[r].owner
          /\ run'[r].todo = Tail(run[r].todo) /\ run'[r].done = done
          /\ \A q \in Runs : q # r => run'[q] = run[q]
      BY <1>0, <2>6 DEF Run
    <3>2. \A q \in Runs : Owns(q)' BY <2>3, <3>1 DEF Own, Owns
    <3> QED BY <2>6, <3>2 DEF Own, OwnPlaintexts
  <2> QED BY <2>4, <2>5, <2>6
<1> QED BY <1>2, <1>3, <1>4 DEF PasswordDecrypt

LEMMA DecryptStarts ==
  ASSUME TypeInv, NEW m \in Decrypters, NEW r \in Runs, Decrypt(m, r)
  PROVE  /\ run'[r].pc \in {"select", "password"} /\ run'[r].owner = m /\ run'[r].mounted
         /\ run'[r].todo = Wanted[m] /\ run'[r].done = <<>>
         /\ run[r] = Idle /\ Moves(r)
<1>1. PICK right \in BOOLEAN :
        run' = [run EXCEPT ![r] =
                 [Idle EXCEPT !.pc = IF screen[m] = "pin" THEN "select" ELSE "password",
                              !.owner = m, !.mounted = TRUE, !.right = right, !.todo = Wanted[m]]]
  BY DEF Decrypt
<1> DEFINE new == [Idle EXCEPT !.pc = IF screen[m] = "pin" THEN "select" ELSE "password",
                              !.owner = m, !.mounted = TRUE, !.right = right, !.todo = Wanted[m]]
<1>2. Wanted[m] \in Seq(Ciphertexts) BY ConstantsAssumption
<1>3. /\ new \in Run /\ new.pc \in {"select", "password"} /\ new.owner = m
      /\ new.mounted = TRUE /\ new.todo = Wanted[m] /\ new.done = <<>>
  BY <1>2, IdleRun DEF Run
<1>4. run' = [run EXCEPT ![r] = new] /\ run[r] = Idle BY <1>1 DEF Decrypt
<1> HIDE DEF new
<1>5. Moves(r) /\ run'[r] = new BY <1>3, <1>4 DEF Moves, TypeInv, TypeOK
<1> QED BY <1>3, <1>4, <1>5

LEMMA StepOwn == TypeInv /\ Own /\ [Next]_vars => Own'
<1> SUFFICES ASSUME TypeInv, Own, [Next]_vars PROVE Own'
  OBVIOUS
<1>1. ASSUME NEW m \in Decrypters, NEW r \in Runs, Decrypt(m, r) PROVE Own'
  <2>1. Owns(r)'
    <3>1. <<>> \o Wanted[m] = Wanted[m] BY ConstantsAssumption, ConcatEmptySeq
    <3> QED BY <1>1, <3>1, DecryptStarts DEF Owns
  <2>2. \A q \in Runs : q # r => Owns(q)'
    <3>1. \A q \in Runs : q # r => run'[q] = run[q] BY <1>1, DecryptStarts DEF Moves
    <3> QED BY <3>1 DEF Own, Owns
  <2>3. UNCHANGED shown BY <1>1 DEF Decrypt
  <2> QED BY <2>1, <2>2, <2>3 DEF Own, OwnPlaintexts
<1>2. ASSUME ~ \E m \in Decrypters, r \in Runs : Decrypt(m, r),
             ~ \E r \in Runs : UseKey(r) \/ PasswordDecrypt(r)
      PROVE  Own'
  <2>1. \A q \in Runs : Owns(q)'
    <3>1. ASSUME NEW r \in Runs, AddFromYubikey(r) PROVE \A q \in Runs : Owns(q)'
      BY <3>1 DEF AddFromYubikey, TypeInv, TypeOK, Run, Own, Owns, Decrypting
    <3>2. CASE ~ \E r \in Runs : AddFromYubikey(r)
      <4>1. GoesOn BY <1>2, <3>2, MostGoOn
      <4> QED BY <4>1, IdleRun DEF GoesOn, Carries, Own, Owns, Decrypting
    <3> QED BY <3>1, <3>2
  <2>2. OwnPlaintexts'
    <3>1. ASSUME NEW m \in Decrypters, Show(m) PROVE OwnPlaintexts'
      BY <3>1 DEF Show, Own, OwnPlaintexts, TypeInv, TypeOK
    <3>2. CASE ~ \E m \in Decrypters : Show(m)
      <4>1. UNCHANGED shown
        BY <1>2, <3>2
           DEF Next, Tap, NoTap, Prompt, BackToButtons, Step, SelectDevice, Abort, SendPin,
               WakeUp, AddFromYubikey, OpenDevice, Answered, NextCommand, Refused, PollLast,
               PollAgain, NextUrlCommand, UrlAnswered, TakesUrl, Fails, vars
      <4> QED BY <4>1 DEF Own, OwnPlaintexts
    <3> QED BY <3>1, <3>2
  <2> QED BY <2>1, <2>2 DEF Own
<1> QED BY <1>1, <1>2, OwnUse

(* actions/decrypt.js, decryptUsingSessionKey: what a component is handed  *)
(* are the plaintexts of its own messages in their order, however many     *)
(* decryptions read each other's answers.                                  *)
THEOREM PlaintextsAreOwn == Spec => []OwnPlaintexts
<1>1. Init => Own BY IdleRun DEF Init, Own, OwnPlaintexts, Owns, Decrypting
<1>2. Own => OwnPlaintexts BY DEF Own
<1> QED BY <1>1, <1>2, StepOwn, TypeInvHolds, PTL DEF Spec

-----------------------------------------------------------------------------
(* As long as no two runs were under way together there is one, and it is  *)
(* the one the screen waits for.                                           *)
Single ==
  alone => \A q, r \in Runs : run[q] # Idle /\ run[r] # Idle => q = r

LEMMA RunsMove ==
  ASSUME TypeInv, [Next]_vars, alone'
  PROVE  /\ alone
         /\ \/ \A q \in Runs : run'[q] # Idle => run[q] # Idle
            \/ /\ \A q \in Runs : run[q] = Idle
               /\ \E r \in Runs : \A q \in Runs : q # r => run'[q] = Idle
<1>0. run \in [Runs -> Run] BY DEF TypeInv, TypeOK
<1>1. ASSUME NEW m \in Decrypters, NEW r \in Runs, Decrypt(m, r)
      PROVE  /\ alone /\ \A q \in Runs : run[q] = Idle
             /\ \A q \in Runs : q # r => run'[q] = Idle
  <2>1. alone /\ \A q \in Runs : run[q] = Idle BY <1>1 DEF Decrypt
  <2> QED BY <1>1, <2>1, DecryptStarts DEF Moves
<1>2. ASSUME NEW r \in Runs, AddFromYubikey(r)
      PROVE  /\ alone /\ \A q \in Runs : run[q] = Idle
             /\ \A q \in Runs : q # r => run'[q] = Idle
  BY <1>0, <1>2 DEF AddFromYubikey
<1>3. CASE /\ ~ \E m \in Decrypters, r \in Runs : Decrypt(m, r)
           /\ ~ \E r \in Runs : AddFromYubikey(r)
  <2>1. alone
    BY <1>3
       DEF Next, Tap, NoTap, Prompt, BackToButtons, Show, Step, PasswordDecrypt, SelectDevice,
           Abort, SendPin, WakeUp, UseKey, OpenDevice, Answered, NextCommand, Refused, PollLast,
           PollAgain, NextUrlCommand, UrlAnswered, TakesUrl, Fails, Succeeds, vars
  <2>2. ASSUME NEW r \in Runs, UseKey(r) \/ PasswordDecrypt(r), NEW q \in Runs, run'[q] # Idle
        PROVE  run[q] # Idle
    <3>1. CASE Fails(r) BY <1>0, <2>2, <3>1 DEF Fails
    <3>2. ASSUME NEW plain, Succeeds(r, plain) PROVE run[q] # Idle
      <4>1. run[r].owner \in Decrypters
        BY <2>2 DEF TypeInv, Employed, UseKey, PasswordDecrypt, Decrypting
      <4>2. q \in Active(run[r].owner) => run[q] # Idle
        BY <4>1, IdleRun, ConstantsAssumption DEF Active
      <4>3. q \notin Active(run[r].owner) /\ q # r => run'[q] = run[q] BY <3>2 DEF Succeeds
      <4>4. q # r BY <2>2, <3>2 DEF Succeeds
      <4> QED BY <2>2, <4>2, <4>3, <4>4
    <3>3. CASE UseKey(r) /\ ~Fails(r) /\ ~ \E plain : Succeeds(r, plain)
      <4>1. run[r].pc = "use" /\ \A s \in Runs : s # r => run'[s] = run[s]
        BY <1>0, <3>3 DEF UseKey
      <4> QED BY <2>2, <4>1, IdleRun
    <3> QED BY <2>2, <3>1, <3>2, <3>3 DEF PasswordDecrypt
  <2>3. CASE ~ \E r \in Runs : UseKey(r) \/ PasswordDecrypt(r)
    <3>1. GoesOn BY <1>3, <2>3, MostGoOn
    <3> QED BY <2>1, <3>1 DEF GoesOn
  <2> QED BY <2>1, <2>2, <2>3
<1> QED BY <1>1, <1>2, <1>3

LEMMA StepSingle == TypeInv /\ Single /\ [Next]_vars => Single'
<1> SUFFICES ASSUME TypeInv, Single, [Next]_vars, alone',
                    NEW q \in Runs, NEW r \in Runs, run'[q] # Idle, run'[r] # Idle
             PROVE  q = r
  BY DEF Single
<1> QED BY RunsMove DEF Single

LEMMA SingleHolds == Spec => []Single
<1>1. Init => Single BY DEF Init, Single
<1> QED BY <1>1, StepSingle, TypeInvHolds, PTL DEF Spec

(* A decryption that nobody overtook tells its component, which shows no   *)
(* error yet.                                                              *)
Told(q) == run[q].owner \in Decrypters => run[q].mounted /\ ~task[run[q].owner].error

Tended == alone => (\A q \in Runs : Told(q)) /\ TapHasRun

LEMMA TendedKept ==
  ASSUME Tended, alone' => alone, UNCHANGED task,
         \A m \in Decrypters : screen'[m] = "tap" => screen[m] = "tap",
         \A q \in Runs : /\ run'[q].owner = run[q].owner
                         /\ run[q].owner \in Decrypters => run'[q].mounted = run[q].mounted
  PROVE  Tended'
BY DEF Tended, TapHasRun, Told, Active

LEMMA TendedFails ==
  ASSUME TypeInv, Single, Tended, NEW r \in Runs, run[r].pc \in Decrypting,
         Fails(r) \/ \E plain : Succeeds(r, plain)
  PROVE  Tended'
<1> SUFFICES ASSUME alone PROVE (\A q \in Runs : Told(q)') /\ TapHasRun'
  BY DEF Tended, Fails, Succeeds
<1> DEFINE m == run[r].owner
<1>0. /\ run \in [Runs -> Run] /\ screen \in [Decrypters -> {"none", "pin", "password", "tap", "gone"}]
      /\ m \in Decrypters /\ run[r] # Idle /\ None \notin Decrypters
  BY IdleRun, ConstantsAssumption DEF TypeInv, TypeOK, Employed, Decrypting
<1>1. \A q \in Runs : q # r => run[q] = Idle BY <1>0 DEF Single
<1>2. \A q \in Runs : run'[q] = Idle
  <2>1. CASE Fails(r) BY <1>0, <1>1, <2>1 DEF Fails
  <2>2. CASE ~Fails(r)
    <3>1. ASSUME NEW q \in Runs, q # r PROVE q \notin Active(m)
      BY <1>0, <1>1, <3>1, IdleRun DEF Active
    <3>2. \A q \in Runs : run'[q] = IF q = r THEN Idle
                                    ELSE IF q \in Active(m)
                                         THEN [run[q] EXCEPT !.mounted = FALSE] ELSE run[q]
      BY <2>2 DEF Succeeds
    <3> QED BY <1>1, <3>1, <3>2
  <2> QED BY <2>1, <2>2
<1>3. \A q \in Runs : Told(q)' BY <1>0, <1>2, IdleRun DEF Told
<1>4. ASSUME NEW n \in Decrypters PROVE screen'[n] # "tap"
  <2>1. CASE n = m
    <3>1. run[r].mounted /\ ~task[m].error BY <1>0 DEF Tended, Told
    <3>2. screen' \in {[screen EXCEPT ![m] = "none"], [screen EXCEPT ![m] = "gone"]}
      BY <3>1 DEF Fails, Succeeds
    <3> QED BY <1>0, <2>1, <3>2
  <2>2. CASE n # m
    <3>1. Active(n) = {} BY <1>0, <1>1, <2>2, IdleRun DEF Active
    <3>2. screen[n] # "tap" BY <3>1 DEF Tended, TapHasRun
    <3>3. screen' \in {screen, [screen EXCEPT ![m] = "none"], [screen EXCEPT ![m] = "gone"]}
      BY DEF Fails, Succeeds
    <3> QED BY <1>0, <2>2, <3>2, <3>3
  <2> QED BY <2>1, <2>2
<1> QED BY <1>3, <1>4 DEF TapHasRun

LEMMA TendedNext ==
  ASSUME TypeInv, Tended, NEW r \in Runs, NEW a, NextCommand(r, a) PROVE Tended'
<1>0. /\ run \in [Runs -> Run] /\ run[r].pc = "init"
      /\ task \in [Decrypters -> [error : BOOLEAN, tap : BOOLEAN]]
      /\ screen \in [Decrypters -> {"none", "pin", "password", "tap", "gone"}]
  BY DEF TypeInv, TypeOK, NextCommand, Reads
<1>1. run[r].owner \in Decrypters BY <1>0 DEF TypeInv, Employed, Decrypting
<1>2. \A q \in Runs : run'[q].owner = run[q].owner /\ run'[q].mounted = run[q].mounted
  <2>1. \/ run' = [run EXCEPT ![r].stage = @ + 1]
        \/ run' = [run EXCEPT ![r].pc = "poll", ![r].stage = 0]
    BY DEF NextCommand
  <2>2. CASE run' = [run EXCEPT ![r].stage = @ + 1] BY <1>0, <2>2 DEF Run
  <2>3. CASE run' = [run EXCEPT ![r].pc = "poll", ![r].stage = 0] BY <1>0, <2>3 DEF Run
  <2> QED BY <2>1, <2>2, <2>3
<1>3. /\ task' \in {task, [task EXCEPT ![run[r].owner].tap = TRUE]}
      /\ screen' \in {screen, [screen EXCEPT ![run[r].owner] = "tap"]}
      /\ alone' = alone
  BY DEF NextCommand
<1>4. \A n \in Decrypters : task'[n].error = task[n].error BY <1>0, <1>3
<1>5. \A q \in Runs : Told(q) => Told(q)' BY <1>2, <1>4 DEF Told
<1>6. \A n \in Decrypters : Active(n)' = Active(n) BY <1>2 DEF Active
<1>7. r \in Active(run[r].owner) BY DEF Active
<1>8. \A n \in Decrypters : screen'[n] = "tap" => n = run[r].owner \/ screen[n] = "tap"
  BY <1>0, <1>1, <1>3
<1>9. TapHasRun => TapHasRun'
  <2> SUFFICES ASSUME TapHasRun, alone', NEW n \in Decrypters, screen'[n] = "tap"
               PROVE  Active(n)' # {}
    BY DEF TapHasRun
  <2>1. Active(n)' = Active(n) BY <1>6
  <2>2. Active(n) # {} BY <1>3, <1>7, <1>8 DEF TapHasRun
  <2> QED BY <2>1, <2>2
<1> QED BY <1>3, <1>5, <1>9 DEF Tended

LEMMA TendedDecrypt ==
  ASSUME TypeInv, Tended, NEW m \in Decrypters, NEW r \in Runs, Decrypt(m, r) PROVE Tended'
<1> SUFFICES ASSUME alone' PROVE (\A q \in Runs : Told(q)') /\ TapHasRun'
  BY DEF Tended
<1>1. alone /\ \A q \in Runs : run[q] = Idle BY DEF Decrypt
<1>2. /\ run'[r].owner = m /\ run'[r].mounted /\ \A q \in Runs : q # r => run'[q] = Idle
  BY <1>1, DecryptStarts DEF Moves
<1>3. ~task'[m].error BY DEF Decrypt, Requested, NoTask, TypeInv, TypeOK
<1>4. \A q \in Runs : Told(q)' BY <1>2, <1>3, IdleRun, ConstantsAssumption DEF Told
<1>5. ASSUME NEW n \in Decrypters, screen'[n] = "tap" PROVE Active(n)' # {}
  <2>1. CASE n = m BY <1>2, <2>1 DEF Active
  <2>2. CASE n # m
    <3>1. screen[n] = "tap" BY <1>5, <2>2 DEF Decrypt, TypeInv, TypeOK
    <3>2. Active(n) = {} BY <1>1, IdleRun, ConstantsAssumption DEF Active
    <3> QED BY <1>1, <3>1, <3>2 DEF Tended, TapHasRun
  <2> QED BY <2>1, <2>2
<1> QED BY <1>4, <1>5 DEF TapHasRun

LEMMA StepTended == TypeInv /\ Single /\ Tended /\ [Next]_vars => Tended'
<1> SUFFICES ASSUME TypeInv, Single, Tended, [Next]_vars PROVE Tended'
  OBVIOUS
<1>0. run \in [Runs -> Run] /\ (alone' => alone) BY RunsMove DEF TypeInv, TypeOK
<1>1. ASSUME NEW m \in Decrypters, Prompt(m) \/ BackToButtons(m) PROVE Tended'
  <2>1. UNCHANGED <<task, run>> BY <1>1 DEF Prompt, BackToButtons
  <2>2. \A n \in Decrypters : screen'[n] = "tap" => screen[n] = "tap"
    BY <1>1 DEF Prompt, BackToButtons, TypeInv, TypeOK
  <2> QED BY <1>0, <2>1, <2>2, TendedKept
<1>2. ASSUME NEW m \in Decrypters, Show(m) PROVE Tended'
  <2>1. /\ screen' = [screen EXCEPT ![m] = "none"] /\ task' = [task EXCEPT ![m] = NoTask]
        /\ run' = run /\ alone' = alone
    BY <1>2 DEF Show
  <2>2. \A n \in Decrypters : ~task[n].error => ~task'[n].error
    BY <2>1 DEF TypeInv, TypeOK, NoTask
  <2>3. \A n \in Decrypters : screen'[n] = "tap" => screen[n] = "tap"
    BY <2>1 DEF TypeInv, TypeOK
  <2> QED BY <2>1, <2>2, <2>3 DEF Tended, TapHasRun, Told, Active
<1>3. ASSUME NEW r \in Runs, PasswordDecrypt(r) \/ UseKey(r) \/ SelectDevice(r) PROVE Tended'
  <2>0. run[r].pc \in Decrypting
    BY <1>3 DEF PasswordDecrypt, UseKey, SelectDevice, Decrypting
  <2>1. CASE Fails(r) \/ \E plain : Succeeds(r, plain) BY <2>0, <2>1, TendedFails
  <2>2. CASE ~Fails(r) /\ ~ \E plain : Succeeds(r, plain)
    <3>1. UNCHANGED <<screen, task>> BY <1>3, <2>2 DEF PasswordDecrypt, UseKey, SelectDevice
    <3>2. \A q \in Runs : run'[q].owner = run[q].owner /\ run'[q].mounted = run[q].mounted
      <4>1. CASE UseKey(r)
        <5>1. run' = [run EXCEPT ![r].pc = "abort", ![r].key = StartKey(@), ![r].todo = Tail(@),
                                 ![r].done = Append(run[r].done, Head(run[r].key))]
          BY <2>2, <4>1 DEF UseKey
        <5> QED BY <1>0, <5>1 DEF Run
      <4>2. CASE SelectDevice(r)
        <5>1. run' = [run EXCEPT ![r].pc = "abort"] BY <2>2, <4>2 DEF SelectDevice
        <5> QED BY <1>0, <5>1 DEF Run
      <4> QED BY <1>3, <2>2, <4>1, <4>2 DEF PasswordDecrypt
    <3> QED BY <1>0, <3>1, <3>2, TendedKept
  <2> QED BY <2>1, <2>2
<1>4. ASSUME NEW r \in Runs, NEW a, Refused(r, a) \/ PollLast(r, a) \/ WakeUp(r), Fails(r)
      PROVE  Tended'
  <2>1. run[r].pc \in Decrypting
    BY <1>4 DEF Refused, PollLast, WakeUp, Reads, Decrypting
  <2> QED BY <1>4, <2>1, TendedFails
<1>5. ASSUME UNCHANGED <<screen, task>>,
             ~ \E m \in Decrypters, r \in Runs : Decrypt(m, r),
             ~ \E r \in Runs : UseKey(r) \/ PasswordDecrypt(r) \/ AddFromYubikey(r),
             \A q \in Runs : run'[q] = Idle => run[q].pc \notin Decrypting
      PROVE  Tended'
  <2>1. GoesOn BY <1>5, MostGoOn
  <2>2. ASSUME NEW q \in Runs
        PROVE  /\ run'[q].owner = run[q].owner
               /\ run[q].owner \in Decrypters => run'[q].mounted = run[q].mounted
    <3>1. run[q].pc \notin Decrypting => run[q].owner = None BY DEF TypeInv, Employed
    <3> QED BY <1>5, <2>1, <3>1, IdleRun, ConstantsAssumption DEF GoesOn, Carries
  <2> QED BY <1>0, <1>5, <2>2, TendedKept
<1>6. ASSUME ~ \E m \in Decrypters : Prompt(m) \/ BackToButtons(m) \/ Show(m),
             ~ \E m \in Decrypters, r \in Runs : Decrypt(m, r),
             ~ \E r \in Runs : PasswordDecrypt(r) \/ UseKey(r) \/ SelectDevice(r)
                               \/ AddFromYubikey(r),
             \A r \in Runs : answers # <<>> =>
               /\ ~NextCommand(r, Head(answers)) /\ ~Refused(r, Head(answers))
               /\ ~(PollLast(r, Head(answers)) /\ Fails(r)),
             \A r \in Runs : ~(WakeUp(r) /\ Fails(r))
      PROVE  Tended'
  <2>1. CASE Tap \/ NoTap \/ UNCHANGED vars
    <3>1. UNCHANGED <<screen, task, run>> BY <2>1 DEF Tap, NoTap, vars
    <3> QED BY <1>0, <3>1, TendedKept
  <2>2. ASSUME NEW r \in Runs, Abort(r) \/ SendPin(r) \/ WakeUp(r) \/ OpenDevice(r) PROVE Tended'
    <3>1. UNCHANGED <<screen, task>> BY <1>6, <2>2 DEF Abort, SendPin, WakeUp, OpenDevice
    <3>2. \/ run[r].pc \notin Decrypting /\ \A q \in Runs : q # r => run'[q] = run[q]
          \/ run'[r].pc # "idle" /\ \A q \in Runs : q # r => run'[q] = run[q]
      <4>1. CASE OpenDevice(r) BY <1>0, <4>1 DEF OpenDevice, Decrypting
      <4>2. CASE Abort(r) \/ SendPin(r) \/ WakeUp(r)
        BY <1>0, <1>6, <2>2, <4>2 DEF Abort, SendPin, WakeUp, Run
      <4> QED BY <2>2, <4>1, <4>2
    <3>3. \A q \in Runs : run'[q] = Idle => run[q].pc \notin Decrypting
      BY <3>2, IdleRun DEF Decrypting
    <3> QED BY <1>5, <1>6, <3>1, <3>3
  <2>3. ASSUME NEW r \in Runs, Answered(r) PROVE Tended'
    <3> DEFINE a == Head(answers)
    <3>1. \/ PollLast(r, a) /\ ~Fails(r)
          \/ PollAgain(r, a)
          \/ NextUrlCommand(r, a) \/ UrlAnswered(r, a) \/ TakesUrl(r, a)
      BY <1>6, <2>3 DEF Answered
    <3> HIDE DEF a
    <3>2. UNCHANGED <<screen, task>>
      BY <3>1 DEF PollLast, PollAgain, NextUrlCommand, UrlAnswered, TakesUrl
    <3>3. \/ run[r].pc \notin Decrypting /\ \A q \in Runs : q # r => run'[q] = run[q]
          \/ run'[r].pc # "idle" /\ \A q \in Runs : q # r => run'[q] = run[q]
      <4>1. CASE NextUrlCommand(r, a) \/ UrlAnswered(r, a) \/ TakesUrl(r, a)
        BY <1>0, <4>1 DEF NextUrlCommand, UrlAnswered, TakesUrl, Reads, Decrypting
      <4>2. CASE PollLast(r, a) /\ ~Fails(r) BY <1>0, <4>2 DEF PollLast, Run
      <4>3. CASE PollAgain(r, a) BY <1>0, <4>3 DEF PollAgain, Run
      <4> QED BY <3>1, <4>1, <4>2, <4>3
    <3>4. \A q \in Runs : run'[q] = Idle => run[q].pc \notin Decrypting
      BY <3>3, IdleRun DEF Decrypting
    <3> QED BY <1>5, <1>6, <3>2, <3>4
  <2> QED BY <1>6, <2>1, <2>2, <2>3 DEF Next, Step
<1>7. ASSUME NEW r \in Runs, NEW a, NextCommand(r, a) \/ Refused(r, a) PROVE Tended'
  BY <1>4, <1>7, TendedNext DEF Refused
<1>8. ASSUME NEW r \in Runs, AddFromYubikey(r) PROVE Tended'
  <2>1. run' = [run EXCEPT ![r].pc = "open"] /\ UNCHANGED <<screen, task>>
    BY <1>8 DEF AddFromYubikey
  <2>2. \A q \in Runs : run'[q].owner = run[q].owner /\ run'[q].mounted = run[q].mounted
    BY <1>0, <2>1 DEF Run
  <2> QED BY <1>0, <2>1, <2>2, TendedKept
<1> QED BY <1>1, <1>2, <1>3, <1>4, <1>6, <1>7, <1>8, TendedDecrypt

LEMMA TendedHolds == Spec => []Tended
<1>1. Init => Tended
  BY IdleRun, ConstantsAssumption DEF Init, Tended, TapHasRun, Told
<1> QED BY <1>1, StepTended, SingleHolds, TypeInvHolds, PTL DEF Spec

(* MasterDecrypter/index.js:71-96: as long as no two runs were under way   *)
(* together, a component that says "Tap your Yubikey" has a decryption     *)
(* under way: every end of a lone one takes the words away.                *)
THEOREM TapsHaveRun == Spec => []TapHasRun
<1>1. Tended => TapHasRun BY DEF Tended, TapHasRun
<1> QED BY <1>1, TendedHolds, PTL
-----------------------------------------------------------------------------
(* A lone run, when few answers are unread as it starts.  initDecryption   *)
(* reads four answers and wants each to be ok, so that what is left over   *)
(* is read by it, or it fails; a late tap answers behind what is left.     *)
FewUnread == MaxUnread <= 4

NotOk(i) == answers[i].kind # "ok"

Late(r) ==
  card.pending # <<>> =>
    \A i \in 1..Len(answers) :
      answers[i].kind = "ok" => i <= 3 \/ (i = 4 /\ run[r].pc = "poll")

LateTaps == card.pending # <<>> =>
  \A i \in 1..Len(answers) :
    answers[i].kind = "ok" => i <= 3 \/ (i = 4 /\ \E r \in Runs : run[r].pc = "poll")

Msg(r) == Head(run[r].todo)

Starting(r) ==
  run[r].pc \in {"select", "abort", "verify"} =>
    run[r].key = <<>> /\ (Len(answers) >= 5 => NotOk(4))

(* While a command is sent before each answer is read, their number stays. *)
Pushing(r) ==
  /\ run[r].pc \in {"verify", "init"} => card.pending = <<>>
  /\ run[r].pc = "verify" => card.chain = <<>>
  /\ run[r].pc = "init" =>
       /\ card.chain = CASE run[r].stage = 3 -> <<Msg(r)>>
                         [] run[r].stage = 4 -> <<Msg(r), Msg(r)>>
                         [] OTHER -> <<>>
       /\ run[r].key = <<>>
       /\ Len(answers) >= 1
       /\ Len(answers) >= 6 => NotOk(5 - run[r].stage)
       /\ \A i \in 1..Len(answers) :
            i > Len(answers) - run[r].stage => answers[i].kind \in {"ok", "fail"}
       /\ run[r].stage >= 3 => answers[Len(answers)].kind = "ok"

(* An answer that makes finishDecryption fail comes before any key.        *)
Blocked ==
  \E i \in 1..Len(answers) :
    /\ answers[i].kind = "ok"
    /\ \A j \in 1..Len(answers) : j < i => answers[j].kind \notin {"whole", "part"}

(* The only key to come is that of message c.                              *)
KeyOf(r, c) ==
  /\ run[r].key \in {<<>>, <<c>>}
  /\ card.pending # <<>> => card.pending = <<c, c, c>> /\ run[r].key = <<>>
  /\ \A i \in 1..Len(answers) :
       \/ answers[i].kind \in {"wait", "fail"}
       \/ /\ answers[i].kind \in {"whole", "part"} /\ answers[i].of = c /\ i = Len(answers)
          /\ run[r].key = <<>> /\ card.pending = <<>>
          /\ answers[i].kind = "part" => card.rest = <<c>>
       \/ answers[i].kind = "rest" /\ answers[i].of = c /\ run[r].key = <<c>>

Polling(r) ==
  run[r].pc \in {"poll", "sleep"} => KeyOf(r, Msg(r)) \/ (Blocked /\ run[r].key = <<>>)

Using(r) ==
  run[r].pc = "use" =>
    run[r].key = <<Msg(r), Msg(r)>> /\ \A i \in 1..Len(answers) : NotOk(i)

(* getPublicKey: its fourth answer has to be ok, and the fifth is taken    *)
(* for the URL.                                                            *)
NoUrlAfter(n) ==
  n <= Len(answers) /\ answers[n].kind = "ok" => n < Len(answers) /\ ~EndsOk(answers[n + 1])

Asking(r) ==
  /\ run[r].pc = "open" =>
       NoUrlAfter(4) \/ (Len(answers) = 4 /\ card.pending = <<>>)
  /\ run[r].pc = "power" => NoUrlAfter(4)
  /\ run[r].pc = "params" => NoUrlAfter(3)
  /\ run[r].pc = "set" => NoUrlAfter(2)
  /\ run[r].pc \in {"drop", "send"} => NoUrlAfter(1)
  /\ run[r].pc = "file" => NoUrlAfter(1) \/ Len(answers) = 1
  /\ run[r].pc = "data" /\ answers # <<>> =>
       (EndsOk(answers[1]) => answers[1].kind = "url")
  /\ run[r].pc \in {"send", "file", "data"} => card.pending = <<>>

Fine(r) == Starting(r) /\ Pushing(r) /\ Polling(r) /\ Using(r) /\ Asking(r)

Lone == alone => LateTaps /\ \A r \in Runs : Fine(r)

LEMMA IdleFine ==
  ASSUME NEW r \in Runs, run'[r].pc \in {"idle", "password"} PROVE Fine(r)'
BY DEF Fine, Starting, Pushing, Polling, Using, Asking

LEMMA LoneOf ==
  ASSUME TypeInv, Single, Lone, alone, NEW r \in Runs, run[r] # Idle
  PROVE  /\ \A q \in Runs : q # r => run[q] = Idle
         /\ Late(r) /\ Fine(r)
<1>1. \A q \in Runs : q # r => run[q] = Idle BY DEF Single
<1>2. \A q \in Runs : q # r => run[q].pc \notin {"poll", "sleep"} BY <1>1, IdleRun
<1>3. LateTaps /\ Fine(r) BY DEF Lone
<1>4. Late(r) BY <1>2, <1>3 DEF LateTaps, Late
<1> QED BY <1>1, <1>3, <1>4

LEMMA LoneNext ==
  ASSUME NEW r \in Runs, \A q \in Runs : q # r => run'[q] = Idle, Late(r)', Fine(r)'
  PROVE  Lone'
<1>1. LateTaps' BY DEF LateTaps, Late
<1>2. \A q \in Runs : Fine(q)' BY IdleFine, IdleRun
<1> QED BY <1>1, <1>2 DEF Lone

LEMMA Grown ==
  ASSUME NEW s \in Seq(Answer), NEW a \in Answer
  PROVE  /\ Append(s, a) \in Seq(Answer) /\ Len(s) \in Nat /\ Len(Append(s, a)) = Len(s) + 1
         /\ Append(s, a)[Len(s) + 1] = a /\ \A i \in 1..Len(s) : Append(s, a)[i] = s[i]
BY AppendProperties

(* What a command does to a card that waits for a tap, and to one that     *)
(* does not.                                                               *)
LEMMA Refuses ==
  ASSUME NEW cmd, NEW r, NEW unread, Command(cmd, r, unread), card.pending # <<>>
  PROVE  card' = card /\ answers' = Append(unread, Plain("fail"))
BY DEF Command

LEMMA Obeys ==
  ASSUME NEW cmd, NEW r, NEW unread, Command(cmd, r, unread), card.pending = <<>>
  PROVE  /\ cmd = "verify" =>
              /\ card' = [card EXCEPT !.chain = <<>>]
              /\ \E kind \in {"ok", "fail"} : answers' = Append(unread, Plain(kind))
         /\ cmd = "push" =>
              /\ card' = [card EXCEPT !.chain = Append(card.chain, Msg(r))]
              /\ answers' = Append(unread, Plain("ok"))
         /\ cmd = "decipher" =>
              /\ card' = [card EXCEPT !.chain = <<>>, !.pending = Append(card.chain, Msg(r))]
              /\ answers' = unread
         /\ cmd = "more" =>
              /\ card' = [card EXCEPT !.chain = <<>>, !.rest = <<>>]
              /\ answers' = Append(unread, IF card.rest # <<>>
                                           THEN [kind |-> "rest", of |-> Head(card.rest)]
                                           ELSE Plain("fail"))
         /\ cmd = "power" => card' = [card EXCEPT !.chain = <<>>, !.rest = <<>>]
         /\ cmd \in {"params", "set", "file", "data"} => card' = [card EXCEPT !.chain = <<>>]
         /\ cmd \in {"power", "set"} => answers' = Append(unread, Plain("ready"))
         /\ cmd = "params" => answers' = Append(unread, Plain("params"))
         /\ cmd = "file" => answers' = Append(unread, Plain("ok"))
         /\ cmd = "data" => \E kind \in {"url", "fail"} : answers' = Append(unread, Plain(kind))
BY DEF Command, Msg

LEMMA Sorts ==
  ASSUME TypeInv, NEW r \in Runs
  PROVE  /\ answers \in Seq(Answer) /\ Len(answers) \in Nat
         /\ \A i \in 1..Len(answers) : answers[i] \in Answer
         /\ card \in Card /\ run \in [Runs -> Run] /\ run[r] \in Run
         /\ run[r].key \in Seq(Ciphertexts \cup {None}) /\ run[r].todo \in Seq(Ciphertexts)
         /\ run[r].pc \in Decrypting => run[r].todo # <<>> /\ Msg(r) \in Ciphertexts
<1>1. /\ answers \in Seq(Answer) /\ card \in Card /\ run \in [Runs -> Run] /\ run[r] \in Run
      /\ run[r].pc \in Decrypting => run[r].todo # <<>>
  BY DEF TypeInv, TypeOK, Employed
<1>2. run[r].key \in Seq(Ciphertexts \cup {None}) /\ run[r].todo \in Seq(Ciphertexts)
  BY <1>1 DEF Run
<1>3. Len(answers) \in Nat /\ \A i \in 1..Len(answers) : answers[i] \in Answer BY <1>1
<1>4. run[r].todo # <<>> => Msg(r) \in Ciphertexts BY <1>2, TailOf DEF Msg
<1> QED BY <1>1, <1>2, <1>3, <1>4

(* Late taps, as answers are read and others that are not ok arrive.       *)
LEMMA LateRead ==
  ASSUME NEW r \in Runs, Late(r), card'.pending \in {card.pending, <<>>},
         answers \in Seq(Answer), answers # <<>>, answers' = Tail(answers)
  PROVE  Late(r)'
<1> SUFFICES ASSUME card'.pending # <<>>, NEW i \in 1..Len(answers'), answers'[i].kind = "ok"
             PROVE  i <= 3
  BY DEF Late
<1>1. /\ Len(answers) \in Nat \ {0} /\ Len(answers') = Len(answers) - 1
      /\ answers'[i] = answers[i + 1]
  BY TailOf
<1>2. i + 1 \in 1..Len(answers) BY <1>1
<1> QED BY <1>1, <1>2 DEF Late

LEMMA LateGrown ==
  ASSUME NEW r \in Runs, Late(r), card'.pending \in {card.pending, <<>>},
         run[r].pc = "poll" => run'[r].pc = "poll",
         answers \in Seq(Answer), NEW a \in Answer, a.kind # "ok", answers' = Append(answers, a)
  PROVE  Late(r)'
<1> SUFFICES ASSUME card'.pending # <<>>, NEW i \in 1..Len(answers'), answers'[i].kind = "ok"
             PROVE  i <= 3 \/ (i = 4 /\ run'[r].pc = "poll")
  BY DEF Late
<1>1. /\ Len(answers) \in Nat /\ Len(answers') = Len(answers) + 1
      /\ answers'[Len(answers) + 1] = a /\ \A j \in 1..Len(answers) : answers'[j] = answers[j]
  BY Grown
<1>2. i \in 1..Len(answers) /\ answers[i].kind = "ok" BY <1>1
<1> QED BY <1>2 DEF Late

LEMMA LateAnswered ==
  ASSUME NEW r \in Runs, Late(r), card'.pending \in {card.pending, <<>>},
         answers \in Seq(Answer), answers # <<>>,
         NEW a \in Answer, a.kind # "ok", answers' = Append(Tail(answers), a)
  PROVE  Late(r)'
<1> SUFFICES ASSUME card'.pending # <<>>, NEW i \in 1..Len(answers'), answers'[i].kind = "ok"
             PROVE  i <= 3
  BY DEF Late
<1> DEFINE s == Tail(answers)
<1>1. /\ s \in Seq(Answer) /\ Len(answers) \in Nat \ {0} /\ Len(s) = Len(answers) - 1
      /\ \A j \in 1..Len(s) : s[j] = answers[j + 1]
  BY TailOf
<1> HIDE DEF s
<1>2. /\ Len(s) \in Nat /\ Len(answers') = Len(s) + 1 /\ answers'[Len(s) + 1] = a
      /\ \A j \in 1..Len(s) : answers'[j] = s[j]
  BY <1>1, Grown DEF s
<1>3. i \in 1..Len(s) /\ answers[i + 1].kind = "ok" /\ i + 1 \in 1..Len(answers)
  BY <1>1, <1>2
<1> QED BY <1>3 DEF Late

LEMMA LateNever ==
  ASSUME NEW r \in Runs, card'.pending = <<>> PROVE Late(r)'
BY DEF Late

LEMMA PlainAnswers ==
  /\ \A kind \in {"ok", "fail", "wait", "ready", "params", "url"} :
       Plain(kind) \in Answer /\ Plain(kind).kind = kind
  /\ \A kind \in {"whole", "part", "rest"}, c \in Ciphertexts :
       [kind |-> kind, of |-> c] \in Answer
BY DEF Plain, Answer

-----------------------------------------------------------------------------
(* The answers that getPublicKey is going to read.                         *)
LEMMA UrlGrown ==
  ASSUME answers \in Seq(Answer), NEW n \in Nat \ {0}, NoUrlAfter(n),
         NEW a \in Answer, a.kind # "ok", answers' = Append(answers, a)
  PROVE  NoUrlAfter(n)'
<1> SUFFICES ASSUME n <= Len(answers'), answers'[n].kind = "ok"
             PROVE  n < Len(answers') /\ ~EndsOk(answers'[n + 1])
  BY DEF NoUrlAfter
<1>1. /\ Len(answers) \in Nat /\ Len(answers') = Len(answers) + 1
      /\ answers'[Len(answers) + 1] = a /\ \A j \in 1..Len(answers) : answers'[j] = answers[j]
  BY Grown
<1>2. n \in 1..Len(answers) /\ answers[n].kind = "ok" BY <1>1
<1>3. n < Len(answers) /\ ~EndsOk(answers[n + 1]) BY <1>2 DEF NoUrlAfter
<1>4. n + 1 \in 1..Len(answers) BY <1>1, <1>3
<1> QED BY <1>1, <1>3, <1>4

LEMMA UrlRead ==
  ASSUME answers \in Seq(Answer), answers # <<>>, NEW n \in Nat \ {0}, NoUrlAfter(n + 1),
         answers' = Tail(answers)
  PROVE  NoUrlAfter(n)'
<1> SUFFICES ASSUME n <= Len(answers'), answers'[n].kind = "ok"
             PROVE  n < Len(answers') /\ ~EndsOk(answers'[n + 1])
  BY DEF NoUrlAfter
<1>1. /\ Len(answers) \in Nat \ {0} /\ Len(answers') = Len(answers) - 1
      /\ \A j \in 1..Len(answers') : answers'[j] = answers[j + 1]
  BY TailOf
<1>2. n + 1 <= Len(answers) /\ answers[n + 1].kind = "ok" BY <1>1
<1>3. n + 1 < Len(answers) /\ ~EndsOk(answers[n + 1 + 1]) BY <1>2 DEF NoUrlAfter
<1>4. n + 1 \in 1..Len(answers') BY <1>1, <1>3
<1> QED BY <1>1, <1>3, <1>4

LEMMA UrlNext ==
  ASSUME answers \in Seq(Answer), answers # <<>>, NEW n \in Nat \ {0}, NoUrlAfter(n + 1),
         NEW a \in Answer, a.kind # "ok", answers' = Append(Tail(answers), a)
  PROVE  NoUrlAfter(n)'
<1> SUFFICES ASSUME n <= Len(answers'), answers'[n].kind = "ok"
             PROVE  n < Len(answers') /\ ~EndsOk(answers'[n + 1])
  BY DEF NoUrlAfter
<1> DEFINE s == Tail(answers)
<1>1. /\ s \in Seq(Answer) /\ Len(answers) \in Nat \ {0} /\ Len(s) = Len(answers) - 1
      /\ \A j \in 1..Len(s) : s[j] = answers[j + 1]
  BY TailOf
<1> HIDE DEF s
<1>2. /\ Len(s) \in Nat /\ Len(answers') = Len(s) + 1 /\ answers'[Len(s) + 1] = a
      /\ \A j \in 1..Len(s) : answers'[j] = s[j]
  BY <1>1, Grown DEF s
<1>3. n \in 1..Len(s) /\ n + 1 <= Len(answers) /\ answers[n + 1].kind = "ok"
  BY <1>1, <1>2
<1>4. n + 1 < Len(answers) /\ ~EndsOk(answers[n + 1 + 1]) BY <1>3 DEF NoUrlAfter
<1>5. n + 1 \in 1..Len(s) BY <1>1, <1>4
<1> QED BY <1>1, <1>2, <1>4, <1>5

-----------------------------------------------------------------------------
(* The user taps, or does not.                                             *)
LEMMA TapAnswers ==
  ASSUME TypeInv, Tap \/ NoTap
  PROVE  /\ card.pending # <<>> /\ card'.pending \in {card.pending, <<>>}
         /\ UNCHANGED <<run, alone>>
         /\ \E a \in Answer :
              /\ a.kind # "ok" /\ answers' = Append(answers, a)
              /\ \/ a.kind \in {"wait", "fail"}
                 \/ /\ a.kind \in {"whole", "part"} /\ a.of = Head(card.pending)
                    /\ card'.pending = <<>>
                    /\ a.kind = "part" => card'.rest = <<Head(card.pending)>>
              /\ \A c \in Ciphertexts : card.pending = <<c, c, c>> => Head(card.pending) = c
<1>1. card \in Card /\ card.pending \in Seq(Ciphertexts) BY DEF TypeInv, TypeOK
<1>2. \A c \in Ciphertexts : card.pending = <<c, c, c>> => Head(card.pending) = c OBVIOUS
<1>3. card.pending # <<>> /\ UNCHANGED <<run, alone>> BY DEF Tap, NoTap
<1>4. Head(card.pending) \in Ciphertexts BY <1>1, <1>3, TailOf
<1>5. CASE \E kind \in {"whole", "part"} :
             /\ answers' = Append(answers, [kind |-> kind, of |-> Head(card.pending)])
             /\ card' = [card EXCEPT !.pending = <<>>,
                                     !.rest = IF kind = "part" THEN <<Head(card.pending)>> ELSE <<>>]
  <2>1. PICK kind \in {"whole", "part"} :
             /\ answers' = Append(answers, [kind |-> kind, of |-> Head(card.pending)])
             /\ card' = [card EXCEPT !.pending = <<>>,
                                     !.rest = IF kind = "part" THEN <<Head(card.pending)>> ELSE <<>>]
    BY <1>5
  <2> DEFINE a == [kind |-> kind, of |-> Head(card.pending)]
  <2>2. a \in Answer /\ a.kind = kind /\ a.of = Head(card.pending) BY <1>4, PlainAnswers
  <2>3. card'.pending = <<>> /\ (kind = "part" => card'.rest = <<Head(card.pending)>>)
    BY <1>1, <2>1 DEF Card
  <2>4. answers' = Append(answers, a) BY <2>1
  <2> HIDE DEF a
  <2> QED BY <1>2, <1>3, <2>2, <2>3, <2>4
<1>6. CASE \E kind \in {"wait", "fail"} :
             /\ answers' = Append(answers, Plain(kind))
             /\ card' \in {card, [card EXCEPT !.pending = <<>>]}
  <2>1. card'.pending \in {card.pending, <<>>} BY <1>1, <1>6 DEF Card
  <2> QED BY <1>2, <1>3, <1>6, <2>1, PlainAnswers
<1> QED BY <1>5, <1>6 DEF Tap, NoTap

LEMMA FineTap ==
  ASSUME TypeInv, NEW r \in Runs, Late(r), Fine(r), Tap \/ NoTap PROVE Fine(r)'
<1>1. /\ answers \in Seq(Answer) /\ Len(answers) \in Nat
      /\ run[r].pc \in Decrypting => Msg(r) \in Ciphertexts
  BY Sorts
<1>2. /\ card.pending # <<>> /\ UNCHANGED run
  BY TapAnswers
<1>3. PICK a \in Answer :
        /\ a.kind # "ok" /\ answers' = Append(answers, a)
        /\ \/ a.kind \in {"wait", "fail"}
           \/ /\ a.kind \in {"whole", "part"} /\ a.of = Head(card.pending)
              /\ card'.pending = <<>>
              /\ a.kind = "part" => card'.rest = <<Head(card.pending)>>
        /\ \A c \in Ciphertexts : card.pending = <<c, c, c>> => Head(card.pending) = c
  BY TapAnswers
<1>4. card'.pending \in {card.pending, <<>>} BY TapAnswers
<1>5. /\ Len(answers') = Len(answers) + 1 /\ answers'[Len(answers) + 1] = a
      /\ \A j \in 1..Len(answers) : answers'[j] = answers[j]
  BY <1>1, <1>3, Grown
<1>6. Msg(r)' = Msg(r) BY <1>2 DEF Msg
<1>7. Starting(r)'
  <2> SUFFICES ASSUME run[r].pc \in {"select", "abort", "verify"}
               PROVE  run[r].key = <<>> /\ (Len(answers') >= 5 => answers'[4].kind # "ok")
    BY <1>2 DEF Starting, NotOk
  <2>1. run[r].key = <<>> BY DEF Fine, Starting
  <2>2. ASSUME Len(answers') >= 5 PROVE answers[4].kind # "ok"
    <3>1. 4 \in 1..Len(answers) BY <1>1, <1>5, <2>2
    <3> QED BY <1>2, <3>1 DEF Late
  <2>3. Len(answers') >= 5 => answers'[4] = answers[4] BY <1>1, <1>5
  <2> QED BY <2>1, <2>2, <2>3
<1>8. run[r].pc \notin {"verify", "init", "send", "file", "data"}
  BY <1>2 DEF Fine, Pushing, Asking
<1>9. Pushing(r)' BY <1>2, <1>8 DEF Pushing
<1>10. Polling(r)'
  <2> SUFFICES ASSUME run[r].pc \in {"poll", "sleep"}
               PROVE  KeyOf(r, Msg(r))' \/ (Blocked' /\ run[r].key = <<>>)
    BY <1>2 DEF Polling
  <2> DEFINE c == Msg(r)
  <2>1. c \in Ciphertexts BY <1>1 DEF Decrypting
  <2> HIDE DEF c
  <2>2. CASE KeyOf(r, c)
    <3>1. card.pending = <<c, c, c>> /\ run[r].key = <<>> BY <1>2, <2>2 DEF KeyOf
    <3>2. Head(card.pending) = c BY <1>3, <2>1, <3>1
    <3>3. ASSUME NEW i \in 1..Len(answers) PROVE answers[i].kind \in {"wait", "fail"}
      BY <1>2, <2>2, <3>1 DEF KeyOf
    <3>4. ASSUME NEW i \in 1..Len(answers')
          PROVE  \/ answers'[i].kind \in {"wait", "fail"}
                 \/ /\ answers'[i].kind \in {"whole", "part"} /\ answers'[i].of = c
                    /\ i = Len(answers') /\ card'.pending = <<>>
                    /\ answers'[i].kind = "part" => card'.rest = <<c>>
      <4>1. CASE i \in 1..Len(answers) BY <1>5, <3>3, <4>1
      <4>2. CASE i = Len(answers) + 1 BY <1>3, <1>5, <3>2, <4>2
      <4> QED BY <1>1, <1>5, <4>1, <4>2
    <3>5. KeyOf(r, c)' BY <1>2, <1>4, <3>1, <3>4, <1>6 DEF KeyOf, c
    <3> QED BY <3>5, <1>6 DEF c
  <2>3. CASE Blocked /\ run[r].key = <<>>
    <3>1. PICK i \in 1..Len(answers) :
            /\ answers[i].kind = "ok"
            /\ \A j \in 1..Len(answers) : j < i => answers[j].kind \notin {"whole", "part"}
      BY <2>3 DEF Blocked
    <3>2. i \in 1..Len(answers') /\ answers'[i].kind = "ok" BY <1>1, <1>5, <3>1
    <3>3. ASSUME NEW j \in 1..Len(answers'), j < i PROVE answers'[j].kind \notin {"whole", "part"}
      <4>1. j \in 1..Len(answers) BY <1>1, <1>5, <3>3
      <4> QED BY <1>5, <3>1, <3>3, <4>1
    <3> QED BY <2>3, <3>2, <3>3 DEF Blocked
  <2> QED BY <2>2, <2>3 DEF Fine, Polling, c
<1>11. Using(r)'
  <2> SUFFICES ASSUME run[r].pc = "use"
               PROVE  /\ run[r].key = <<Msg(r), Msg(r)>>
                      /\ \A i \in 1..Len(answers') : answers'[i].kind # "ok"
    BY <1>2, <1>6 DEF Using, NotOk
  <2>1. /\ run[r].key = <<Msg(r), Msg(r)>>
        /\ \A i \in 1..Len(answers) : answers[i].kind # "ok"
    BY DEF Fine, Using, NotOk
  <2> QED BY <1>1, <1>3, <1>5, <2>1
<1>12. Asking(r)'
  <2>1. ASSUME NEW n \in {1, 2, 3, 4}, NoUrlAfter(n) PROVE NoUrlAfter(n)'
    BY <1>1, <1>3, <2>1, UrlGrown
  <2> QED BY <1>2, <1>8, <2>1 DEF Fine, Asking
<1> QED BY <1>7, <1>9, <1>10, <1>11, <1>12 DEF Fine

-----------------------------------------------------------------------------
(* What ends a run, having read one more answer or none.                   *)
LEMMA FineEnds ==
  ASSUME TypeInv, NEW r \in Runs, Late(r), run'[r] = Idle, card'.pending \in {card.pending, <<>>},
         \/ answers' = answers /\ run[r].pc # "poll"
         \/ answers # <<>> /\ answers' = Tail(answers)
  PROVE  Late(r)' /\ Fine(r)'
<1>1. answers \in Seq(Answer) BY Sorts
<1>2. Fine(r)' BY IdleFine, IdleRun
<1>3. CASE answers' = answers /\ run[r].pc # "poll" BY <1>2, <1>3 DEF Late
<1>4. CASE answers # <<>> /\ answers' = Tail(answers) BY <1>1, <1>2, <1>4, LateRead
<1> QED BY <1>3, <1>4

(* Before the commands of initDecryption.                                  *)
LEMMA FineBefore ==
  ASSUME TypeInv, NEW r \in Runs, Late(r), Fine(r),
         PasswordDecrypt(r) \/ SelectDevice(r) \/ Abort(r) \/ SendPin(r)
  PROVE  Late(r)' /\ Fine(r)'
<1>1. /\ answers \in Seq(Answer) /\ Len(answers) \in Nat /\ card \in Card
      /\ run \in [Runs -> Run] /\ run[r] \in Run /\ run[r].todo \in Seq(Ciphertexts)
  BY Sorts
<1>2. CASE (PasswordDecrypt(r) \/ SelectDevice(r)) /\ run'[r] = Idle
  <2>1. UNCHANGED usb /\ run[r].pc \in {"password", "select"}
    BY <1>2 DEF PasswordDecrypt, SelectDevice
  <2> QED BY <1>2, <2>1, FineEnds DEF usb
<1>3. CASE PasswordDecrypt(r) /\ run'[r] # Idle
  BY <1>1, <1>3 DEF PasswordDecrypt, Fails, Succeeds
<1>4. CASE SelectDevice(r) /\ run'[r] # Idle
  <2>1. UNCHANGED <<card, answers>> /\ run[r].pc = "select" /\ run' = [run EXCEPT ![r].pc = "abort"]
    BY <1>1, <1>4 DEF SelectDevice, Fails, usb
  <2>2. run'[r].pc = "abort" /\ run'[r].key = run[r].key BY <1>1, <2>1 DEF Run
  <2>3. Late(r)' BY <2>1, <2>2 DEF Late
  <2> QED BY <2>1, <2>2, <2>3 DEF Fine, Starting, Pushing, Polling, Using, Asking, NotOk
<1>5. CASE Abort(r)
  <2>1. /\ run[r].pc = "abort" /\ run' = [run EXCEPT ![r].pc = "verify"]
        /\ answers' = answers \/ answers' = <<>>
        /\ card'.pending = <<>> /\ card'.chain = <<>>
    BY <1>1, <1>5 DEF Abort, Aborted, Card
  <2>2. run'[r].pc = "verify" /\ run'[r].key = run[r].key BY <1>1, <2>1 DEF Run
  <2>3. Starting(r)'
    BY <2>1, <2>2, EmptySeq DEF Fine, Starting, NotOk
  <2> QED BY <2>1, <2>2, <2>3, LateNever DEF Fine, Pushing, Polling, Using, Asking
<1>6. CASE SendPin(r)
  <2>1. /\ run[r].pc = "verify" /\ Command("verify", r, answers)
        /\ run' = [run EXCEPT ![r].pc = "init", ![r].stage = 1]
    BY <1>6 DEF SendPin, Commands
  <2>2. /\ run'[r].pc = "init" /\ run'[r].stage = 1 /\ run'[r].key = run[r].key
    BY <1>1, <2>1 DEF Run
  <2>3. /\ card.pending = <<>> /\ card.chain = <<>> /\ run[r].key = <<>>
        /\ Len(answers) >= 5 => answers[4].kind # "ok"
    BY <2>1 DEF Fine, Pushing, Starting, NotOk
  <2>4. card' = [card EXCEPT !.chain = <<>>] BY <2>1, <2>3, Obeys
  <2>5. PICK kind \in {"ok", "fail"} : answers' = Append(answers, Plain(kind))
    BY <2>1, <2>3, Obeys
  <2>6. /\ Len(answers') = Len(answers) + 1 /\ answers'[Len(answers) + 1] = Plain(kind)
        /\ \A j \in 1..Len(answers) : answers'[j] = answers[j]
    BY <1>1, <2>5, Grown, PlainAnswers
  <2>7. card'.pending = <<>> /\ card'.chain = <<>> BY <1>1, <2>3, <2>4 DEF Card
  <2>8. Pushing(r)'
    <3>1. Len(answers') >= 6 => answers'[4].kind # "ok" BY <1>1, <2>3, <2>6
    <3>2. \A i \in 1..Len(answers') : i > Len(answers') - 1 => answers'[i].kind \in {"ok", "fail"}
      BY <1>1, <2>6, PlainAnswers
    <3> QED BY <1>1, <2>2, <2>3, <2>6, <2>7, <3>1, <3>2 DEF Pushing, NotOk
  <2> QED BY <2>2, <2>7, <2>8, LateNever DEF Fine, Starting, Polling, Using, Asking
<1> QED BY <1>2, <1>3, <1>4, <1>5, <1>6

LEMMA Parts ==
  ASSUME NEW c \in Ciphertexts
  PROVE  Append(<<>>, c) = <<c>> /\ Append(<<c>>, c) = <<c, c>> /\ Append(<<c, c>>, c) = <<c, c, c>>
<1>1. <<c>> \in Seq(Ciphertexts) /\ <<c, c>> \in Seq(Ciphertexts) /\ <<c, c, c>> \in Seq(Ciphertexts)
  OBVIOUS
<1>2. Append(<<c>>, c) = <<c, c>>
  <2>1. \A i \in 1..2 : Append(<<c>>, c)[i] = <<c, c>>[i] BY <1>1, AppendProperties
  <2>2. Append(<<c>>, c) \in Seq(Ciphertexts) /\ Len(Append(<<c>>, c)) = 2
    BY <1>1, AppendProperties
  <2> QED BY <1>1, <2>1, <2>2, SeqEqual
<1>3. Append(<<c, c>>, c) = <<c, c, c>>
  <2>1. \A i \in 1..3 : Append(<<c, c>>, c)[i] = <<c, c, c>>[i] BY <1>1, AppendProperties
  <2>2. Append(<<c, c>>, c) \in Seq(Ciphertexts) /\ Len(Append(<<c, c>>, c)) = 3
    BY <1>1, AppendProperties
  <2> QED BY <1>1, <2>1, <2>2, SeqEqual
<1> QED BY <1>2, <1>3

LEMMA Halves ==
  ASSUME NEW c \in Ciphertexts
  PROVE  <<c>> \o <<c>> = <<c, c>> /\ <<>> \o <<c, c>> = <<c, c>> /\ <<>> \o <<c>> = <<c>>
         /\ <<c>> \o <<>> = <<c>>
<1>1. <<c>> \in Seq(Ciphertexts) /\ <<c, c>> \in Seq(Ciphertexts) OBVIOUS
<1>2. <<c>> \o <<c>> = <<c, c>>
  <2>1. \A i \in 1..2 : (<<c>> \o <<c>>)[i] = <<c, c>>[i] BY <1>1, ConcatProperties
  <2>2. <<c>> \o <<c>> \in Seq(Ciphertexts) /\ Len(<<c>> \o <<c>>) = 2 BY <1>1, ConcatProperties
  <2> QED BY <1>1, <2>1, <2>2, SeqEqual
<1> QED BY <1>1, <1>2

(* The commands of initDecryption: one more answer for each that is read.  *)
LEMMA FineCommand ==
  ASSUME TypeInv, NEW r \in Runs, Fine(r), answers # <<>>, NextCommand(r, Head(answers))
  PROVE  Late(r)' /\ Fine(r)'
<1>1. /\ answers \in Seq(Answer) /\ card \in Card /\ run \in [Runs -> Run] /\ run[r] \in Run
      /\ run[r].todo \in Seq(Ciphertexts)
  BY Sorts
<1>0. card.pending = <<>> BY DEF Fine, Pushing, NextCommand, Reads
<1>2. /\ run[r].pc = "init" /\ answers[1].kind = "ok" /\ run[r].stage \in 1..4
      /\ Command(Commands[run[r].stage + 1], r, Tail(answers))
  BY <1>1, TailOf DEF NextCommand, Reads, IsOk, TypeInv, Employed
<1>3. /\ card.pending = <<>> /\ run[r].key = <<>>
      /\ card.chain = CASE run[r].stage = 3 -> <<Msg(r)>>
                        [] run[r].stage = 4 -> <<Msg(r), Msg(r)>>
                        [] OTHER -> <<>>
      /\ Len(answers) >= 6 => answers[5 - run[r].stage].kind # "ok"
      /\ \A i \in 1..Len(answers) :
           i > Len(answers) - run[r].stage => answers[i].kind \in {"ok", "fail"}
      /\ run[r].stage >= 3 => answers[Len(answers)].kind = "ok"
  BY <1>2 DEF Fine, Pushing, NotOk
<1> DEFINE s == Tail(answers)
<1>4. /\ s \in Seq(Answer) /\ Len(answers) \in Nat \ {0} /\ Len(s) = Len(answers) - 1
      /\ \A j \in 1..Len(s) : s[j] = answers[j + 1]
  BY <1>1, TailOf
<1> HIDE DEF s
<1>5. CASE run[r].stage < 4
  <2>1. run' = [run EXCEPT ![r].stage = run[r].stage + 1]
    BY <1>5 DEF NextCommand
  <2>2. /\ run'[r].pc = "init" /\ run'[r].stage = run[r].stage + 1 /\ run'[r].key = <<>>
        /\ run'[r].todo = run[r].todo
    BY <1>1, <1>2, <1>3, <2>1 DEF Run
  <2>3. Msg(r)' = Msg(r) BY <2>2 DEF Msg
  <2>4. /\ card'.pending = <<>>
        /\ card'.chain = CASE run[r].stage = 2 -> <<Msg(r)>>
                           [] run[r].stage = 3 -> <<Msg(r), Msg(r)>>
                           [] OTHER -> <<>>
        /\ \E kind \in {"ok", "fail"} :
             answers' = Append(s, Plain(kind)) /\ (run[r].stage \in {2, 3} => kind = "ok")
    <3>1. CASE run[r].stage = 1
      <4>1. Command("verify", r, s) BY <1>2, <3>1 DEF Commands, s
      <4>2. /\ card' = [card EXCEPT !.chain = <<>>]
            /\ \E kind \in {"ok", "fail"} : answers' = Append(s, Plain(kind))
        BY <1>0, <4>1, Obeys
      <4> QED BY <1>1, <1>3, <3>1, <4>2 DEF Card
    <3>2. CASE run[r].stage \in {2, 3}
      <4>1. Command("push", r, s) BY <1>2, <3>2 DEF Commands, s
      <4>2. /\ card' = [card EXCEPT !.chain = Append(card.chain, Msg(r))]
            /\ answers' = Append(s, Plain("ok"))
        BY <1>0, <4>1, Obeys
      <4>3. card'.pending = <<>> /\ card'.chain = Append(card.chain, Msg(r))
        BY <1>1, <1>3, <4>2 DEF Card
      <4>4. card.chain = IF run[r].stage = 2 THEN <<>> ELSE <<Msg(r)>> BY <1>3, <3>2
      <4>5. Msg(r) \in Ciphertexts BY <1>2, Sorts DEF Decrypting
      <4>6. CASE run[r].stage = 2 BY <4>2, <4>3, <4>4, <4>5, <4>6, Parts
      <4>7. CASE run[r].stage = 3
        <5>1. card.chain = <<Msg(r)>> BY <4>4, <4>7
        <5>2. card'.chain = <<Msg(r), Msg(r)>> BY <4>3, <4>5, <5>1, Parts
        <5> QED BY <4>2, <4>3, <4>7, <5>2
      <4> QED BY <3>2, <4>6, <4>7
    <3> QED BY <1>2, <1>5, <3>1, <3>2
  <2>5. PICK kind \in {"ok", "fail"} :
          answers' = Append(s, Plain(kind)) /\ (run[r].stage \in {2, 3} => kind = "ok")
    BY <2>4
  <2>6. /\ Len(answers') = Len(answers) /\ answers'[Len(answers)] = Plain(kind)
        /\ Plain(kind).kind = kind
        /\ \A j \in 1..Len(s) : answers'[j] = answers[j + 1]
    <3>1. Plain(kind) \in Answer /\ Plain(kind).kind = kind BY PlainAnswers
    <3>2. /\ Len(answers') = Len(s) + 1 /\ answers'[Len(s) + 1] = Plain(kind)
          /\ \A j \in 1..Len(s) : answers'[j] = s[j]
      BY <1>4, <2>5, <3>1, Grown
    <3> QED BY <1>4, <3>1, <3>2
  <2>7. Len(answers') >= 6 => answers'[5 - run'[r].stage].kind # "ok"
    <3> SUFFICES ASSUME Len(answers) >= 6 PROVE answers'[4 - run[r].stage].kind # "ok"
      BY <1>2, <2>2, <2>6
    <3>1. 4 - run[r].stage \in 1..Len(s) BY <1>2, <1>4, <1>5
    <3>2. answers'[4 - run[r].stage] = answers[(4 - run[r].stage) + 1] BY <2>6, <3>1
    <3> QED BY <1>2, <1>3, <3>2
  <2>8. ASSUME NEW i \in 1..Len(answers'), i > Len(answers') - run'[r].stage
        PROVE  answers'[i].kind \in {"ok", "fail"}
    <3>1. CASE i = Len(answers) BY <2>6, <3>1
    <3>2. CASE i # Len(answers)
      <4>1. i \in 1..Len(s) /\ i + 1 \in 1..Len(answers) /\ i + 1 > Len(answers) - run[r].stage
        BY <1>2, <1>4, <2>2, <2>6, <2>8, <3>2
      <4> QED BY <1>3, <2>6, <4>1
    <3> QED BY <3>1, <3>2
  <2>9. run'[r].stage >= 3 => answers'[Len(answers')].kind = "ok"
    BY <1>2, <1>5, <2>2, <2>5, <2>6
  <2>10. Pushing(r)'
    <3>1. card'.chain = CASE run'[r].stage = 3 -> <<Msg(r)'>>
                          [] run'[r].stage = 4 -> <<Msg(r)', Msg(r)'>>
                          [] OTHER -> <<>>
      BY <1>2, <2>2, <2>3, <2>4
    <3>2. Len(answers') >= 1 BY <1>4, <2>6
    <3> QED BY <2>2, <2>4, <2>7, <2>8, <2>9, <3>1, <3>2 DEF Pushing, NotOk
  <2> QED BY <2>2, <2>4, <2>10, LateNever DEF Fine, Starting, Polling, Using, Asking
<1>6. CASE run[r].stage = 4
  <2>1. run' = [run EXCEPT ![r].pc = "poll", ![r].stage = 0]
    BY <1>6 DEF NextCommand
  <2>2. run'[r].pc = "poll" /\ run'[r].key = <<>> /\ run'[r].todo = run[r].todo
    BY <1>1, <1>3, <2>1 DEF Run
  <2>3. Msg(r)' = Msg(r) BY <2>2 DEF Msg
  <2>4. Command("decipher", r, s) BY <1>2, <1>6 DEF Commands, s
  <2>5. /\ card' = [card EXCEPT !.chain = <<>>, !.pending = Append(card.chain, Msg(r))]
        /\ answers' = s
    BY <1>0, <2>4, Obeys
  <2>6. card'.pending = <<Msg(r), Msg(r), Msg(r)>>
    <3>1. card.chain = <<Msg(r), Msg(r)>> BY <1>3, <1>6
    <3>2. card'.pending = Append(card.chain, Msg(r)) BY <1>1, <2>5 DEF Card
    <3>3. Msg(r) \in Ciphertexts BY <1>2, Sorts DEF Decrypting
    <3> QED BY <3>1, <3>2, <3>3, Parts
  <2>7. Len(answers) <= 5 BY <1>2, <1>3, <1>4, <1>6
  <2>8. \A i \in 1..Len(s) : s[i].kind \in {"ok", "fail"}
    <3> SUFFICES ASSUME NEW i \in 1..Len(s) PROVE s[i].kind \in {"ok", "fail"} OBVIOUS
    <3>1. i + 1 \in 1..Len(answers) /\ i + 1 > Len(answers) - 4 BY <1>4, <2>7
    <3> QED BY <1>3, <1>4, <1>6, <3>1
  <2>9. Late(r)' BY <1>4, <2>2, <2>5, <2>7 DEF Late
  <2>10. CASE Len(answers) = 1
    <3>1. \A i \in 1..Len(answers') : FALSE BY <1>4, <2>5, <2>10
    <3>2. KeyOf(r, Msg(r))' BY <2>2, <2>3, <2>6, <3>1 DEF KeyOf
    <3> QED BY <2>2, <2>9, <3>2 DEF Fine, Starting, Pushing, Polling, Using, Asking
  <2>11. CASE Len(answers) # 1
    <3>1. Len(s) \in 1..Len(s) /\ s[Len(s)].kind = "ok"
      BY <1>3, <1>4, <1>6, <2>11
    <3>2. Blocked' BY <2>5, <2>8, <3>1 DEF Blocked
    <3> QED BY <2>2, <2>9, <3>2 DEF Fine, Starting, Pushing, Polling, Using, Asking
  <2> QED BY <2>10, <2>11
<1> QED BY <1>2, <1>5, <1>6

LEMMA FineRefused ==
  ASSUME TypeInv, NEW r \in Runs, Late(r), answers # <<>>, Refused(r, Head(answers))
  PROVE  Late(r)' /\ Fine(r)'
<1>1. run \in [Runs -> Run] BY Sorts
<1>2. run'[r] = Idle /\ answers' = Tail(answers) /\ card' = card
  BY <1>1 DEF Refused, Fails
<1> QED BY <1>2, FineEnds

-----------------------------------------------------------------------------
(* The first answer that finishDecryption reads.                           *)
LEMMA FirstPolled ==
  ASSUME TypeInv, NEW r \in Runs, Fine(r), NEW a, Reads(r, a, "poll")
  PROVE  /\ answers # <<>> /\ a = answers[1] /\ 1 \in 1..Len(answers) /\ a \in Answer
         /\ run[r].pc = "poll" /\ Msg(r) \in Ciphertexts
         /\ \/ KeyOf(r, Msg(r))
               /\ \/ a.kind \in {"wait", "fail"}
                  \/ /\ a.kind \in {"whole", "part"} /\ a.of = Msg(r) /\ Len(answers) = 1
                     /\ run[r].key = <<>> /\ card.pending = <<>>
                     /\ a.kind = "part" => card.rest = <<Msg(r)>>
                  \/ a.kind = "rest" /\ a.of = Msg(r) /\ run[r].key = <<Msg(r)>>
            \/ Blocked /\ run[r].key = <<>> /\ a.kind \notin {"whole", "part"}
<1>1. answers # <<>> /\ run[r].pc = "poll" BY DEF Reads
<1>2. a = answers[1] /\ Len(answers) \in Nat \ {0} /\ a \in Answer
  BY <1>1, Sorts, TailOf DEF Reads
<1>3. Msg(r) \in Ciphertexts BY <1>1, Sorts DEF Decrypting
<1>4. 1 \in 1..Len(answers) BY <1>2
<1>5. CASE KeyOf(r, Msg(r)) BY <1>1, <1>2, <1>3, <1>4, <1>5 DEF KeyOf
<1>6. CASE Blocked /\ run[r].key = <<>>
  <2>1. PICK i \in 1..Len(answers) :
          /\ answers[i].kind = "ok"
          /\ \A j \in 1..Len(answers) : j < i => answers[j].kind \notin {"whole", "part"}
    BY <1>6 DEF Blocked
  <2>2. CASE i = 1 BY <1>1, <1>2, <1>3, <1>4, <1>6, <2>1, <2>2
  <2>3. CASE i # 1
    <3>1. 1 < i BY <2>3
    <3> QED BY <1>1, <1>2, <1>3, <1>4, <1>6, <2>1, <3>1
  <2> QED BY <2>2, <2>3
<1> QED BY <1>1, <1>5, <1>6 DEF Fine, Polling

LEMMA FinePollLast ==
  ASSUME TypeInv, NEW r \in Runs, Late(r), Fine(r), NEW a, PollLast(r, a)
  PROVE  Late(r)' /\ Fine(r)'
<1>1. /\ answers \in Seq(Answer) /\ run \in [Runs -> Run] /\ run[r] \in Run
  BY Sorts
<1>2. Reads(r, a, "poll") /\ EndsOk(a) /\ answers' = Tail(answers) /\ card' = card
  BY DEF PollLast
<1>3. answers # <<>> /\ a = answers[1] /\ a \in Answer /\ Msg(r) \in Ciphertexts
  BY <1>2, FirstPolled
<1>4. CASE run'[r] = Idle BY <1>2, <1>3, <1>4, FineEnds
<1>5. CASE run'[r] # Idle
  <2>1. /\ NewHalves(run[r].key, a) # <<>>
        /\ run' = [run EXCEPT ![r].pc = "use", ![r].key = @ \o NewHalves(@, a), ![r].polls = 0]
    BY <1>1, <1>5 DEF PollLast, Fails
  <2>2. /\ run'[r].pc = "use" /\ run'[r].todo = run[r].todo
        /\ run'[r].key = run[r].key \o NewHalves(run[r].key, a)
    BY <1>1, <2>1 DEF Run
  <2>3. Msg(r)' = Msg(r) BY <2>2 DEF Msg
  <2>4. ~(run[r].key = <<>> /\ a.kind \notin {"whole", "part"})
    BY <2>1 DEF NewHalves
  <2>5. KeyOf(r, Msg(r)) BY <1>2, <2>4, FirstPolled
  <2>6. run'[r].key = <<Msg(r), Msg(r)>>
    <3>1. CASE a.kind = "whole" /\ a.of = Msg(r) /\ run[r].key = <<>>
      <4>1. NewHalves(run[r].key, a) = <<Msg(r), Msg(r)>> BY <3>1 DEF NewHalves
      <4> QED BY <1>3, <2>2, <3>1, <4>1, Halves
    <3>2. CASE a.kind = "rest" /\ a.of = Msg(r) /\ run[r].key = <<Msg(r)>>
      <4>1. NewHalves(run[r].key, a) = <<Msg(r)>> BY <3>2 DEF NewHalves
      <4> QED BY <1>3, <2>2, <3>2, <4>1, Halves
    <3> QED BY <1>2, <2>4, <3>1, <3>2, FirstPolled DEF EndsOk
  <2>7. \A i \in 1..Len(answers) : answers[i].kind # "ok" BY <2>5 DEF KeyOf
  <2>8. \A i \in 1..Len(answers') : answers'[i].kind # "ok"
    <3>1. /\ Len(answers) \in Nat \ {0} /\ Len(answers') = Len(answers) - 1
          /\ \A j \in 1..Len(answers') : answers'[j] = answers[j + 1]
      BY <1>1, <1>2, <1>3, TailOf
    <3> QED BY <2>7, <3>1
  <2>9. Late(r)' BY <2>8 DEF Late
  <2> QED BY <2>2, <2>3, <2>6, <2>8, <2>9 DEF Fine, Starting, Pushing, Polling, Using, Asking, NotOk
<1> QED BY <1>4, <1>5

(* Nothing yet: the answers move up.                                       *)
LEMMA PollingRead ==
  ASSUME TypeInv, NEW r \in Runs, NEW c \in Ciphertexts, answers # <<>>,
         answers' = Tail(answers), card' = card, run'[r].key = run[r].key
  PROVE  /\ KeyOf(r, c) => KeyOf(r, c)'
         /\ Blocked /\ answers[1].kind # "ok" => Blocked'
<1>1. answers \in Seq(Answer) BY Sorts
<1>2. /\ Len(answers) \in Nat \ {0} /\ Len(answers') \in Nat /\ Len(answers') + 1 = Len(answers)
      /\ \A j \in 1..Len(answers') : answers'[j] = answers[j + 1] /\ j + 1 \in 1..Len(answers)
  BY <1>1, TailOf
<1>3. ASSUME KeyOf(r, c) PROVE KeyOf(r, c)'
  <2>1. ASSUME NEW i \in 1..Len(answers')
        PROVE  \/ answers'[i].kind \in {"wait", "fail"}
               \/ /\ answers'[i].kind \in {"whole", "part"} /\ answers'[i].of = c
                  /\ i = Len(answers') /\ run[r].key = <<>> /\ card.pending = <<>>
                  /\ answers'[i].kind = "part" => card.rest = <<c>>
               \/ answers'[i].kind = "rest" /\ answers'[i].of = c /\ run[r].key = <<c>>
    <3>1. answers'[i] = answers[i + 1] /\ i + 1 \in 1..Len(answers) BY <1>2
    <3>2. ASSUME i + 1 = Len(answers) PROVE i = Len(answers')
      <4>1. i \in Nat OBVIOUS
      <4>2. \A n, m \in Nat : n + 1 = m + 1 => n = m OBVIOUS
      <4> QED BY <1>2, <3>2, <4>1, <4>2
    <3> QED BY <1>3, <3>1, <3>2 DEF KeyOf
  <2> QED BY <1>3, <2>1 DEF KeyOf
<1>4. ASSUME Blocked, answers[1].kind # "ok" PROVE Blocked'
  <2>1. PICK i \in 1..Len(answers) :
          /\ answers[i].kind = "ok"
          /\ \A j \in 1..Len(answers) : j < i => answers[j].kind \notin {"whole", "part"}
    BY <1>4 DEF Blocked
  <2>2. i # 1 BY <1>4, <2>1
  <2>3. i - 1 \in 1..Len(answers') BY <1>2, <2>2
  <2>4. answers'[i - 1] = answers[(i - 1) + 1] /\ (i - 1) + 1 = i BY <1>2, <2>3
  <2>5. answers'[i - 1].kind = "ok" BY <2>1, <2>4
  <2>6. ASSUME NEW j \in 1..Len(answers'), j < i - 1
        PROVE  answers'[j].kind \notin {"whole", "part"}
    <3>1. answers'[j] = answers[j + 1] /\ j + 1 \in 1..Len(answers) /\ j + 1 < i BY <1>2, <2>6
    <3> QED BY <2>1, <3>1
  <2> QED BY <2>3, <2>5, <2>6 DEF Blocked
<1> QED BY <1>3, <1>4

LEMMA FinePollAgain ==
  ASSUME TypeInv, NEW r \in Runs, Late(r), Fine(r), NEW a, PollAgain(r, a)
  PROVE  Late(r)' /\ Fine(r)'
<1>1. /\ answers \in Seq(Answer) /\ run \in [Runs -> Run] /\ run[r] \in Run
      /\ card \in Card /\ run[r].key \in Seq(Ciphertexts \cup {None})
  BY Sorts
<1>2. /\ Reads(r, a, "poll") /\ ~EndsOk(a)
      /\ a.kind # "part" => answers' = Tail(answers) /\ card' = card
      /\ a.kind = "part" => Command("more", r, Tail(answers))
  BY DEF PollAgain
<1>3. /\ answers # <<>> /\ a = answers[1] /\ 1 \in 1..Len(answers) /\ a \in Answer
      /\ Msg(r) \in Ciphertexts
  BY <1>2, FirstPolled
<1>4. /\ run'[r].pc = "sleep" /\ run'[r].todo = run[r].todo
      /\ run'[r].key = run[r].key \o NewHalves(run[r].key, a)
  <2>1. run' = [run EXCEPT ![r].pc = "sleep", ![r].polls = @ + 1,
                           ![r].key = @ \o NewHalves(@, a)]
    BY DEF PollAgain
  <2> QED BY <1>1, <2>1 DEF Run
<1>5. Msg(r)' = Msg(r) BY <1>4 DEF Msg
<1>6. CASE a.kind # "part"
  <2>1. run'[r].key = run[r].key
    <3>1. NewHalves(run[r].key, a) = <<>> BY <1>2, <1>6 DEF NewHalves, EndsOk
    <3> QED BY <1>1, <1>4, <3>1, ConcatEmptySeq
  <2>2. a.kind # "ok" BY <1>2 DEF EndsOk
  <2>3. KeyOf(r, Msg(r)) \/ (Blocked /\ run[r].key = <<>>) BY <1>2, FirstPolled
  <2>4. KeyOf(r, Msg(r))' \/ (Blocked' /\ run'[r].key = <<>>)
    <3> DEFINE c == Msg(r)
    <3>1. c \in Ciphertexts /\ c' = c BY <1>3, <1>5
    <3>2. Blocked => Blocked' BY <1>2, <1>3, <1>6, <2>1, <2>2, PollingRead
    <3>3. KeyOf(r, c) => KeyOf(r, c)'
      <4> HIDE DEF c
      <4>1. ASSUME NEW d \in Ciphertexts PROVE KeyOf(r, d) => KeyOf(r, d)'
        BY <1>2, <1>3, <1>6, <2>1, PollingRead
      <4> QED BY <3>1, <4>1 DEF KeyOf
    <3> QED BY <2>1, <2>3, <3>2, <3>3
  <2>5. Late(r)' BY <1>1, <1>2, <1>3, <1>6, LateRead
  <2> QED BY <1>4, <2>4, <2>5 DEF Fine, Starting, Pushing, Polling, Using, Asking
<1>7. CASE a.kind = "part"
  <2>1. /\ KeyOf(r, Msg(r)) /\ a.of = Msg(r) /\ Len(answers) = 1
        /\ run[r].key = <<>> /\ card.pending = <<>> /\ card.rest = <<Msg(r)>>
    BY <1>2, <1>7, FirstPolled
  <2>2. Command("more", r, Tail(answers)) BY <1>2, <1>7
  <2>3. /\ card' = [card EXCEPT !.chain = <<>>, !.rest = <<>>]
        /\ answers' = Append(Tail(answers), IF card.rest # <<>>
                                            THEN [kind |-> "rest", of |-> Head(card.rest)]
                                            ELSE Plain("fail"))
    BY <2>1, <2>2, Obeys
  <2> DEFINE b == [kind |-> "rest", of |-> Msg(r)]
  <2>4. b \in Answer /\ b.kind = "rest" /\ b.of = Msg(r) BY <1>3, PlainAnswers
  <2>5. answers' = Append(Tail(answers), b) BY <2>1, <2>3
  <2> HIDE DEF b
  <2>6. Len(answers') = 1 /\ answers'[1] = b
    <3> DEFINE s == Tail(answers)
    <3>1. s \in Seq(Answer) /\ Len(s) = 0 BY <1>1, <1>3, <2>1, TailOf
    <3>2. answers' = Append(s, b) BY <2>5
    <3> HIDE DEF s
    <3>3. Len(answers') = Len(s) + 1 /\ answers'[Len(s) + 1] = b
      BY <2>4, <3>1, <3>2, Grown
    <3> QED BY <3>1, <3>3
  <2>7. card'.pending = <<>> BY <1>1, <2>1, <2>3 DEF Card
  <2>8. run'[r].key = <<Msg(r)>>
    <3>1. NewHalves(run[r].key, a) = <<Msg(r)>> BY <1>7, <2>1 DEF NewHalves
    <3> QED BY <1>3, <1>4, <2>1, <3>1, Halves
  <2>9. KeyOf(r, Msg(r))' BY <1>5, <2>4, <2>6, <2>7, <2>8 DEF KeyOf
  <2> QED BY <1>4, <2>7, <2>9, LateNever DEF Fine, Starting, Pushing, Polling, Using, Asking
<1> QED BY <1>6, <1>7

LEMMA FineSame ==
  ASSUME TypeInv, NEW r \in Runs, Late(r), Fine(r), WakeUp(r) PROVE Late(r)' /\ Fine(r)'
<1>1. run \in [Runs -> Run] BY Sorts
<1>2. run[r].pc = "sleep" /\ UNCHANGED <<card, answers>> BY DEF WakeUp
<1>3. CASE OutOfPolls(run[r].polls)
  <2>1. run'[r] = Idle BY <1>1, <1>3 DEF WakeUp, Fails
  <2> QED BY <1>2, <2>1, FineEnds
<1>4. CASE ~OutOfPolls(run[r].polls)
  <2>1. run' = [run EXCEPT ![r].pc = "poll"] BY <1>4 DEF WakeUp
  <2>2. /\ run'[r].pc = "poll" /\ run'[r].key = run[r].key /\ run'[r].todo = run[r].todo
    BY <1>1, <2>1 DEF Run
  <2>3. Msg(r)' = Msg(r) BY <2>2 DEF Msg
  <2>4. Late(r)' BY <1>2, <2>2 DEF Late
  <2>5. Polling(r)' BY <1>2, <2>2, <2>3 DEF Fine, Polling, KeyOf, Blocked
  <2> QED BY <2>2, <2>4, <2>5 DEF Fine, Starting, Pushing, Using, Asking
<1> QED BY <1>3, <1>4

(* The key is used, and the next message begun without it.                 *)
LEMMA FineUse ==
  ASSUME TypeInv, NEW r \in Runs, Late(r), Fine(r), UseKey(r) PROVE Late(r)' /\ Fine(r)'
<1>1. run \in [Runs -> Run] /\ run[r] \in Run /\ Len(answers) \in Nat BY Sorts
<1>2. run[r].pc = "use" /\ UNCHANGED <<card, answers>> BY DEF UseKey, usb
<1>3. \A i \in 1..Len(answers) : answers[i].kind # "ok" BY <1>2 DEF Fine, Using, NotOk
<1>4. Late(r)' BY <1>2, <1>3 DEF Late
<1>5. CASE run'[r] = Idle BY <1>4, <1>5, IdleFine, IdleRun
<1>6. CASE run'[r] # Idle
  <2>1. run' = [run EXCEPT ![r].pc = "abort", ![r].key = StartKey(@), ![r].todo = Tail(@),
                           ![r].done = Append(run[r].done, Head(run[r].key))]
    BY <1>1, <1>6 DEF UseKey, Fails, Succeeds
  <2>2. run'[r].pc = "abort" /\ run'[r].key = <<>> BY <1>1, <2>1 DEF Run, StartKey
  <2>3. Len(answers') >= 5 => answers'[4].kind # "ok" BY <1>1, <1>2, <1>3
  <2> QED BY <1>4, <2>2, <2>3 DEF Fine, Starting, Pushing, Polling, Using, Asking, NotOk
<1> QED BY <1>5, <1>6

-----------------------------------------------------------------------------
(* getPublicKey.                                                           *)
LEMMA FineOpen ==
  ASSUME TypeInv, NEW r \in Runs, Late(r), Fine(r), OpenDevice(r)
  PROVE  Late(r)' /\ Fine(r)'
<1>1. /\ answers \in Seq(Answer) /\ run \in [Runs -> Run] /\ run[r] \in Run
      /\ card \in Card /\ Len(answers) \in Nat
  BY Sorts
<1>2. CASE run'[r] = Idle
  <2>1. UNCHANGED <<card, answers>> /\ run[r].pc = "open"
    BY <1>1, <1>2, IdleRun DEF OpenDevice, usb, Run, Idle
  <2> QED BY <1>2, <2>1, FineEnds
<1>3. CASE run[r].pc = "drop"
  <2>1. /\ card'.pending = <<>> /\ (answers' = answers \/ answers' = <<>>)
        /\ run' = [run EXCEPT ![r].pc = "send"]
    BY <1>1, <1>3 DEF OpenDevice, Aborted, Card
  <2>2. run'[r].pc = "send" BY <1>1, <2>1 DEF Run
  <2>3. NoUrlAfter(1) BY <1>3 DEF Fine, Asking
  <2>4. NoUrlAfter(1)'
    <3>1. CASE answers' = answers BY <2>3, <3>1 DEF NoUrlAfter
    <3>2. CASE answers' = <<>>
      <4>1. Len(answers') = 0 BY <3>2
      <4> QED BY <4>1 DEF NoUrlAfter
    <3> QED BY <2>1, <3>1, <3>2
  <2> QED BY <2>1, <2>2, <2>4, LateNever DEF Fine, Starting, Pushing, Polling, Using, Asking
<1>4. CASE run[r].pc = "open" /\ run'[r] # Idle
  <2>1. Command("power", r, answers) /\ run' = [run EXCEPT ![r].pc = "power"]
    BY <1>1, <1>4 DEF OpenDevice
  <2>2. run'[r].pc = "power" BY <1>1, <2>1 DEF Run
  <2>3. PICK kind \in {"fail", "ready"} :
          /\ answers' = Append(answers, Plain(kind))
          /\ card.pending = <<>> => kind = "ready"
          /\ card'.pending = card.pending
    <3>1. CASE card.pending # <<>> BY <2>1, <3>1, Refuses
    <3>2. CASE card.pending = <<>>
      <4>1. /\ card' = [card EXCEPT !.chain = <<>>, !.rest = <<>>]
            /\ answers' = Append(answers, Plain("ready"))
        BY <2>1, <3>2, Obeys
      <4> QED BY <1>1, <3>2, <4>1 DEF Card
    <3> QED BY <3>1, <3>2
  <2>4. Plain(kind) \in Answer /\ Plain(kind).kind \notin {"ok", "whole", "rest", "url"}
    BY PlainAnswers
  <2>5. NoUrlAfter(4)'
    <3>1. CASE NoUrlAfter(4) BY <1>1, <2>3, <2>4, <3>1, UrlGrown
    <3>2. CASE Len(answers) = 4
      <4>1. Len(answers') = Len(answers) + 1 /\ answers'[Len(answers) + 1] = Plain(kind)
        BY <1>1, <2>3, <2>4, Grown
      <4>2. Len(answers') = 5 /\ answers'[5] = Plain(kind) BY <3>2, <4>1
      <4> QED BY <2>4, <4>2 DEF NoUrlAfter, EndsOk
    <3> QED BY <1>4, <3>1, <3>2 DEF Fine, Asking
  <2>6. Late(r)' BY <1>1, <1>4, <2>3, <2>4, LateGrown
  <2> QED BY <2>2, <2>5, <2>6 DEF Fine, Starting, Pushing, Polling, Using, Asking
<1>5. CASE run[r].pc = "send"
  <2>1. Command("file", r, answers) /\ run' = [run EXCEPT ![r].pc = "file"]
    BY <1>1, <1>5 DEF OpenDevice
  <2>2. run'[r].pc = "file" BY <1>1, <2>1 DEF Run
  <2>3. card.pending = <<>> /\ NoUrlAfter(1) BY <1>5 DEF Fine, Asking
  <2>4. card' = [card EXCEPT !.chain = <<>>] /\ answers' = Append(answers, Plain("ok"))
    BY <2>1, <2>3, Obeys
  <2>5. card'.pending = <<>> BY <1>1, <2>3, <2>4 DEF Card
  <2>6. /\ Len(answers') = Len(answers) + 1
        /\ \A j \in 1..Len(answers) : answers'[j] = answers[j]
    BY <1>1, <2>4, Grown, PlainAnswers
  <2>7. NoUrlAfter(1)' \/ Len(answers') = 1
    <3>1. CASE Len(answers) = 0 BY <2>6, <3>1
    <3>2. CASE Len(answers) = 1
      <4>1. answers[1].kind # "ok" BY <2>3, <3>2 DEF NoUrlAfter
      <4> QED BY <2>6, <3>2, <4>1 DEF NoUrlAfter
    <3>3. CASE Len(answers) >= 2
      <4>1. answers'[1] = answers[1] /\ answers'[2] = answers[2] BY <1>1, <2>6, <3>3
      <4> QED BY <1>1, <2>3, <2>6, <3>3, <4>1 DEF NoUrlAfter, EndsOk
    <3>4. \A n \in Nat : n = 0 \/ n = 1 \/ n >= 2 OBVIOUS
    <3> QED BY <1>1, <3>1, <3>2, <3>3, <3>4
  <2> QED BY <2>2, <2>5, <2>7, LateNever DEF Fine, Starting, Pushing, Polling, Using, Asking
<1> QED BY <1>2, <1>3, <1>4, <1>5 DEF OpenDevice

LEMMA FineUrlCommand ==
  ASSUME TypeInv, NEW r \in Runs, Late(r), Fine(r), NEW a, NextUrlCommand(r, a)
  PROVE  Late(r)' /\ Fine(r)'
<1>1. /\ answers \in Seq(Answer) /\ run \in [Runs -> Run] /\ run[r] \in Run /\ card \in Card
  BY Sorts
<1>2. answers # <<>> /\ a = answers[1] BY <1>1, TailOf DEF NextUrlCommand, Reads
<1>3. CASE run[r].pc \in {"power", "params"}
  <2>1. PICK cmd \in {"params", "set"} :
          /\ Command(cmd, r, Tail(answers)) /\ run' = [run EXCEPT ![r].pc = cmd]
          /\ cmd = IF run[r].pc = "power" THEN "params" ELSE "set"
    BY <1>3 DEF NextUrlCommand, Reads
  <2>2. run'[r].pc = cmd BY <1>1, <2>1 DEF Run
  <2>3. PICK kind \in {"fail", "params", "ready"} :
          answers' = Append(Tail(answers), Plain(kind)) /\ card'.pending = card.pending
    <3>1. CASE card.pending # <<>> BY <2>1, <3>1, Refuses
    <3>2. CASE card.pending = <<>>
      <4>1. card' = [card EXCEPT !.chain = <<>>] BY <2>1, <3>2, Obeys
      <4>2. /\ cmd = "params" => answers' = Append(Tail(answers), Plain("params"))
            /\ cmd = "set" => answers' = Append(Tail(answers), Plain("ready"))
        BY <2>1, <3>2, Obeys
      <4> QED BY <1>1, <2>1, <4>1, <4>2 DEF Card
    <3> QED BY <3>1, <3>2
  <2>4. Plain(kind) \in Answer /\ Plain(kind).kind # "ok" BY PlainAnswers
  <2>5. Late(r)' BY <1>1, <1>2, <2>3, <2>4, LateAnswered
  <2>6. cmd = "params" => NoUrlAfter(3)'
    <3>1. cmd = "params" => NoUrlAfter(3 + 1) BY <1>3, <2>1 DEF Fine, Asking
    <3> QED BY <1>1, <1>2, <2>3, <2>4, <3>1, UrlNext
  <2>7. cmd = "set" => NoUrlAfter(2)'
    <3>1. cmd = "set" => NoUrlAfter(2 + 1) BY <1>3, <2>1 DEF Fine, Asking
    <3> QED BY <1>1, <1>2, <2>3, <2>4, <3>1, UrlNext
  <2> QED BY <2>1, <2>2, <2>5, <2>6, <2>7 DEF Fine, Starting, Pushing, Polling, Using, Asking
<1>4. CASE run[r].pc = "file"
  <2>1. /\ Command("data", r, Tail(answers)) /\ run' = [run EXCEPT ![r].pc = "data"]
        /\ answers[1].kind = "ok"
    BY <1>2, <1>4 DEF NextUrlCommand, Reads, IsOk
  <2>2. run'[r].pc = "data" BY <1>1, <2>1 DEF Run
  <2>3. card.pending = <<>> BY <1>4 DEF Fine, Asking
  <2>4. PICK kind \in {"url", "fail"} : answers' = Append(Tail(answers), Plain(kind))
    <3>1. Command("data", r, Tail(answers)) BY <2>1
    <3> QED BY <2>3, <3>1, Obeys
  <2>5. card'.pending = <<>>
    <3>1. card' = [card EXCEPT !.chain = <<>>] BY <2>1, <2>3, Obeys
    <3> QED BY <1>1, <2>3, <3>1 DEF Card
  <2> DEFINE s == Tail(answers)
  <2>6. /\ s \in Seq(Answer) /\ Len(answers) \in Nat \ {0} /\ Len(s) = Len(answers) - 1
        /\ \A j \in 1..Len(s) : s[j] = answers[j + 1]
    BY <1>1, <1>2, TailOf
  <2>7. /\ Plain(kind) \in Answer /\ Plain(kind).kind = kind /\ answers' = Append(s, Plain(kind))
    BY <2>4, PlainAnswers
  <2> HIDE DEF s
  <2>8. /\ Len(s) \in Nat /\ Len(answers') = Len(s) + 1 /\ answers'[Len(s) + 1] = Plain(kind)
        /\ \A j \in 1..Len(s) : answers'[j] = s[j]
    BY <2>6, <2>7, Grown
  <2>9. EndsOk(answers'[1]) => answers'[1].kind = "url"
    <3>1. CASE Len(answers) = 1
      <4>1. answers'[1] = Plain(kind) BY <2>6, <2>8, <3>1
      <4> QED BY <2>7, <4>1 DEF EndsOk
    <3>2. CASE NoUrlAfter(1)
      <4>1. 1 < Len(answers) /\ ~EndsOk(answers[1 + 1]) BY <2>1, <2>6, <3>2 DEF NoUrlAfter
      <4>2. 1 \in 1..Len(s) BY <2>6, <4>1
      <4>3. answers'[1] = answers[1 + 1] BY <2>6, <2>8, <4>2
      <4> QED BY <4>1, <4>3
    <3> QED BY <1>4, <3>1, <3>2 DEF Fine, Asking
  <2> QED BY <2>2, <2>5, <2>9, LateNever DEF Fine, Starting, Pushing, Polling, Using, Asking
<1> QED BY <1>3, <1>4 DEF NextUrlCommand, Reads

LEMMA FineUrlAnswered ==
  ASSUME TypeInv, NEW r \in Runs, Late(r), Fine(r), NEW a, UrlAnswered(r, a) \/ TakesUrl(r, a)
  PROVE  Late(r)' /\ Fine(r)'
<1>1. /\ answers \in Seq(Answer) /\ run \in [Runs -> Run] /\ run[r] \in Run
  BY Sorts
<1>2. answers # <<>> /\ answers' = Tail(answers) /\ card' = card
  BY DEF UrlAnswered, TakesUrl, Reads
<1>3. CASE run'[r] = Idle BY <1>2, <1>3, FineEnds
<1>4. CASE run'[r] # Idle
  <2>1. run[r].pc = "set" /\ run' = [run EXCEPT ![r].pc = "drop"]
    BY <1>1, <1>4 DEF UrlAnswered, TakesUrl, Reads
  <2>2. run'[r].pc = "drop" BY <1>1, <2>1 DEF Run
  <2>3. NoUrlAfter(1 + 1) BY <2>1 DEF Fine, Asking
  <2>4. NoUrlAfter(1)' BY <1>1, <1>2, <2>3, UrlRead
  <2>5. Late(r)' BY <1>1, <1>2, LateRead
  <2> QED BY <2>2, <2>4, <2>5 DEF Fine, Starting, Pushing, Polling, Using, Asking
<1> QED BY <1>3, <1>4

-----------------------------------------------------------------------------
(* A run begins when no other is under way.                                *)
LEMMA FineBegins ==
  ASSUME FewUnread, TypeInv, LateTaps, \A q \in Runs : run[q] = Idle, NEW r \in Runs,
         (\E m \in Decrypters : Decrypt(m, r)) \/ AddFromYubikey(r)
  PROVE  Late(r)' /\ Fine(r)'
<1>1. /\ run \in [Runs -> Run] /\ run[r] = Idle /\ Len(answers) \in Nat /\ MaxUnread \in Nat
  BY Sorts, ConstantsAssumption
<1>2. UNCHANGED <<card, answers>> /\ Len(answers) <= MaxUnread
  BY DEF Decrypt, AddFromYubikey, usb
<1>3. Len(answers) <= 4 BY <1>1, <1>2 DEF FewUnread
<1>4. card.pending # <<>> => \A i \in 1..Len(answers) : answers[i].kind = "ok" => i <= 3
  BY IdleRun DEF LateTaps
<1>5. Late(r)' BY <1>2, <1>4 DEF Late
<1>6. CASE \E m \in Decrypters : Decrypt(m, r)
  <2>1. PICK m \in Decrypters, right \in BOOLEAN :
          run' = [run EXCEPT ![r] =
                   [Idle EXCEPT !.pc = IF screen[m] = "pin" THEN "select" ELSE "password",
                                !.owner = m, !.mounted = TRUE, !.right = right, !.todo = Wanted[m]]]
    BY <1>6 DEF Decrypt
  <2>2. run'[r].pc \in {"select", "password"} /\ run'[r].key = <<>>
    BY <1>1, <2>1 DEF Idle
  <2>3. ~(Len(answers') >= 5) BY <1>1, <1>2, <1>3
  <2> QED BY <1>5, <2>2, <2>3 DEF Fine, Starting, Pushing, Polling, Using, Asking
<1>7. CASE AddFromYubikey(r)
  <2>1. run'[r].pc = "open" BY <1>1, <1>7 DEF AddFromYubikey, Run
  <2>2. NoUrlAfter(4) \/ (Len(answers) = 4 /\ card.pending = <<>>)
    <3> SUFFICES ASSUME 4 <= Len(answers), answers[4].kind = "ok"
                 PROVE  Len(answers) = 4 /\ card.pending = <<>>
      BY DEF NoUrlAfter
    <3>1. \A n \in Nat : 4 <= n /\ n <= 4 => n = 4 OBVIOUS
    <3>2. Len(answers) = 4 BY <1>1, <1>3, <3>1
    <3> QED BY <1>4, <3>2
  <2>3. (NoUrlAfter(4) \/ (Len(answers) = 4 /\ card.pending = <<>>))'
    BY <1>2, <2>2 DEF NoUrlAfter
  <2> QED BY <1>5, <2>1, <2>3 DEF Fine, Starting, Pushing, Polling, Using, Asking
<1> QED BY <1>6, <1>7

LEMMA FineStep ==
  ASSUME TypeInv, NEW r \in Runs, Late(r), Fine(r), Step(r), ~AddFromYubikey(r)
  PROVE  Late(r)' /\ Fine(r)'
<1>1. CASE Answered(r)
  <2>1. answers # <<>> BY <1>1 DEF Answered
  <2>2. \/ NextCommand(r, Head(answers)) \/ Refused(r, Head(answers))
        \/ PollLast(r, Head(answers)) \/ PollAgain(r, Head(answers))
        \/ NextUrlCommand(r, Head(answers))
        \/ UrlAnswered(r, Head(answers)) \/ TakesUrl(r, Head(answers))
    BY <1>1 DEF Answered
  <2> QED BY <2>1, <2>2, FineCommand, FineRefused, FinePollLast, FinePollAgain, FineUrlCommand,
             FineUrlAnswered
<1> QED BY <1>1, FineBefore, FineSame, FineUse, FineOpen DEF Step

LEMMA StepLone ==
  ASSUME FewUnread PROVE TypeInv /\ Single /\ Lone /\ [Next]_vars => Lone'
<1> SUFFICES ASSUME TypeInv, Single, Lone, [Next]_vars, alone' PROVE Lone'
  BY DEF Lone
<1>1. /\ alone
      /\ \/ \A q \in Runs : run'[q] # Idle => run[q] # Idle
         \/ /\ \A q \in Runs : run[q] = Idle
            /\ \E r \in Runs : \A q \in Runs : q # r => run'[q] = Idle
  BY RunsMove
<1>2. LateTaps /\ \A q \in Runs : Fine(q) BY <1>1 DEF Lone
<1>3. CASE Tap \/ NoTap
  <2>1. LateTaps'
    <3> SUFFICES ASSUME card'.pending # <<>>, NEW i \in 1..Len(answers'), answers'[i].kind = "ok"
                 PROVE  i <= 3 \/ (i = 4 /\ \E r \in Runs : run'[r].pc = "poll")
      BY DEF LateTaps
    <3>1. /\ card.pending # <<>> /\ UNCHANGED run /\ answers \in Seq(Answer)
      BY <1>3, TapAnswers DEF TypeInv, TypeOK
    <3>2. PICK a \in Answer : a.kind # "ok" /\ answers' = Append(answers, a)
      BY <1>3, TapAnswers
    <3>3. /\ Len(answers) \in Nat /\ Len(answers') = Len(answers) + 1
          /\ answers'[Len(answers) + 1] = a /\ \A j \in 1..Len(answers) : answers'[j] = answers[j]
      BY <3>1, <3>2, Grown
    <3>4. i \in 1..Len(answers) /\ answers[i].kind = "ok" BY <3>2, <3>3
    <3> QED BY <1>2, <3>1, <3>4 DEF LateTaps
  <2>2. ASSUME NEW q \in Runs PROVE Fine(q)'
    <3>1. CASE run[q] = Idle
      <4>1. run'[q] = Idle BY <1>3, <3>1, TapAnswers
      <4> QED BY <4>1, IdleFine, IdleRun
    <3>2. CASE run[q] # Idle
      <4>1. Late(q) /\ Fine(q) BY <1>1, <3>2, LoneOf
      <4> QED BY <1>3, <4>1, FineTap
    <3> QED BY <3>1, <3>2
  <2> QED BY <2>1, <2>2 DEF Lone
<1>4. CASE (\E m \in Decrypters : Prompt(m) \/ BackToButtons(m) \/ Show(m)) \/ UNCHANGED vars
  <2>1. UNCHANGED <<run, card, answers>>
    BY <1>4 DEF Prompt, BackToButtons, Show, vars, usb
  <2> QED BY <1>2, <2>1
          DEF Lone, LateTaps, Fine, Starting, Pushing, Polling, Using, Asking, KeyOf, Blocked,
              NotOk, NoUrlAfter, Msg
<1>5. ASSUME NEW r \in Runs, (\E m \in Decrypters : Decrypt(m, r)) \/ AddFromYubikey(r)
      PROVE  Lone'
  <2>1. \A q \in Runs : run[q] = Idle BY <1>5 DEF Decrypt, AddFromYubikey
  <2>2. \A q \in Runs : q # r => run'[q] = Idle
    <3>1. run \in [Runs -> Run] BY Sorts
    <3>2. CASE AddFromYubikey(r) BY <2>1, <3>1, <3>2 DEF AddFromYubikey
    <3>3. CASE \E m \in Decrypters : Decrypt(m, r) BY <2>1, <3>3, DecryptStarts DEF Moves
    <3> QED BY <1>5, <3>2, <3>3
  <2> QED BY <1>2, <1>5, <2>1, <2>2, FineBegins, LoneNext
<1>6. ASSUME NEW r \in Runs, Step(r), ~AddFromYubikey(r) PROVE Lone'
  <2>1. run[r] # Idle
    BY <1>6, IdleRun
       DEF Step, PasswordDecrypt, SelectDevice, Abort, SendPin, WakeUp, UseKey, OpenDevice, Answered,
           NextCommand, Refused, PollLast, PollAgain, NextUrlCommand, UrlAnswered, TakesUrl, Reads,
           Idle
  <2>2. /\ \A q \in Runs : q # r => run[q] = Idle
        /\ Late(r) /\ Fine(r)
    BY <1>1, <2>1, LoneOf
  <2>3. \A q \in Runs : q # r => run'[q] = Idle BY <1>1, <2>1, <2>2
  <2> QED BY <1>6, <2>2, <2>3, FineStep, LoneNext
<1> QED BY <1>3, <1>4, <1>5, <1>6 DEF Next

LEMMA LoneHolds == ASSUME FewUnread PROVE Spec => []Lone
<1>1. Init => Lone
  <2> SUFFICES ASSUME Init PROVE Lone OBVIOUS
  <2>1. LateTaps BY DEF Init, LateTaps
  <2>2. \A r \in Runs : run[r].pc = "idle" BY IdleRun DEF Init
  <2> QED BY <2>1, <2>2 DEF Lone, Fine, Starting, Pushing, Polling, Using, Asking
<1> QED BY <1>1, StepLone, TypeInvHolds, SingleHolds, PTL DEF Spec

(* yubikey.js, finishDecryption: the key that a lone decryption gets from  *)
(* the card is that of the message it pushed, though no answer says whose  *)
(* it is: late taps and answers left by runs that gave up make it fail, as *)
(* long as they are no more than initDecryption reads.                     *)
THEOREM KeysAreOfLastPush == ASSUME FewUnread PROVE Spec => []KeyOfLastPush
<1>1. Lone => KeyOfLastPush BY DEF Lone, Fine, Using, KeyOfLastPush, Msg
<1> QED BY <1>1, LoneHolds, PTL

(* components/Account/keys.js:86-96: what a lone request takes for the URL *)
(* of the card's key is that URL, as long as few answers are unread when   *)
(* it starts.                                                              *)
THEOREM UrlsAreOfCard == ASSUME FewUnread PROVE Spec => UrlOfCard
<1>1. ASSUME TypeInv, Single, Lone, NEW r \in Runs, answers # <<>>, TakesUrl(r, Head(answers)), alone
      PROVE  Head(answers).kind = "url"
  <2>1. run[r].pc = "data" /\ EndsOk(Head(answers)) BY <1>1 DEF TakesUrl, Reads, HasUrl
  <2>2. Head(answers) = answers[1] BY <1>1, Sorts, TailOf
  <2>3. Fine(r) BY <1>1 DEF Lone
  <2> QED BY <1>1, <2>1, <2>2, <2>3 DEF Fine, Asking
<1>2. TypeInv /\ Single /\ Lone /\ [Next]_vars =>
        [\A r \in Runs : answers # <<>> /\ TakesUrl(r, Head(answers)) /\ alone
           => Head(answers).kind = "url"]_vars
  BY <1>1
<1> QED BY <1>2, LoneHolds, TypeInvHolds, SingleHolds, PTL DEF Spec, UrlOfCard
=============================================================================
