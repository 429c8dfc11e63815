----------------------------- MODULE Decrypter -----------------------------
(***************************************************************************)
(* Decrypting in the browser: MasterDecrypter components, the decrypt      *)
(* thunk with reducers/decrypt.js, yubikey.js talking to one card, and the *)
(* Account page, which asks the card for the URL of its public key.  All   *)
(* use the same device; answers carry no owner, so whoever waits first     *)
(* gets the first answer.                                                  *)
(*                                                                         *)
(* What JavaScript runs between two awaits is one step.  The card is not   *)
(* in the repository: it is taken as yubikey.js uses it, one command at a  *)
(* time, keeping answers until they are read.                              *)
(***************************************************************************)
EXTENDS Integers, Sequences

CONSTANTS
  Decrypters,   \* MasterDecrypter components shown
  Runs,         \* decryptions, and requests for the URL, that may be under way
  Ciphertexts,  \* encrypted messages
  Wanted,       \* the messages each component decrypts, in order
  MaxPolls,     \* answers finishDecryption reads at most (20 in the code)
  MaxUnread,    \* bound: no decryption starts with more answers unread
  None          \* "no such value"

VARIABLES
  screen,    \* state of each MasterDecrypter
  task,      \* store: decrypt, by taskID: has it "error", has it "yubikeyTap"
  run,       \* the decryptions under way
  card,      \* external: parts pushed, parts waiting for a tap, rest of a key
  answers,   \* external: answers not read yet
  readers,   \* transferIn calls not answered yet
  shown,     \* plaintexts handed to the parent component, named by their message
  alone      \* history: no two runs were ever under way together

vars == <<screen, task, run, card, answers, readers, shown, alone>>
usb == <<card, answers, readers>>

-----------------------------------------------------------------------------
(* init: the commands of initDecryption but the last, each of which awaits *)
(* "90 00"; after the last one finishDecryption polls for the key.         *)
Commands == <<"verify", "verify", "push", "push", "decipher">>

(* An answer ends in "90 00" (ok, rest, whole), in 61 and what is left     *)
(* (part), in another status (fail), or asks for time (wait).  Those to    *)
(* getPublicKey have the protocol in byte 9 (params), the URL before their *)
(* "90 00" (url), or nothing that anybody looks for (ready).               *)
Answer ==
  [kind : {"ok", "fail", "wait", "whole", "part", "rest", "ready", "params", "url"},
   of : Ciphertexts \cup {None}]

Plain(kind) == [kind |-> kind, of |-> None]

(* key: whose halves of a session key were put together (None: bytes of    *)
(* something else); mounted: the component that asked is still there.  The *)
(* run of a getPublicKey has no owner and the pc of UrlStages.             *)
UrlStages == {"open", "power", "params", "set", "drop", "send", "file", "data"}

Run ==
  [pc : {"idle", "password", "select", "abort", "verify", "init", "poll", "sleep", "use"}
          \cup UrlStages,
   owner : Decrypters \cup {None}, mounted : BOOLEAN, right : BOOLEAN, stage : 0..4,
   polls : 0..MaxPolls, key : Seq(Ciphertexts \cup {None}),
   todo : Seq(Ciphertexts), done : Seq(Ciphertexts)]

Idle ==
  [pc |-> "idle", owner |-> None, mounted |-> FALSE, right |-> FALSE, stage |-> 0, polls |-> 0,
   key |-> <<>>, todo |-> <<>>, done |-> <<>>]

ASSUME ConstantsAssumption ==
  /\ Wanted \in [Decrypters -> Seq(Ciphertexts) \ {<<>>}]
  /\ MaxPolls \in Nat \ {0} /\ MaxUnread \in Nat
  /\ None \notin Decrypters \cup Ciphertexts

TypeOK ==
  /\ screen \in [Decrypters -> {"none", "pin", "password", "tap", "gone"}]
  /\ task \in [Decrypters -> [error : BOOLEAN, tap : BOOLEAN]]
  /\ run \in [Runs -> Run]
  /\ card.chain \in Seq(Ciphertexts)
  /\ card.pending \in Seq(Ciphertexts)
  /\ card.rest \in Seq(Ciphertexts)
  /\ answers \in Seq(Answer)
  /\ readers \in Seq(Runs)
  /\ shown \in [Decrypters -> Seq(Ciphertexts)]
  /\ alone \in BOOLEAN

NoTask == [error |-> FALSE, tap |-> FALSE]

Init ==
  /\ screen = [m \in Decrypters |-> "none"]
  /\ task = [m \in Decrypters |-> NoTask]
  /\ run = [r \in Runs |-> Idle]
  /\ card = [chain |-> <<>>, pending |-> <<>>, rest |-> <<>>]
  /\ answers = <<>>
  /\ readers = <<>>
  /\ shown = [m \in Decrypters |-> <<>>]
  /\ alone = TRUE

Active(m) == {r \in Runs : run[r].owner = m}
-----------------------------------------------------------------------------
(* The card.  A message is pushed in three parts; while it waits for a tap *)
(* the card refuses anything else.  It may have no URL.                    *)
Command(cmd, r, unread) ==
  LET parts == Append(card.chain, Head(run[r].todo))
      replies == CASE cmd = "verify" -> {Plain(IF run[r].right THEN "ok" ELSE "fail")}
                   [] cmd \in {"push", "file"} -> {Plain("ok")}
                   [] cmd = "more" /\ card.rest # <<>> ->
                        {[kind |-> "rest", of |-> Head(card.rest)]}
                   [] cmd \in {"power", "set"} -> {Plain("ready")}
                   [] cmd = "params" -> {Plain("params")}
                   [] cmd = "data" -> {Plain("url"), Plain("fail")}
                   [] OTHER -> {Plain("fail")}
  IN  IF card.pending # <<>>
      THEN answers' = Append(unread, Plain("fail")) /\ UNCHANGED card
      ELSE /\ card' =
                CASE cmd = "push" -> [card EXCEPT !.chain = parts]
                  [] cmd = "decipher" -> [card EXCEPT !.chain = <<>>, !.pending = parts]
                  [] cmd \in {"more", "power"} -> [card EXCEPT !.chain = <<>>, !.rest = <<>>]
                  [] OTHER -> [card EXCEPT !.chain = <<>>]
           /\ IF cmd = "decipher"
              THEN answers' = unread
              ELSE \E reply \in replies : answers' = Append(unread, reply)

(* The user taps: the session key comes whole or in two halves, if the     *)
(* parts were those of one message.                                        *)
Tap ==
  /\ card.pending # <<>>
  /\ LET c == Head(card.pending) IN
     \/ /\ card.pending = <<c, c, c>>
        /\ \E kind \in {"whole", "part"} :
             /\ answers' = Append(answers, [kind |-> kind, of |-> c])
             /\ card' = [card EXCEPT !.pending = <<>>,
                                     !.rest = IF kind = "part" THEN <<c>> ELSE <<>>]
     \/ /\ card.pending # <<c, c, c>>
        /\ answers' = Append(answers, Plain("fail"))
        /\ card' = [card EXCEPT !.pending = <<>>]
  /\ UNCHANGED <<screen, task, run, readers, shown, alone>>

(* Nobody taps: the card asks for time, or gives up.                       *)
NoTap ==
  /\ card.pending # <<>>
  /\ \/ /\ \A i \in 1..Len(answers) : answers[i].kind # "wait"
        /\ answers' = Append(answers, Plain("wait"))
        /\ UNCHANGED card
     \/ /\ answers' = Append(answers, Plain("fail"))
        /\ card' = [card EXCEPT !.pending = <<>>]
  /\ UNCHANGED <<screen, task, run, readers, shown, alone>>

-----------------------------------------------------------------------------
(* What MasterDecrypter and its user do.                                   *)
Prompt(m) ==
  /\ screen[m] = "none"
  /\ \E secret \in {"pin", "password"} : screen' = [screen EXCEPT ![m] = secret]
  /\ UNCHANGED <<task, run, usb, shown, alone>>

(* Cancel, or new entries to decrypt; neither stops what is under way.     *)
BackToButtons(m) ==
  /\ screen[m] \in {"pin", "password", "tap"}
  /\ screen' = [screen EXCEPT ![m] = "none"]
  /\ UNCHANGED <<task, run, usb, shown, alone>>

(* The form stays until the tap is asked for and can be submitted again.   *)
(* DECRYPTION_REQUEST forgets an earlier tap, which changes its timestamp. *)
Requested_KeepsError(m) == [task EXCEPT ![m].tap = FALSE]

Requested(m) == [task EXCEPT ![m] = NoTask]

Decrypt(m, r) ==
  /\ screen[m] \in {"pin", "password"}
  /\ run[r] = Idle
  /\ Len(answers) <= MaxUnread
  /\ \E right \in BOOLEAN :
       run' = [run EXCEPT ![r] =
                 [Idle EXCEPT !.pc = IF screen[m] = "pin" THEN "select" ELSE "password",
                              !.owner = m, !.mounted = TRUE, !.right = right, !.todo = Wanted[m]]]
  /\ task' = Requested(m)
  /\ screen' = IF task[m].tap THEN [screen EXCEPT ![m] = "tap"] ELSE screen
  /\ alone' = (alone /\ \A q \in Runs : run[q] = Idle)
  /\ UNCHANGED <<usb, shown>>

(* The parent component shows a decrypter again, with a new task id.       *)
Show(m) ==
  /\ screen[m] = "gone"
  /\ screen' = [screen EXCEPT ![m] = "none"]
  /\ task' = [task EXCEPT ![m] = NoTask]
  /\ shown' = [shown EXCEPT ![m] = <<>>]
  /\ UNCHANGED <<run, usb, alone>>

-----------------------------------------------------------------------------
(* decrypt: its end.                                                       *)
Fails(r) ==
  LET m == run[r].owner IN
  /\ run' = [run EXCEPT ![r] = Idle]
  /\ task' = IF run[r].mounted THEN [task EXCEPT ![m].error = TRUE] ELSE task
  /\ screen' = IF run[r].mounted /\ ~task[m].error THEN [screen EXCEPT ![m] = "none"]
               ELSE screen
  /\ UNCHANGED <<shown, alone>>

(* The parent takes the plaintexts, even from a decrypter it has replaced, *)
(* and shows them instead of the decrypter.                                *)
Succeeds(r, plaintexts) ==
  LET m == run[r].owner IN
  /\ run' = [q \in Runs |-> IF q = r THEN Idle
                            ELSE IF q \in Active(m) THEN [run[q] EXCEPT !.mounted = FALSE]
                            ELSE run[q]]
  /\ task' = [task EXCEPT ![m] = NoTask]
  /\ screen' = [screen EXCEPT ![m] = "gone"]
  /\ shown' = [shown EXCEPT ![m] = plaintexts]
  /\ UNCHANGED alone

(* The private key is fetched and opens every message, or something fails. *)
PasswordDecrypt(r) ==
  /\ run[r].pc = "password"
  /\ Succeeds(r, run[r].todo) \/ Fails(r)
  /\ UNCHANGED usb

SelectDevice(r) ==
  /\ run[r].pc = "select"
  /\ \/ /\ run' = [run EXCEPT ![r].pc = "abort"]
        /\ UNCHANGED <<screen, task, shown, alone>>
     \/ Fails(r)
  /\ UNCHANGED usb

(* "send an abort in case the last operation is still going on".  Whether  *)
(* it also drops an answer that is ready is up to the card.                *)
Aborted == [card EXCEPT !.chain = <<>>, !.pending = <<>>]

Abort(r) ==
  /\ run[r].pc = "abort"
  /\ card' = Aborted
  /\ answers' \in {answers, <<>>}
  /\ run' = [run EXCEPT ![r].pc = "verify"]
  /\ UNCHANGED <<screen, task, readers, shown, alone>>

SendPin(r) ==
  /\ run[r].pc = "verify"
  /\ Command(Commands[1], r, answers)
  /\ readers' = Append(readers, r)
  /\ run' = [run EXCEPT ![r].pc = "init", ![r].stage = 1]
  /\ UNCHANGED <<screen, task, shown, alone>>

-----------------------------------------------------------------------------
(* The first reader gets the first answer.                                 *)
Reads(r, a, pc) ==
  /\ readers # <<>> /\ answers # <<>>
  /\ r = Head(readers) /\ a = Head(answers)
  /\ run[r].pc = pc

(* initDecryption: "check for the 90 00 return" at bytes 10 and 11.        *)
IsOk(a) == a.kind = "ok"

NextCommand(r, a) ==
  /\ Reads(r, a, "init") /\ IsOk(a)
  /\ Command(Commands[run[r].stage + 1], r, Tail(answers))
  /\ readers' = Append(Tail(readers), r)
  /\ \/ /\ run[r].stage < 4
        /\ run' = [run EXCEPT ![r].stage = @ + 1]
        /\ UNCHANGED <<screen, task>>
     \/ /\ run[r].stage = 4
        /\ run' = [run EXCEPT ![r].pc = "poll", ![r].stage = 0]
        /\ IF run[r].mounted
           THEN /\ task' = [task EXCEPT ![run[r].owner].tap = TRUE]
                /\ screen' = [screen EXCEPT ![run[r].owner] = "tap"]
           ELSE UNCHANGED <<screen, task>>
  /\ UNCHANGED <<shown, alone>>

Refused(r, a) ==
  /\ Reads(r, a, "init") /\ ~IsOk(a)
  /\ Fails(r)
  /\ answers' = Tail(answers) /\ readers' = Tail(readers)
  /\ UNCHANGED card

(* finishDecryption: an answer ends the key if it ends in 90 00.  What has *)
(* no key in it fails the check of the algorithm byte, or, after a first   *)
(* half, the copying of a negative length.                                 *)
NewHalves(key, a) ==
  CASE a.kind = "whole" -> <<a.of, a.of>>
    [] a.kind = "part" -> <<a.of>>
    [] a.kind = "rest" /\ key # <<>> -> <<a.of>>
    [] a.kind = "url" /\ key # <<>> -> <<None>>
    [] OTHER -> <<>>

EndsOk(a) == a.kind \in {"ok", "whole", "rest", "url"}

PollLast(r, a) ==
  /\ Reads(r, a, "poll") /\ EndsOk(a)
  /\ \/ /\ NewHalves(run[r].key, a) # <<>>
        /\ run' = [run EXCEPT ![r].pc = "use", ![r].key = @ \o NewHalves(@, a), ![r].polls = 0]
        /\ UNCHANGED <<screen, task, shown, alone>>
     \/ /\ NewHalves(run[r].key, a) = <<>>
        /\ Fails(r)
  /\ answers' = Tail(answers) /\ readers' = Tail(readers)
  /\ UNCHANGED card

(* More to come, or nothing yet: it reads again after half a second.       *)
PollAgain(r, a) ==
  /\ Reads(r, a, "poll") /\ ~EndsOk(a)
  /\ \/ /\ a.kind = "part" /\ Command("more", r, Tail(answers))
     \/ /\ a.kind # "part" /\ answers' = Tail(answers) /\ UNCHANGED card
  /\ readers' = Tail(readers)
  /\ run' = [run EXCEPT ![r].pc = "sleep", ![r].polls = @ + 1, ![r].key = @ \o NewHalves(@, a)]
  /\ UNCHANGED <<screen, task, shown, alone>>

(* After the twentieth answer and half a second more it gives up with      *)
(* "Failed to tap Yubikey".                                                *)
OutOfPolls_OneMore(polls) == polls > MaxPolls

OutOfPolls(polls) == polls >= MaxPolls

WakeUp(r) ==
  /\ run[r].pc = "sleep"
  /\ \/ /\ OutOfPolls(run[r].polls)
        /\ Fails(r)
        /\ UNCHANGED readers
     \/ /\ ~OutOfPolls(run[r].polls)
        /\ run' = [run EXCEPT ![r].pc = "poll"]
        /\ readers' = Append(readers, r)
        /\ UNCHANGED <<screen, task, shown, alone>>
  /\ UNCHANGED <<card, answers>>

(* decryptUsingSessionKey rejects a key that is not the message's own.     *)
Opens_Any(key, c) == TRUE

Opens(key, c) == key = <<c, c>>

(* Every call of finishDecryption starts with an empty key.                *)
StartKey_Kept(key) == key

StartKey(key) == <<>>

UseKey(r) ==
  /\ run[r].pc = "use"
  /\ LET c == Head(run[r].todo)
         done == Append(run[r].done, Head(run[r].key))
     IN  \/ /\ ~Opens(run[r].key, c)
            /\ Fails(r)
         \/ /\ Opens(run[r].key, c) /\ Len(run[r].todo) = 1
            /\ Succeeds(r, done)
         \/ /\ Opens(run[r].key, c) /\ Len(run[r].todo) > 1
            /\ run' = [run EXCEPT ![r].pc = "abort", ![r].key = StartKey(@),
                                  ![r].todo = Tail(@), ![r].done = done]
            /\ UNCHANGED <<screen, task, shown, alone>>
  /\ UNCHANGED usb

-----------------------------------------------------------------------------
(* getPublicKey: what Keys.addFromYubikey awaits.  It fails in silence.    *)
AddFromYubikey(r) ==
  /\ run[r] = Idle
  /\ Len(answers) <= MaxUnread
  /\ run' = [run EXCEPT ![r].pc = "open"]
  /\ alone' = (alone /\ \A q \in Runs : run[q] = Idle)
  /\ UNCHANGED <<screen, task, usb, shown>>

(* The device is opened, and "an abort in case the last operation is still *)
(* going on" sent, before the first and the last two of its commands.      *)
OpenDevice(r) ==
  \/ /\ run[r].pc = "open"
     /\ run' = [run EXCEPT ![r] = Idle]
     /\ UNCHANGED <<screen, task, usb, shown, alone>>
  \/ /\ run[r].pc = "drop"
     /\ card' = Aborted
     /\ answers' \in {answers, <<>>}
     /\ run' = [run EXCEPT ![r].pc = "send"]
     /\ UNCHANGED <<screen, task, readers, shown, alone>>
  \/ /\ run[r].pc \in {"open", "send"}
     /\ LET cmd == IF run[r].pc = "open" THEN "power" ELSE "file" IN
        /\ Command(cmd, r, answers)
        /\ run' = [run EXCEPT ![r].pc = cmd]
     /\ readers' = Append(readers, r)
     /\ UNCHANGED <<screen, task, shown, alone>>

(* Of the answers to the first three commands only that to the second is   *)
(* looked at: "Only T-1 protocol is supported".                            *)
NextUrlCommand(r, a) ==
  /\ \/ /\ Reads(r, a, "power")
        /\ Command("params", r, Tail(answers)) /\ run' = [run EXCEPT ![r].pc = "params"]
     \/ /\ Reads(r, a, "params") /\ a.kind = "params"
        /\ Command("set", r, Tail(answers)) /\ run' = [run EXCEPT ![r].pc = "set"]
     \/ /\ Reads(r, a, "file") /\ IsOk(a)
        /\ Command("data", r, Tail(answers)) /\ run' = [run EXCEPT ![r].pc = "data"]
  /\ readers' = Append(Tail(readers), r)
  /\ UNCHANGED <<screen, task, shown, alone>>

(* "check for the 90 00 return", at the end: whatever is before it is the  *)
(* URL.                                                                    *)
HasUrl_Any(a) == TRUE

HasUrl(a) == EndsOk(a)

UrlAnswered(r, a) ==
  /\ \/ /\ Reads(r, a, "set")
        /\ run' = [run EXCEPT ![r].pc = "drop"]
     \/ /\ \/ Reads(r, a, "params") /\ a.kind # "params"
           \/ Reads(r, a, "file") /\ ~IsOk(a)
           \/ Reads(r, a, "data") /\ ~HasUrl(a)
        /\ run' = [run EXCEPT ![r] = Idle]
  /\ answers' = Tail(answers) /\ readers' = Tail(readers)
  /\ UNCHANGED <<screen, task, card, shown, alone>>

(* The key that Keys stores, with that URL, is Page's concern.             *)
TakesUrl(r, a) ==
  /\ Reads(r, a, "data") /\ HasUrl(a)
  /\ run' = [run EXCEPT ![r] = Idle]
  /\ answers' = Tail(answers) /\ readers' = Tail(readers)
  /\ UNCHANGED <<screen, task, card, shown, alone>>

-----------------------------------------------------------------------------
Answered(r) ==
  /\ answers # <<>>
  /\ LET a == Head(answers) IN
     \/ NextCommand(r, a) \/ Refused(r, a) \/ PollLast(r, a) \/ PollAgain(r, a)
     \/ NextUrlCommand(r, a) \/ UrlAnswered(r, a) \/ TakesUrl(r, a)

Step(r) ==
  \/ PasswordDecrypt(r)
  \/ SelectDevice(r)
  \/ Abort(r)
  \/ SendPin(r)
  \/ WakeUp(r)
  \/ UseKey(r)
  \/ AddFromYubikey(r)
  \/ OpenDevice(r)
  \/ Answered(r)

Next ==
  \/ Tap
  \/ NoTap
  \/ \E m \in Decrypters : Prompt(m) \/ BackToButtons(m) \/ Show(m)
  \/ \E m \in Decrypters, r \in Runs : Decrypt(m, r)
  \/ \E r \in Runs : Step(r)

Spec == Init /\ [][Next]_vars

-----------------------------------------------------------------------------
(* What a component is handed are the plaintexts of its own messages, in   *)
(* their order, although decryptions read each other's answers.            *)
OwnPlaintexts == \A m \in Decrypters : shown[m] \in {<<>>, Wanted[m]}

(* yubikey.js never looks at the sequence number of an answer.  Still, as  *)
(* long as decryptions do not overlap and none starts with more answers    *)
(* unread than initDecryption reads (MaxUnread <= 4), the key that         *)
(* finishDecryption returns is that of the message just pushed, late taps  *)
(* and answers left over from failed decryptions notwithstanding.          *)
KeyOfLastPush ==
  alone => \A r \in Runs : run[r].pc = "use" => run[r].key = <<Head(run[r].todo), Head(run[r].todo)>>

(* MasterDecrypter/index.js:71-96: as long as no two runs were under way   *)
(* together, "Tap your Yubikey" is not left standing when none is: nothing *)
(* else would ever take it away.  (A form submitted twice does leave it:   *)
(* the first run fails, the second asks for its tap and fails too, and     *)
(* with an error already there componentWillReceiveProps does nothing.)    *)
TapHasRun ==
  alone => \A m \in Decrypters : screen[m] = "tap" => Active(m) # {}

(* components/Account/keys.js:86-96: what is stored as the URL of the key  *)
(* of a card is that URL, and not the answer to a command of an earlier    *)
(* run that gave up, as long as runs do not overlap and few answers are    *)
(* left unread.                                                            *)
UrlOfCard ==
  [][\A r \in Runs : answers # <<>> /\ TakesUrl(r, Head(answers)) /\ alone
       => Head(answers).kind = "url"]_vars
=============================================================================
