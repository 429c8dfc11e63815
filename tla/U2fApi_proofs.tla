---------------------------- MODULE U2fApi_proofs ----------------------------
(***************************************************************************)
(* Theorems about U2fApi, for any number of calls that overlap, on every   *)
(* kind of browser, with any number of messages that arrive twice.         *)
(***************************************************************************)
EXTENDS U2fApi, FiniteSetTheorems, SequenceTheorems, TLAPS

-----------------------------------------------------------------------------
(* What is posted, whoever posts it: each of the calls cs takes the next   *)
(* id, leaves a callback for it, and posts a request unless that throws.   *)
Sends(kept, cs, step, v) ==
  /\ counter' = counter + Len(cs)
  /\ \A b \in callbacks' :
       \/ b \in kept
       \/ \E i \in 1..Len(cs) : b = [id |-> counter + i, call |-> cs[i], step |-> step]
  /\ \A r \in posted' :
       \/ r \in posted
       \/ \E i \in 1..Len(cs) :
            r = [id |-> counter + i, call |-> cs[i], step |-> step, format |-> v]
  /\ \A c \in lost' : c \in lost \/ \E i \in 1..Len(cs) : c = cs[i]

LEMMA SendRequestsSends ==
  ASSUME counter \in Nat, NEW kept, NEW cs \in Seq(Calls), NEW kinds, NEW step, NEW v,
         IO(SendRequests([counter |-> counter, callbacks |-> kept,
                          posted |-> posted, lost |-> lost], cs, kinds, step, v))
  PROVE  Sends(kept, cs, step, v)
<1>1. DOMAIN cs = 1..Len(cs) /\ Len(cs) \in Nat OBVIOUS
<1>2. \A i \in 1..Len(cs) : (counter + 1) + i - 1 = counter + i OBVIOUS
<1> QED BY <1>1, <1>2 DEF IO, SendRequests, NextId, Sends

-----------------------------------------------------------------------------
(* The inductive invariant.  Types, and that ids count up from 1.          *)
Shape ==
  /\ world \in Worlds
  /\ getting \in {"no", "probe", "timer", "frame"}
  /\ port \in Ports \cup {None}
  /\ up \in BOOLEAN
  /\ waiting \in Seq(Calls)
  /\ version \in Versions \cup {None}
  /\ counter \in Nat
  /\ callbacks \subseteq [id : 1..counter, call : Calls, step : Steps]
  /\ posted \subseteq [id : 1..counter, call : Calls, step : Steps, format : Versions]
  /\ answers \subseteq
       [id : 1..counter, call : Calls, value : Versions \cup {None}, data : BOOLEAN]
  /\ kind \in [Calls -> Kinds \cup {None}]
  /\ repeats \in 0..Repeats
  /\ heard \in [Calls -> Seq(Calls)]
  /\ lost \subseteq Calls

(* Ids are given out once, so that whatever still bears one belongs to the *)
(* call it was given to.                                                   *)
IdsOfCalls ==
  \A b \in callbacks :
    /\ \A r \in posted : r.id = b.id => r.call = b.call
    /\ \A m \in answers : m.id = b.id => m.call = b.call

(* A call waits for the port, or for one answer, or was called back.       *)
OneCallback ==
  /\ \A b, d \in callbacks : b.call = d.call => b = d
  /\ \A b \in callbacks : kind[b.call] # None /\ heard[b.call] = <<>>

Queued ==
  /\ \A i, j \in DOMAIN waiting : waiting[i] = waiting[j] => i = j
  /\ \A i \in DOMAIN waiting :
       /\ kind[waiting[i]] # None /\ heard[waiting[i]] = <<>>
       /\ \A b \in callbacks : b.call # waiting[i]

Unasked == \A c \in Calls : kind[c] = None => heard[c] = <<>>


(* Every action but Receive leaves heard alone, and whoever calls back     *)
(* keeps this.                                                             *)
Calling == Shape /\ IdsOfCalls /\ OneCallback /\ Queued /\ Unasked

LEMMA InitCalling == Init => Calling
BY ConstantsAssumption DEF Init, Calling, Shape, IdsOfCalls, OneCallback, Queued, Unasked

(* The queue, when it is emptied: its first n calls, and what is left.     *)
LEMMA QueueSplit ==
  ASSUME Shape
  PROVE  /\ Called \in Seq(Calls) /\ Len(Called) <= Len(waiting)
         /\ \A i \in 1..Len(Called) : Called[i] = waiting[i]
         /\ SubSeq(waiting, Len(Called) + 1, Len(waiting)) \in Seq(Calls)
         /\ Len(SubSeq(waiting, Len(Called) + 1, Len(waiting))) = Len(waiting) - Len(Called)
         /\ \A i \in 1..(Len(waiting) - Len(Called)) :
              SubSeq(waiting, Len(Called) + 1, Len(waiting))[i] = waiting[Len(Called) + i]
<1>1. waiting \in Seq(Calls) /\ Len(waiting) \in Nat BY DEF Shape
<1>2. /\ Called \in Seq(Calls) /\ Len(Called) <= Len(waiting)
      /\ \A i \in 1..Len(Called) : Called[i] = waiting[i]
  BY <1>1 DEF Called
<1>3. Len(Called) \in Nat BY <1>2
<1> HIDE DEF Called
<1> QED BY <1>1, <1>2, <1>3

LEMMA DrainSends ==
  ASSUME Shape, NEW p, Drain(p)
  PROVE  /\ Sends(callbacks, Called, IF Mobile(p) THEN "request" ELSE "version",
                  IF Mobile(p) THEN 1 ELSE 0)
         /\ port' = p /\ getting' = "no"
         /\ waiting' = SubSeq(waiting, Len(Called) + 1, Len(waiting))
         /\ version' = IF Mobile(p) THEN 1 ELSE version
         /\ UNCHANGED <<world, up, answers, kind, repeats, heard>>
BY QueueSplit, SendRequestsSends DEF Drain, Box, Shape

(* Posting keeps the types, and that ids count up.                         *)
LEMMA SendsShape ==
  ASSUME Shape, NEW kept \in SUBSET callbacks, NEW cs \in Seq(Calls),
         NEW step \in Steps, NEW v \in Versions, Sends(kept, cs, step, v)
  PROVE  /\ counter' \in Nat /\ counter' >= counter
         /\ callbacks' \subseteq [id : 1..counter', call : Calls, step : Steps]
         /\ posted' \subseteq [id : 1..counter', call : Calls, step : Steps, format : Versions]
         /\ lost' \subseteq Calls
<1>1. Len(cs) \in Nat /\ \A i \in 1..Len(cs) : cs[i] \in Calls OBVIOUS
<1>2. counter \in Nat /\ counter' = counter + Len(cs) BY DEF Shape, Sends
<1>3. counter' \in Nat /\ counter' >= counter BY <1>1, <1>2
<1>4. 1..counter \subseteq 1..counter' /\ \A i \in 1..Len(cs) : counter + i \in 1..counter'
  BY <1>1, <1>2
<1>5. ASSUME NEW b \in callbacks' PROVE b \in [id : 1..counter', call : Calls, step : Steps]
  <2>1. CASE b \in kept BY <1>4, <2>1 DEF Shape
  <2>2. CASE \E i \in 1..Len(cs) : b = [id |-> counter + i, call |-> cs[i], step |-> step]
    BY <1>1, <1>4, <2>2
  <2> QED BY <2>1, <2>2 DEF Sends
<1>6. ASSUME NEW r \in posted'
      PROVE  r \in [id : 1..counter', call : Calls, step : Steps, format : Versions]
  <2>1. CASE r \in posted BY <1>4, <2>1 DEF Shape
  <2>2. CASE \E i \in 1..Len(cs) :
               r = [id |-> counter + i, call |-> cs[i], step |-> step, format |-> v]
    BY <1>1, <1>4, <2>2
  <2> QED BY <2>1, <2>2 DEF Sends
<1>7. lost' \subseteq Calls BY <1>1 DEF Sends, Shape
<1> QED BY <1>3, <1>5, <1>6, <1>7

(* ... that an id belongs to one call, and that a call has one callback.   *)
LEMMA SendsCallbacks ==
  ASSUME Shape, IdsOfCalls, OneCallback,
         NEW kept \in SUBSET callbacks, NEW cs \in Seq(Calls),
         NEW step \in Steps, NEW v \in Versions, Sends(kept, cs, step, v),
         \A i, j \in 1..Len(cs) : cs[i] = cs[j] => i = j,
         \A i \in 1..Len(cs) : /\ kind'[cs[i]] # None /\ heard'[cs[i]] = <<>>
                               /\ \A b \in kept : b.call # cs[i],
         \A b \in kept : kind'[b.call] # None /\ heard'[b.call] = <<>>,
         answers' \subseteq answers
  PROVE  IdsOfCalls' /\ OneCallback'
<1> DEFINE asked(i) == [id |-> counter + i, call |-> cs[i], step |-> step]
           sent(i) == [id |-> counter + i, call |-> cs[i], step |-> step, format |-> v]
<1>1. /\ counter \in Nat /\ Len(cs) \in Nat
      /\ \A b \in callbacks : b.id \in 1..counter
      /\ \A r \in posted : r.id \in 1..counter
      /\ \A m \in answers : m.id \in 1..counter
  BY DEF Shape
<1>2. /\ \A b \in callbacks' : b \in kept \/ \E i \in 1..Len(cs) : b = asked(i)
      /\ \A r \in posted' : r \in posted \/ \E i \in 1..Len(cs) : r = sent(i)
  BY DEF Sends
<1>3. \A i \in 1..Len(cs) : asked(i).id = counter + i /\ asked(i).call = cs[i]
  OBVIOUS
<1>4. \A i \in 1..Len(cs) : sent(i).id = counter + i /\ sent(i).call = cs[i]
  OBVIOUS
<1> HIDE DEF asked, sent
<1>5. ASSUME NEW b \in callbacks', NEW r \in posted', r.id = b.id PROVE r.call = b.call
  <2>1. CASE b \in kept /\ r \in posted BY <1>5, <2>1 DEF IdsOfCalls
  <2>2. CASE b \in kept /\ \E i \in 1..Len(cs) : r = sent(i)
    BY <1>1, <1>4, <1>5, <2>2
  <2>3. CASE (\E i \in 1..Len(cs) : b = asked(i)) /\ r \in posted
    BY <1>1, <1>3, <1>5, <2>3
  <2>4. CASE (\E i \in 1..Len(cs) : b = asked(i)) /\ \E i \in 1..Len(cs) : r = sent(i)
    <3>1. PICK i \in 1..Len(cs) : b = asked(i) BY <2>4
    <3>2. PICK j \in 1..Len(cs) : r = sent(j) BY <2>4
    <3>3. i = j BY <1>1, <1>3, <1>4, <1>5, <3>1, <3>2
    <3> QED BY <1>3, <1>4, <3>1, <3>2, <3>3
  <2> QED BY <1>2, <2>1, <2>2, <2>3, <2>4
<1>6. ASSUME NEW b \in callbacks', NEW m \in answers', m.id = b.id PROVE m.call = b.call
  <2>1. m \in answers /\ m.id \in 1..counter BY <1>1
  <2>2. b \in kept BY <1>1, <1>2, <1>3, <1>6, <2>1
  <2> QED BY <1>6, <2>1, <2>2 DEF IdsOfCalls
<1>7. ASSUME NEW b \in callbacks', NEW d \in callbacks', b.call = d.call PROVE b = d
  <2>1. CASE b \in kept /\ d \in kept BY <1>7, <2>1 DEF OneCallback
  <2>2. CASE (\E i \in 1..Len(cs) : b = asked(i)) /\ \E i \in 1..Len(cs) : d = asked(i)
    <3>1. PICK i \in 1..Len(cs) : b = asked(i) BY <2>2
    <3>2. PICK j \in 1..Len(cs) : d = asked(j) BY <2>2
    <3>3. i = j BY <1>3, <1>7, <3>1, <3>2
    <3> QED BY <3>1, <3>2, <3>3
  <2> QED BY <1>2, <1>3, <1>7, <2>1, <2>2
<1>8. \A b \in callbacks' : kind'[b.call] # None /\ heard'[b.call] = <<>>
  BY <1>2, <1>3
<1> QED BY <1>5, <1>6, <1>7, <1>8 DEF IdsOfCalls, OneCallback

-----------------------------------------------------------------------------
(* The actions one by one.                                                 *)
LEMMA CallSends ==
  ASSUME Shape, NEW c \in Calls, NEW k \in Kinds, Call(c, k), port # None
  PROVE  Sends(callbacks, <<c>>, IF version = None THEN "version" ELSE "request",
               IF version = None THEN 0 ELSE version)
<1>1. <<c>> \in Seq(Calls) OBVIOUS
<1> QED BY <1>1, SendRequestsSends DEF Call, Box, Shape

LEMMA CallCalling ==
  ASSUME Calling, NEW c \in Calls, NEW k \in Kinds, Call(c, k) PROVE Calling'
<1> USE DEF Calling
<1>1. /\ kind[c] = None /\ kind' = [kind EXCEPT ![c] = k] /\ k # None
      /\ UNCHANGED <<world, port, up, version, answers, repeats, heard>>
  BY ConstantsAssumption DEF Call
<1>2. /\ \A b \in callbacks : b.call # c
      /\ \A i \in DOMAIN waiting : waiting[i] # c
      /\ heard[c] = <<>>
  BY <1>1 DEF OneCallback, Queued, Unasked
<1>3. /\ kind' \in [Calls -> Kinds \cup {None}] /\ kind'[c] # None
      /\ \A d \in Calls : kind[d] # None => kind'[d] # None
      /\ \A d \in Calls : kind'[d] = None => kind[d] = None
  BY <1>1 DEF Shape
<1>4. Unasked' BY <1>1, <1>3 DEF Unasked
<1>5. \A b \in callbacks : b.call \in Calls BY DEF Shape
<1>6. \A i \in DOMAIN waiting : waiting[i] \in Calls BY DEF Shape
<1>7. CASE port = None
  <2>1. /\ waiting' = Append(waiting, c) /\ UNCHANGED io
        /\ getting' = IF waiting = <<>> THEN FirstStage ELSE getting
    BY <1>7 DEF Call, GetPort
  <2>2. Shape' BY <1>1, <1>3, <2>1 DEF Shape, io, FirstStage
  <2>3. IdsOfCalls' BY <1>1, <2>1 DEF IdsOfCalls, io
  <2>4. OneCallback' BY <1>1, <1>3, <1>5, <2>1 DEF OneCallback, io
  <2>5. /\ waiting \in Seq(Calls) /\ Len(waiting) \in Nat
        /\ DOMAIN waiting = 1..Len(waiting) /\ DOMAIN waiting' = 1..(Len(waiting) + 1)
        /\ \A i \in 1..Len(waiting) : waiting'[i] = waiting[i]
        /\ waiting'[Len(waiting) + 1] = c
    BY <2>1 DEF Shape
  <2>6. \A i \in DOMAIN waiting' :
          \/ i \in DOMAIN waiting /\ waiting'[i] = waiting[i]
          \/ i = Len(waiting) + 1 /\ waiting'[i] = c
    BY <2>5
  <2>7. \A i, j \in DOMAIN waiting' : waiting'[i] = waiting'[j] => i = j
    BY <1>2, <2>6 DEF Queued
  <2>8. \A i \in DOMAIN waiting' :
          /\ kind'[waiting'[i]] # None /\ heard'[waiting'[i]] = <<>>
          /\ \A b \in callbacks' : b.call # waiting'[i]
    BY <1>1, <1>2, <1>3, <1>6, <2>1, <2>6 DEF Queued, io
  <2>9. Queued' BY <2>7, <2>8 DEF Queued
  <2> QED BY <1>4, <2>2, <2>3, <2>4, <2>9
<1>8. CASE port # None
  <2> DEFINE step == IF version = None THEN "version" ELSE "request"
             v == IF version = None THEN 0 ELSE version
  <2>1. Sends(callbacks, <<c>>, step, v) BY <1>8, CallSends
  <2>2. UNCHANGED <<waiting, getting>> BY <1>8 DEF Call
  <2>3. <<c>> \in Seq(Calls) /\ Len(<<c>>) = 1 /\ <<c>>[1] = c OBVIOUS
  <2>4. step \in Steps /\ v \in Versions BY DEF Steps, Versions, Shape
  <2> HIDE DEF step, v
  <2>5. /\ counter' \in Nat /\ counter' >= counter
        /\ callbacks' \subseteq [id : 1..counter', call : Calls, step : Steps]
        /\ posted' \subseteq [id : 1..counter', call : Calls, step : Steps, format : Versions]
        /\ lost' \subseteq Calls
    BY <2>1, <2>3, <2>4, SendsShape
  <2>6. 1..counter \subseteq 1..counter' BY <2>5 DEF Shape
  <2>7. Shape' BY <1>1, <1>3, <2>2, <2>5, <2>6 DEF Shape
  <2>8. \A i \in 1..Len(<<c>>) : <<c>>[i] = c /\ i = 1 BY <2>3
  <2>9. \A b \in callbacks : kind'[b.call] # None /\ heard'[b.call] = <<>>
    BY <1>1, <1>3, <1>5 DEF OneCallback
  <2>10. IdsOfCalls' /\ OneCallback'
    <3>1. \A i, j \in 1..Len(<<c>>) : <<c>>[i] = <<c>>[j] => i = j BY <2>8
    <3>2. heard'[c] = <<>> BY <1>1, <1>2
    <3>3. \A i \in 1..Len(<<c>>) :
            /\ kind'[<<c>>[i]] # None /\ heard'[<<c>>[i]] = <<>>
            /\ \A b \in callbacks : b.call # <<c>>[i]
      BY <1>2, <1>3, <2>8, <3>2
    <3>4. answers' \subseteq answers /\ callbacks \in SUBSET callbacks BY <1>1
    <3> HIDE DEF Calling
    <3>5. Shape /\ IdsOfCalls /\ OneCallback BY DEF Calling
    <3> QED BY <2>1, <2>3, <2>4, <2>9, <3>1, <3>3, <3>4, <3>5, SendsCallbacks
  <2>11. \A b \in callbacks' : b \in callbacks \/ b.call = c
    BY <2>1, <2>8 DEF Sends
  <2>12. Queued'
    BY <1>1, <1>2, <1>3, <1>6, <2>2, <2>11 DEF Queued
  <2> QED BY <1>4, <2>7, <2>10, <2>12
<1> QED BY <1>7, <1>8

LEMMA DrainCalling ==
  ASSUME Calling, NEW p \in Ports, Drain(p) PROVE Calling'
<1> DEFINE step == IF Mobile(p) THEN "request" ELSE "version"
           v == IF Mobile(p) THEN 1 ELSE 0
           n == Len(Called)
<1>1. Shape /\ IdsOfCalls /\ OneCallback /\ Queued /\ Unasked BY DEF Calling
<1>2. /\ Sends(callbacks, Called, step, v)
      /\ port' = p /\ getting' = "no"
      /\ waiting' = SubSeq(waiting, n + 1, Len(waiting))
      /\ version' = IF Mobile(p) THEN 1 ELSE version
      /\ UNCHANGED <<world, up, answers, kind, repeats, heard>>
  BY <1>1, DrainSends
<1>3. step \in Steps /\ v \in Versions BY DEF Steps, Versions
<1>4. /\ Called \in Seq(Calls) /\ n <= Len(waiting) /\ n \in Nat
      /\ waiting \in Seq(Calls) /\ Len(waiting) \in Nat /\ DOMAIN waiting = 1..Len(waiting)
      /\ \A i \in 1..n : Called[i] = waiting[i]
      /\ waiting' \in Seq(Calls)
      /\ DOMAIN waiting' = 1..(Len(waiting) - n)
      /\ \A i \in 1..(Len(waiting) - n) : waiting'[i] = waiting[n + i]
  BY <1>1, <1>2, QueueSplit DEF Shape
<1> HIDE DEF step, v, n
<1>5. /\ counter' \in Nat /\ counter' >= counter
      /\ callbacks' \subseteq [id : 1..counter', call : Calls, step : Steps]
      /\ posted' \subseteq [id : 1..counter', call : Calls, step : Steps, format : Versions]
      /\ lost' \subseteq Calls
  BY <1>1, <1>2, <1>3, <1>4, SendsShape
<1>6. 1..counter \subseteq 1..counter' BY <1>1, <1>5 DEF Shape
<1>7. Shape'
  BY <1>1, <1>2, <1>4, <1>5, <1>6 DEF Shape, Versions
<1>8. \A i \in 1..Len(Called) : i \in DOMAIN waiting /\ Called[i] = waiting[i]
  BY <1>4 DEF n
<1>9. IdsOfCalls' /\ OneCallback'
  <2>1. \A i, j \in 1..Len(Called) : Called[i] = Called[j] => i = j
    BY <1>1, <1>8 DEF Queued
  <2>2. \A i \in 1..Len(Called) :
          /\ kind'[Called[i]] # None /\ heard'[Called[i]] = <<>>
          /\ \A b \in callbacks : b.call # Called[i]
    BY <1>1, <1>2, <1>8 DEF Queued
  <2>3. \A b \in callbacks : kind'[b.call] # None /\ heard'[b.call] = <<>>
    BY <1>1, <1>2 DEF OneCallback
  <2>4. answers' \subseteq answers /\ callbacks \in SUBSET callbacks BY <1>2
  <2> QED BY <1>1, <1>2, <1>3, <1>4, <2>1, <2>2, <2>3, <2>4, SendsCallbacks
<1>10. Queued'
  <2>1. \A i \in DOMAIN waiting' : n + i \in DOMAIN waiting /\ waiting'[i] = waiting[n + i]
    BY <1>4
  <2>2. \A i \in 1..Len(Called), j \in DOMAIN waiting' : i # n + j
    BY <1>4 DEF n
  <2>3. \A b \in callbacks' : b \in callbacks \/ \E i \in 1..Len(Called) : b.call = Called[i]
    BY <1>2 DEF Sends
  <2>4. \A i, j \in DOMAIN waiting' : waiting'[i] = waiting'[j] => n + i = n + j
    BY <1>1, <2>1 DEF Queued
  <2>5. \A i, j \in DOMAIN waiting' : waiting'[i] = waiting'[j] => i = j
    BY <1>4, <2>4
  <2>6. \A i \in DOMAIN waiting' :
          /\ kind'[waiting'[i]] # None /\ heard'[waiting'[i]] = <<>>
          /\ \A b \in callbacks : b.call # waiting'[i]
    <3>1. kind' = kind /\ heard' = heard BY <1>2
    <3> QED BY <1>1, <2>1, <3>1 DEF Queued
  <2>7. \A i \in 1..Len(Called), j \in DOMAIN waiting' : Called[i] # waiting'[j]
    BY <1>1, <1>8, <2>1, <2>2 DEF Queued
  <2>8. \A i \in DOMAIN waiting' : \A b \in callbacks' : b.call # waiting'[i]
    BY <2>3, <2>6, <2>7
  <2> QED BY <2>5, <2>6, <2>8 DEF Queued
<1>11. Unasked' BY <1>1, <1>2 DEF Unasked
<1> QED BY <1>7, <1>9, <1>10, <1>11 DEF Calling

(* What a message that is received comes to: it is dropped, or a callback  *)
(* that asked for the version posts its request, or one that waited for    *)
(* the answer to its request is called with it.                            *)
Others(b) == {d \in callbacks : d.id # b.id}

Drops == lost' \subseteq Calls /\ UNCHANGED <<version, counter, callbacks, posted, heard>>

Goes(b, m) ==
  /\ b.step = "version"
  /\ version' = Known(m)
  /\ Sends(Others(b), <<b.call>>, "request", Known(m))
  /\ UNCHANGED heard

CallsBack(b) ==
  /\ b.step = "request"
  /\ heard' = [heard EXCEPT ![b.call] = <<b.call>>]
  /\ callbacks' = Others(b)
  /\ UNCHANGED <<version, counter, posted, lost>>

LEMMA ReceiveCases ==
  ASSUME Calling, NEW id \in Ids, Receive(id)
  PROVE  /\ answers' \subseteq answers /\ repeats' \in 0..Repeats
         /\ UNCHANGED <<world, getting, port, up, waiting, kind>>
         /\ \/ Drops
            \/ \E b \in callbacks, m \in answers : Goes(b, m)
            \/ \E b \in callbacks : CallsBack(b)
<1>0. Shape /\ IdsOfCalls /\ OneCallback BY DEF Calling
<1>1. PICK m \in answers :
    /\ m.id = id
    /\ \/ answers' = answers \ {m} /\ UNCHANGED repeats
       \/ repeats < Repeats /\ repeats' = repeats + 1 /\ UNCHANGED answers
    /\ UNCHANGED <<world, getting, port, up, waiting, kind>>
    /\ \/ /\ Unread(m)
          /\ lost' = lost \cup {m.call}
          /\ UNCHANGED <<version, counter, callbacks, posted, heard>>
       \/ /\ ~Unread(m)
          /\ id = 0 \/ \A b \in callbacks : b.id # id
          /\ UNCHANGED <<version, io, heard>>
       \/ /\ ~Unread(m) /\ id # 0
          /\ \E b \in callbacks :
               /\ b.id = id
               /\ LET box == [Box EXCEPT !.callbacks = Kept(id)] IN
                  IF b.step = "version"
                    THEN /\ version' = Known(m)
                         /\ IO(SendRequests(box, <<b.call>>, kind, "request", Known(m)))
                         /\ UNCHANGED heard
                    ELSE /\ heard' = [heard EXCEPT ![b.call] = Append(@, m.call)]
                         /\ IO(box)
                         /\ UNCHANGED version
  BY Zenon DEF Receive
<1>2. answers' \subseteq answers BY <1>1
<1>3. repeats' \in 0..Repeats BY <1>0, <1>1, ConstantsAssumption DEF Shape
<1>4. UNCHANGED <<world, getting, port, up, waiting, kind>> BY <1>1
<1>5. CASE /\ lost' = lost \cup {m.call}
           /\ UNCHANGED <<version, counter, callbacks, posted, heard>>
  BY <1>0, <1>2, <1>3, <1>4, <1>5 DEF Shape, Drops
<1>6. CASE UNCHANGED <<version, io, heard>>
  BY <1>0, <1>2, <1>3, <1>4, <1>6 DEF Shape, Drops, io
<1>7. ASSUME NEW b \in callbacks, b.id = id,
             LET box == [Box EXCEPT !.callbacks = Kept(id)] IN
                  IF b.step = "version"
                    THEN /\ version' = Known(m)
                         /\ IO(SendRequests(box, <<b.call>>, kind, "request", Known(m)))
                         /\ UNCHANGED heard
                    ELSE /\ heard' = [heard EXCEPT ![b.call] = Append(@, m.call)]
                         /\ IO(box)
                         /\ UNCHANGED version
      PROVE  Goes(b, m) \/ CallsBack(b)
  <2>1. [Box EXCEPT !.callbacks = Kept(id)] =
          [counter |-> counter, callbacks |-> Others(b), posted |-> posted, lost |-> lost]
    <3>1. Kept(id) = Others(b) BY <1>7 DEF Kept, Others
    <3> QED BY <3>1 DEF Box
  <2>2. b.call \in Calls /\ b.step \in Steps /\ counter \in Nat BY <1>0 DEF Shape
  <2>3. <<b.call>> \in Seq(Calls) BY <2>2
  <2>4. CASE b.step = "version"
    <3>1. /\ version' = Known(m) /\ UNCHANGED heard
          /\ IO(SendRequests([counter |-> counter, callbacks |-> Others(b),
                              posted |-> posted, lost |-> lost],
                             <<b.call>>, kind, "request", Known(m)))
      BY <1>7, <2>1, <2>4
    <3>2. Sends(Others(b), <<b.call>>, "request", Known(m))
      BY <2>2, <2>3, <3>1, SendRequestsSends
    <3> QED BY <2>4, <3>1, <3>2 DEF Goes
  <2>5. CASE b.step = "request"
    <3>1. /\ heard' = [heard EXCEPT ![b.call] = Append(heard[b.call], m.call)]
          /\ IO([counter |-> counter, callbacks |-> Others(b),
                 posted |-> posted, lost |-> lost])
          /\ UNCHANGED version
      BY <1>7, <2>1, <2>5
    <3>2. m.call = b.call /\ heard[b.call] = <<>>
      BY <1>0, <1>1, <1>7 DEF IdsOfCalls, OneCallback
    <3>3. Append(heard[b.call], m.call) = <<b.call>> BY <3>2
    <3> QED BY <2>5, <3>1, <3>3 DEF CallsBack, IO
  <2> QED BY <2>2, <2>4, <2>5 DEF Steps
<1> QED BY <1>1, <1>2, <1>3, <1>4, <1>5, <1>6, <1>7
LEMMA GoesCalling ==
  ASSUME Calling, NEW b \in callbacks, NEW m \in answers, Goes(b, m),
         answers' \subseteq answers, repeats' \in 0..Repeats,
         UNCHANGED <<world, getting, port, up, waiting, kind>>
  PROVE  Calling'
<1>1. Shape /\ IdsOfCalls /\ OneCallback /\ Queued /\ Unasked BY DEF Calling
<1>2. /\ Sends(Others(b), <<b.call>>, "request", Known(m))
      /\ version' = Known(m) /\ heard' = heard
  BY DEF Goes
<1>3. Known(m) \in Versions /\ "request" \in Steps BY <1>1 DEF Shape, Known, Versions, Steps
<1>4. /\ b.call \in Calls /\ <<b.call>> \in Seq(Calls)
      /\ \A i \in 1..Len(<<b.call>>) : i = 1 /\ <<b.call>>[i] = b.call
  BY <1>1 DEF Shape
<1>5. Others(b) \in SUBSET callbacks /\ \A d \in Others(b) : d.call # b.call
  BY <1>1 DEF Others, OneCallback
<1>6. /\ counter' \in Nat /\ counter' >= counter
      /\ callbacks' \subseteq [id : 1..counter', call : Calls, step : Steps]
      /\ posted' \subseteq [id : 1..counter', call : Calls, step : Steps, format : Versions]
      /\ lost' \subseteq Calls
  BY <1>1, <1>2, <1>3, <1>4, <1>5, SendsShape
<1>7. 1..counter \subseteq 1..counter' BY <1>1, <1>6 DEF Shape
<1>8. Shape' BY <1>1, <1>2, <1>3, <1>6, <1>7 DEF Shape
<1>9. IdsOfCalls' /\ OneCallback'
  <2>1. \A i, j \in 1..Len(<<b.call>>) : <<b.call>>[i] = <<b.call>>[j] => i = j BY <1>4
  <2>2. kind'[b.call] # None /\ heard'[b.call] = <<>> BY <1>1, <1>2 DEF OneCallback
  <2>3. \A i \in 1..Len(<<b.call>>) :
          /\ kind'[<<b.call>>[i]] # None /\ heard'[<<b.call>>[i]] = <<>>
          /\ \A d \in Others(b) : d.call # <<b.call>>[i]
    BY <1>4, <1>5, <2>2
  <2>4. \A d \in Others(b) : kind'[d.call] # None /\ heard'[d.call] = <<>>
    BY <1>1, <1>2, <1>5 DEF OneCallback
  <2> QED BY <1>1, <1>2, <1>3, <1>4, <1>5, <2>1, <2>3, <2>4, SendsCallbacks
<1>10. Queued'
  <2>1. \A d \in callbacks' : d \in callbacks \/ d.call = b.call
    BY <1>2, <1>4, <1>5 DEF Sends
  <2> QED BY <1>1, <1>2, <2>1 DEF Queued
<1>11. Unasked' BY <1>1, <1>2 DEF Unasked
<1> QED BY <1>8, <1>9, <1>10, <1>11 DEF Calling

LEMMA CallsBackCalling ==
  ASSUME Calling, NEW b \in callbacks, CallsBack(b),
         answers' \subseteq answers, repeats' \in 0..Repeats,
         UNCHANGED <<world, getting, port, up, waiting, kind>>
  PROVE  Calling'
<1>1. Shape /\ IdsOfCalls /\ OneCallback /\ Queued /\ Unasked BY DEF Calling
<1>2. /\ b.call \in Calls /\ <<b.call>> \in Seq(Calls)
      /\ heard' = [heard EXCEPT ![b.call] = <<b.call>>]
      /\ heard' \in [Calls -> Seq(Calls)]
      /\ \A c \in Calls : c # b.call => heard'[c] = heard[c]
  BY <1>1 DEF CallsBack, Shape
<1>3. callbacks' \subseteq callbacks /\ \A d \in callbacks' : d.call # b.call
  BY <1>1 DEF CallsBack, Others, OneCallback
<1>4. UNCHANGED <<version, counter, posted, lost>> BY DEF CallsBack
<1>5. Shape' BY <1>1, <1>2, <1>3, <1>4 DEF Shape
<1>6. IdsOfCalls' BY <1>1, <1>3, <1>4 DEF IdsOfCalls
<1>7. OneCallback'
  <2>1. \A d \in callbacks' : heard'[d.call] = heard[d.call] BY <1>1, <1>2, <1>3 DEF Shape
  <2> QED BY <1>1, <1>3, <2>1 DEF OneCallback
<1>8. Queued'
  <2>1. \A i \in DOMAIN waiting : waiting[i] \in Calls /\ waiting[i] # b.call
    BY <1>1 DEF Shape, Queued
  <2> QED BY <1>1, <1>2, <1>3, <2>1 DEF Queued
<1>9. Unasked'
  <2>1. kind[b.call] # None BY <1>1 DEF OneCallback
  <2> QED BY <1>1, <1>2, <2>1 DEF Unasked
<1> QED BY <1>5, <1>6, <1>7, <1>8, <1>9 DEF Calling

(* An answer bears the id of a request that was posted, and its call.      *)
AnswerOf(id) ==
  \E r \in posted, v \in {world.speaks, None}, full \in BOOLEAN :
    /\ r.id = id
    /\ world.speaks = 0 => v = None
    /\ answers' = answers \cup {[id |-> id, call |-> r.call, value |-> v, data |-> full]}
    /\ posted' = posted \ {r}
    /\ UNCHANGED <<world, getting, port, up, waiting, version, counter, callbacks,
                   kind, repeats, heard, lost>>

LEMMA AnswerCases == ASSUME NEW id \in Ids, Answer(id) PROVE AnswerOf(id)
BY Zenon DEF Answer, AnswerOf

LEMMA AnswerCalling == ASSUME Calling, NEW id \in Ids, Answer(id) PROVE Calling'
<1>1. Shape /\ IdsOfCalls /\ OneCallback /\ Queued /\ Unasked BY DEF Calling
<1>2. PICK r \in posted, v \in {world.speaks, None}, full \in BOOLEAN :
        /\ r.id = id
        /\ answers' = answers \cup {[id |-> id, call |-> r.call, value |-> v, data |-> full]}
        /\ posted' = posted \ {r}
        /\ UNCHANGED <<world, getting, port, up, waiting, version, counter, callbacks,
                       kind, repeats, heard, lost>>
  BY AnswerCases DEF AnswerOf
<1>3. world.speaks \in Versions BY <1>1 DEF Shape, Worlds, Versions
<1>4. [id |-> id, call |-> r.call, value |-> v, data |-> full]
        \in [id : 1..counter, call : Calls, value : Versions \cup {None}, data : BOOLEAN]
  BY <1>1, <1>2, <1>3 DEF Shape
<1>5. Shape' BY <1>1, <1>2, <1>4 DEF Shape
<1>6. \A m \in answers' : m \in answers \/ (m.id = r.id /\ m.call = r.call) BY <1>2
<1>7. IdsOfCalls' BY <1>1, <1>2, <1>6 DEF IdsOfCalls
<1>8. OneCallback' /\ Queued' /\ Unasked' BY <1>1, <1>2 DEF OneCallback, Queued, Unasked
<1> QED BY <1>5, <1>7, <1>8 DEF Calling

LEMMA StepCalling == Calling /\ [Next]_vars => Calling'
<1> SUFFICES ASSUME Calling, [Next]_vars PROVE Calling'
  OBVIOUS
<1>1. ASSUME NEW c \in Calls, NEW k \in Kinds, Call(c, k) PROVE Calling'
  BY <1>1, CallCalling
<1>2. CASE Probe
  BY <1>2 DEF Probe, Calling, Shape, IdsOfCalls, OneCallback, Queued, Unasked, io
<1>3. CASE TimerFires BY <1>3, DrainCalling DEF TimerFires, Ports
<1>4. CASE FrameReady BY <1>4, DrainCalling DEF FrameReady, Ports
<1>5. CASE Disconnect
  BY <1>5 DEF Disconnect, Calling, Shape, IdsOfCalls, OneCallback, Queued, Unasked, io
<1>6. ASSUME NEW id \in Ids, Answer(id) PROVE Calling' BY <1>6, AnswerCalling
<1>7. ASSUME NEW id \in Ids, Receive(id) PROVE Calling'
  <2>1. CASE Drops
    BY <1>7, <2>1, ReceiveCases
       DEF Drops, Calling, Shape, IdsOfCalls, OneCallback, Queued, Unasked
  <2> QED BY <1>7, <2>1, ReceiveCases, GoesCalling, CallsBackCalling
<1>8. CASE UNCHANGED vars
  BY <1>8 DEF vars, Calling, Shape, IdsOfCalls, OneCallback, Queued, Unasked
<1> QED BY <1>1, <1>2, <1>3, <1>4, <1>5, <1>6, <1>7, <1>8 DEF Next

LEMMA AlwaysCalling == Spec => []Calling
BY InitCalling, StepCalling, PTL DEF Spec
-----------------------------------------------------------------------------
(* u2f-api.js:550-613 keeps its promise: a step that takes a call asks, a  *)
(* step that calls a callback back finds that it was asked for and never   *)
(* called, and gives it the answer to its own request; no other step is    *)
(* seen.                                                                   *)
Asked == {c \in Calls : kind[c] # None}

LEMMA InitPromise == Init => Promise!Init
BY DEF Init, Promise!Init

LEMMA StepPromise == Calling /\ [Next]_vars => [Promise!Next]_<<Asked, heard>>
<1> SUFFICES ASSUME Calling, [Next]_vars PROVE [Promise!Next]_<<Asked, heard>>
  OBVIOUS
<1>0. Shape /\ OneCallback BY DEF Calling
<1>1. ASSUME NEW c \in Calls, NEW k \in Kinds, Call(c, k) PROVE Promise!Next
  <2>1. kind' = [kind EXCEPT ![c] = k] /\ k # None /\ heard' = heard
    BY <1>1, ConstantsAssumption DEF Call
  <2>2. {d \in Calls : kind'[d] # None} = {d \in Calls : kind[d] # None} \cup {c}
    BY <1>0, <2>1 DEF Shape
  <2>3. Promise!Ask(c) BY <2>1, <2>2 DEF Promise!Ask
  <2> QED BY <2>3 DEF Promise!Next
<1>2. CASE UNCHANGED <<kind, heard>> BY <1>2 DEF Asked
<1>3. CASE Probe BY <1>2, <1>3 DEF Probe
<1>4. ASSUME NEW p, Drain(p) PROVE UNCHANGED <<kind, heard>> BY <1>4 DEF Drain
<1>5. CASE TimerFires \/ FrameReady BY <1>2, <1>4, <1>5 DEF TimerFires, FrameReady
<1>6. CASE Disconnect BY <1>2, <1>6 DEF Disconnect
<1>7. ASSUME NEW id \in Ids, Answer(id) PROVE UNCHANGED <<kind, heard>>
  BY <1>7, AnswerCases DEF AnswerOf
<1>8. ASSUME NEW id \in Ids, Receive(id) PROVE [Promise!Next]_<<Asked, heard>>
  <2>1. kind' = kind BY <1>8, ReceiveCases
  <2>2. CASE Drops BY <1>2, <2>1, <2>2 DEF Drops
  <2>3. ASSUME NEW b \in callbacks, NEW m \in answers, Goes(b, m)
        PROVE  UNCHANGED <<kind, heard>>
    BY <2>1, <2>3 DEF Goes
  <2>4. ASSUME NEW b \in callbacks, CallsBack(b) PROVE Promise!Next
    <3>1. b.call \in Calls /\ kind[b.call] # None /\ heard[b.call] = <<>>
      BY <1>0 DEF Shape, OneCallback
    <3>2. heard' = [heard EXCEPT ![b.call] = <<b.call>>] BY <2>4 DEF CallsBack
    <3>3. Promise!CallBack(b.call) BY <2>1, <3>1, <3>2 DEF Promise!CallBack
    <3> QED BY <3>1, <3>3 DEF Promise!Next
  <2> QED BY <1>2, <1>8, <2>2, <2>3, <2>4, ReceiveCases
<1>9. CASE UNCHANGED vars BY <1>2, <1>9 DEF vars
<1> QED BY <1>1, <1>2, <1>3, <1>5, <1>6, <1>7, <1>8, <1>9 DEF Next

THEOREM ApiKeepsPromise == Spec => PromiseSpec
<1>1. Init => Promise!Init BY InitPromise
<1>2. Calling /\ [Next]_vars => [Promise!Next]_<<Asked, heard>> BY StepPromise
<1>3. Spec => []Calling BY AlwaysCalling
<1> QED BY <1>1, <1>2, <1>3, PTL DEF Spec, PromiseSpec, Promise!Spec, Asked

-----------------------------------------------------------------------------
(* What is known of the version of the other side is true: of a phone's    *)
(* app by the port, of the extension by an answer that named it.  While    *)
(* there is no port, nothing was ever posted.                              *)
VersionTrue ==
  /\ port # None => getting = "no"
  /\ port = None => counter = 0
  /\ version = 1 => Mobile(port) \/ world.speaks = 1
  /\ \A m \in answers : m.value = 1 => world.speaks = 1

LEMMA InitVersed == Init => VersionTrue /\ Understood
BY ConstantsAssumption DEF Init, VersionTrue, Understood, Versions

(* Requests that are posted in a form the other side speaks.               *)
LEMMA SendsUnderstood ==
  ASSUME Understood, NEW kept, NEW cs, NEW step, NEW v, Sends(kept, cs, step, v),
         (step = "request" /\ v = 1) => (Mobile(port') \/ world'.speaks = 1),
         world' = world, port' = port \/ posted = {}
  PROVE  Understood'
<1>1. ASSUME NEW r \in posted', r.step = "request", r.format = 1
      PROVE  Mobile(port') \/ world'.speaks = 1
  <2>1. CASE r \in posted BY <1>1, <2>1 DEF Understood
  <2>2. CASE \E i \in 1..Len(cs) :
               r = [id |-> counter + i, call |-> cs[i], step |-> step, format |-> v]
    <3>1. r.step = step /\ r.format = v BY <2>2
    <3> QED BY <1>1, <3>1
  <2> QED BY <1>1, <2>1, <2>2 DEF Sends
<1> QED BY <1>1 DEF Understood

LEMMA DrainVersed ==
  ASSUME Shape, VersionTrue, Understood, NEW p \in Ports, Drain(p), getting # "no"
  PROVE  VersionTrue' /\ Understood'
<1>1. /\ Sends(callbacks, Called, IF Mobile(p) THEN "request" ELSE "version",
               IF Mobile(p) THEN 1 ELSE 0)
      /\ port' = p /\ getting' = "no"
      /\ version' = IF Mobile(p) THEN 1 ELSE version
      /\ world' = world /\ answers' = answers
  BY DrainSends
<1>2. port = None /\ counter = 0 BY DEF VersionTrue
<1>3. posted = {} BY <1>2 DEF Shape
<1>4. p # None /\ ~Mobile(None) BY ConstantsAssumption DEF Ports, Mobile
<1>5. VersionTrue' BY <1>1, <1>2, <1>4 DEF VersionTrue
<1>6. Understood' BY <1>1, <1>3, SendsUnderstood
<1> QED BY <1>5, <1>6

LEMMA StepVersed ==
  Calling /\ VersionTrue /\ Understood /\ [Next]_vars => VersionTrue' /\ Understood'
<1> SUFFICES ASSUME Calling, VersionTrue, Understood, [Next]_vars
             PROVE  VersionTrue' /\ Understood'
  OBVIOUS
<1>0. Shape BY DEF Calling
<1>1. ASSUME NEW c \in Calls, NEW k \in Kinds, Call(c, k)
      PROVE  VersionTrue' /\ Understood'
  <2>1. UNCHANGED <<world, port, version, answers>> BY <1>1 DEF Call
  <2>2. CASE port = None
    BY <1>1, <2>1, <2>2 DEF Call, GetPort, io, VersionTrue, Understood
  <2>3. CASE port # None
    <3>1. Sends(callbacks, <<c>>, IF version = None THEN "version" ELSE "request",
                IF version = None THEN 0 ELSE version)
      BY <1>0, <1>1, <2>3, CallSends
    <3>2. Understood' BY <2>1, <3>1, SendsUnderstood DEF VersionTrue
    <3>3. getting' = getting BY <1>1, <2>3 DEF Call
    <3>4. VersionTrue' BY <2>1, <2>3, <3>3 DEF VersionTrue
    <3> QED BY <3>2, <3>4
  <2> QED BY <2>2, <2>3
<1>2. CASE Probe
  BY <1>2 DEF Probe, io, VersionTrue, Understood
<1>3. CASE TimerFires BY <1>0, <1>3, DrainVersed DEF TimerFires, Ports
<1>4. CASE FrameReady BY <1>0, <1>4, DrainVersed DEF FrameReady, Ports
<1>5. CASE Disconnect BY <1>5 DEF Disconnect, io, VersionTrue, Understood
<1>6. ASSUME NEW id \in Ids, Answer(id) PROVE VersionTrue' /\ Understood'
  <2>1. PICK r \in posted, v \in {world.speaks, None}, full \in BOOLEAN :
          /\ answers' = answers \cup
               {[id |-> id, call |-> r.call, value |-> v, data |-> full]}
          /\ posted' = posted \ {r}
          /\ UNCHANGED <<world, getting, port, version, counter>>
    BY <1>6, AnswerCases DEF AnswerOf
  <2>2. v = 1 => world.speaks = 1 BY ConstantsAssumption DEF Versions
  <2>3. \A m \in answers' : m \in answers \/ m.value = v BY <2>1
  <2>4. VersionTrue' BY <2>1, <2>2, <2>3 DEF VersionTrue
  <2>5. Understood' BY <2>1 DEF Understood
  <2> QED BY <2>4, <2>5
<1>7. ASSUME NEW id \in Ids, Receive(id) PROVE VersionTrue' /\ Understood'
  <2>1. answers' \subseteq answers /\ UNCHANGED <<world, getting, port>>
    BY <1>7, ReceiveCases
  <2>2. CASE Drops BY <2>1, <2>2 DEF Drops, VersionTrue, Understood
  <2>3. ASSUME NEW b \in callbacks, NEW m \in answers, Goes(b, m)
        PROVE  VersionTrue' /\ Understood'
    <3>1. version' = Known(m) /\ Sends(Others(b), <<b.call>>, "request", Known(m))
      BY <2>3 DEF Goes
    <3>2. Known(m) = 1 => world.speaks = 1 BY DEF VersionTrue, Known
    <3>3. Understood' BY <2>1, <3>1, <3>2, SendsUnderstood
    <3>4. port # None BY <1>0 DEF VersionTrue, Shape
    <3>5. VersionTrue' BY <2>1, <3>1, <3>2, <3>4 DEF VersionTrue
    <3> QED BY <3>3, <3>5
  <2>4. ASSUME NEW b \in callbacks, CallsBack(b) PROVE VersionTrue' /\ Understood'
    BY <2>1, <2>4 DEF CallsBack, VersionTrue, Understood
  <2> QED BY <1>7, <2>2, <2>3, <2>4, ReceiveCases
<1>8. CASE UNCHANGED vars BY <1>8 DEF vars, VersionTrue, Understood
<1> QED BY <1>1, <1>2, <1>3, <1>4, <1>5, <1>6, <1>7, <1>8 DEF Next

(* u2f-api.js:282 and 320: no request is posted in the form of a version   *)
(* that the other side does not speak.                                     *)
THEOREM RequestsUnderstood == Spec => []Understood
<1>1. Init => VersionTrue /\ Understood BY InitVersed
<1>2. Spec => []Calling BY AlwaysCalling
<1> QED BY <1>1, <1>2, StepVersed, PTL DEF Spec

-----------------------------------------------------------------------------
(* u2f-api.js:554-566: whoever waits for the port has somebody getting it, *)
(* unless the port died and a callback threw.                              *)
THEOREM NobodyIsForgotten == Spec => []NobodyForgotten
<1>1. Init => NobodyForgotten BY DEF Init, NobodyForgotten
<1>2. ASSUME Calling, NobodyForgotten, [Next]_vars PROVE NobodyForgotten'
  <2>0. Shape BY <1>2 DEF Calling
  <2>1. ASSUME NEW c \in Calls, NEW k \in Kinds, Call(c, k) PROVE NobodyForgotten'
    BY <1>2, <2>1 DEF Call, GetPort, FirstStage, NobodyForgotten
  <2>2. CASE Probe BY <2>2 DEF Probe, NobodyForgotten
  <2>3. ASSUME NEW p, Drain(p) PROVE NobodyForgotten'
    <3>1. CASE up
      <4>1. Called = waiting /\ waiting \in Seq(Calls) /\ Len(waiting) \in Nat
        BY <2>0, <3>1 DEF Called, Shape
      <4>2. waiting' = SubSeq(waiting, Len(waiting) + 1, Len(waiting))
        BY <2>3, <4>1 DEF Drain
      <4>3. waiting' = <<>> BY <4>1, <4>2
      <4> QED BY <4>3 DEF NobodyForgotten
    <3>2. CASE ~up BY <2>3, <3>2 DEF Drain, NobodyForgotten
    <3> QED BY <3>1, <3>2
  <2>4. CASE TimerFires \/ FrameReady BY <2>3, <2>4 DEF TimerFires, FrameReady
  <2>5. CASE Disconnect BY <2>5 DEF Disconnect, NobodyForgotten
  <2>6. ASSUME NEW id \in Ids, Answer(id) PROVE NobodyForgotten'
    BY <1>2, <2>6, AnswerCases DEF AnswerOf, NobodyForgotten
  <2>7. ASSUME NEW id \in Ids, Receive(id) PROVE NobodyForgotten'
    BY <1>2, <2>7, ReceiveCases DEF NobodyForgotten
  <2>8. CASE UNCHANGED vars BY <1>2, <2>8 DEF vars, NobodyForgotten
  <2> QED BY <1>2, <2>1, <2>2, <2>4, <2>5, <2>6, <2>7, <2>8 DEF Next
<1> QED BY <1>1, <1>2, AlwaysCalling, PTL DEF Spec
-----------------------------------------------------------------------------
(* A call takes two ids at most: one for its request, and before that one  *)
(* to ask for the version.  Pending calls have still to take their second. *)
Pending == {c \in Calls : \E b \in callbacks : b.call = c /\ b.step = "version"}

Started == {c \in Calls : kind[c] # None /\ \A i \in DOMAIN waiting : waiting[i] # c}

Counted == counter + Cardinality(Pending) <= 2 * Cardinality(Started)

LEMMA CallsFinite ==
  ASSUME NEW S \in SUBSET Calls
  PROVE  IsFiniteSet(S) /\ Cardinality(S) \in Nat /\ Cardinality(S) <= Cardinality(Calls)
BY ConstantsAssumption, FS_Subset, FS_CardinalityType

LEMMA UnionCount ==
  ASSUME NEW S, NEW T, IsFiniteSet(S), IsFiniteSet(T)
  PROVE  /\ Cardinality(S \cup T) <= Cardinality(S) + Cardinality(T)
         /\ S \cap T = {} => Cardinality(S \cup T) = Cardinality(S) + Cardinality(T)
<1>1. Cardinality(S) \in Nat /\ Cardinality(T) \in Nat BY FS_CardinalityType
<1>2. Cardinality(S \cup T) = Cardinality(S) + Cardinality(T) - Cardinality(S \cap T)
  BY FS_Union
<1>3. IsFiniteSet(S \cap T) BY FS_Intersection
<1>4. Cardinality(S \cap T) \in Nat BY <1>3, FS_CardinalityType
<1>5. S \cap T = {} => Cardinality(S \cap T) = 0 BY FS_EmptySet
<1> QED BY <1>1, <1>2, <1>4, <1>5

(* The calls of a sequence in which none occurs twice.                     *)
CallsOf(cs) == {cs[i] : i \in 1..Len(cs)}

LEMMA CallsOfCount ==
  ASSUME NEW cs \in Seq(Calls), \A i, j \in 1..Len(cs) : cs[i] = cs[j] => i = j
  PROVE  /\ CallsOf(cs) \in SUBSET Calls
         /\ Cardinality(CallsOf(cs)) = Len(cs) /\ Len(cs) <= Cardinality(Calls)
<1>1. Len(cs) \in Nat /\ DOMAIN cs = 1..Len(cs) /\ cs \in [1..Len(cs) -> Calls] OBVIOUS
<1>2. CallsOf(cs) \in SUBSET Calls BY <1>1 DEF CallsOf
<1>3. cs \in [1..Len(cs) -> CallsOf(cs)] BY <1>1 DEF CallsOf
<1>4. cs \in Bijection(1..Len(cs), CallsOf(cs))
  BY <1>1, <1>3 DEF Bijection, Injection, Surjection, IsInjective, CallsOf
<1>5. Cardinality(CallsOf(cs)) = Len(cs)
  BY <1>1, <1>4, FS_CountingElements DEF ExistsBijection
<1> QED BY <1>2, <1>5, CallsFinite

(* Calls that start, each with one id more.                                *)
LEMMA SendsCounted ==
  ASSUME Calling, Counted, NEW cs \in Seq(Calls), NEW step, NEW v,
         Sends(callbacks, cs, step, v),
         \A i, j \in 1..Len(cs) : cs[i] = cs[j] => i = j,
         \A i \in 1..Len(cs) : cs[i] \notin Started,
         Started \cup CallsOf(cs) \subseteq Started'
  PROVE  Counted'
<1> DEFINE n == Len(cs)
<1>1. n \in Nat /\ counter \in Nat /\ counter' = counter + n
  BY DEF Calling, Shape, Sends
<1>2. /\ CallsOf(cs) \in SUBSET Calls /\ Cardinality(CallsOf(cs)) = n
  BY CallsOfCount
<1>3. /\ Started \in SUBSET Calls /\ Started' \in SUBSET Calls
      /\ Pending \in SUBSET Calls /\ Pending' \in SUBSET Calls
  BY DEF Started, Pending
<1>4. Pending' \subseteq Pending \cup CallsOf(cs)
  <2>1. \A b \in callbacks' : b \in callbacks \/ b.call \in CallsOf(cs)
    BY DEF Sends, CallsOf
  <2> QED BY <2>1 DEF Pending
<1>5. Started \cap CallsOf(cs) = {} BY DEF CallsOf
<1> HIDE DEF n
<1>6. Cardinality(Started \cup CallsOf(cs)) = Cardinality(Started) + n
  <2>1. IsFiniteSet(Started) /\ IsFiniteSet(CallsOf(cs)) BY <1>2, <1>3, CallsFinite
  <2>2. Cardinality(Started \cup CallsOf(cs)) = Cardinality(Started) + Cardinality(CallsOf(cs))
    BY <1>5, <2>1, UnionCount
  <2> QED BY <1>2, <2>2
<1>7. Cardinality(Started \cup CallsOf(cs)) <= Cardinality(Started')
  BY <1>3, CallsFinite, FS_Subset
<1>8. Cardinality(Pending \cup CallsOf(cs)) <= Cardinality(Pending) + n
  <2>1. IsFiniteSet(Pending) /\ IsFiniteSet(CallsOf(cs)) BY <1>2, <1>3, CallsFinite
  <2>2. Cardinality(Pending \cup CallsOf(cs)) <= Cardinality(Pending) + Cardinality(CallsOf(cs))
    BY <2>1, UnionCount
  <2> QED BY <1>2, <2>2
<1>9. Cardinality(Pending') <= Cardinality(Pending \cup CallsOf(cs))
  <2>1. Pending \cup CallsOf(cs) \in SUBSET Calls BY <1>2, <1>3
  <2>2. IsFiniteSet(Pending \cup CallsOf(cs)) BY <2>1, CallsFinite
  <2> QED BY <1>4, <2>2, FS_Subset
<1>10. /\ Cardinality(Started) \in Nat /\ Cardinality(Started') \in Nat
       /\ Cardinality(Pending) \in Nat /\ Cardinality(Pending') \in Nat
  BY <1>3, CallsFinite
<1>11. counter + Cardinality(Pending) <= 2 * Cardinality(Started) BY DEF Counted
<1>12. Cardinality(Pending \cup CallsOf(cs)) \in Nat /\ Cardinality(Started \cup CallsOf(cs)) \in Nat
  BY <1>2, <1>3, CallsFinite
<1>13. counter' + Cardinality(Pending') <= 2 * Cardinality(Started')
  BY <1>1, <1>6, <1>7, <1>8, <1>9, <1>10, <1>11, <1>12
<1> QED BY <1>13 DEF Counted

(* Where no id is taken and nobody leaves the set of those who started.    *)
LEMMA SameCounted ==
  ASSUME Calling, Counted, counter' = counter, callbacks' \subseteq callbacks,
         Started' = Started
  PROVE  Counted'
<1>1. Pending \in SUBSET Calls /\ Pending' \in SUBSET Calls /\ Pending' \subseteq Pending
  BY DEF Pending
<1>2. Started \in SUBSET Calls BY DEF Started
<1>3. Cardinality(Pending') <= Cardinality(Pending) BY <1>1, CallsFinite, FS_Subset
<1>4. /\ Cardinality(Pending) \in Nat /\ Cardinality(Pending') \in Nat
      /\ Cardinality(Started) \in Nat /\ counter \in Nat
  BY <1>1, <1>2, CallsFinite DEF Calling, Shape
<1> HIDE DEF Counted
<1>5. counter + Cardinality(Pending) <= 2 * Cardinality(Started) BY DEF Counted
<1>6. counter' + Cardinality(Pending') <= 2 * Cardinality(Started') BY <1>3, <1>4, <1>5
<1> QED BY <1>6 DEF Counted

LEMMA GoesCounted ==
  ASSUME Calling, Counted, NEW b \in callbacks, NEW m \in answers, Goes(b, m),
         Started' = Started
  PROVE  Counted'
<1>1. /\ Shape /\ OneCallback /\ b.step = "version"
      /\ Sends(Others(b), <<b.call>>, "request", Known(m))
  BY DEF Calling, Goes
<1>2. counter \in Nat /\ counter' = counter + 1 /\ b.call \in Calls BY <1>1 DEF Sends, Shape
<1>3. Pending \in SUBSET Calls /\ Pending' \in SUBSET Calls /\ Started \in SUBSET Calls
  BY DEF Pending, Started
<1>4. b.call \in Pending BY <1>1, <1>2 DEF Pending
<1>5. Pending' \subseteq Pending \ {b.call}
  <2>1. \A d \in callbacks' : d.step = "version" => d \in Others(b)
    <3>1. ASSUME NEW d \in callbacks', d \notin Others(b) PROVE d.step = "request"
      <4>1. PICK i \in 1..Len(<<b.call>>) :
              d = [id |-> counter + i, call |-> <<b.call>>[i], step |-> "request"]
        BY <1>1, <3>1 DEF Sends
      <4> QED BY <4>1
    <3> QED BY <3>1
  <2>2. \A d \in Others(b) : d \in callbacks /\ d.call # b.call
    BY <1>1 DEF Others, OneCallback
  <2> QED BY <2>1, <2>2 DEF Pending
<1>6. IsFiniteSet(Pending) /\ Cardinality(Pending) \in Nat /\ Cardinality(Pending') \in Nat
  BY <1>3, CallsFinite
<1>7. IsFiniteSet(Pending \ {b.call}) /\ Cardinality(Pending \ {b.call}) = Cardinality(Pending) - 1
  BY <1>4, <1>6, FS_RemoveElement
<1>8. Cardinality(Pending') <= Cardinality(Pending) - 1
  BY <1>5, <1>7, FS_Subset
<1>9. Cardinality(Started) \in Nat BY <1>3, CallsFinite
<1>10. counter + Cardinality(Pending) <= 2 * Cardinality(Started) BY DEF Counted
<1>11. counter' + Cardinality(Pending') <= 2 * Cardinality(Started')
  BY <1>2, <1>6, <1>8, <1>9, <1>10
<1> QED BY <1>11 DEF Counted
LEMMA CallCounted ==
  ASSUME Calling, Counted, NEW c \in Calls, NEW k \in Kinds, Call(c, k) PROVE Counted'
<1>0. Shape BY DEF Calling
<1>1. kind[c] = None /\ kind' = [kind EXCEPT ![c] = k] /\ k # None
  BY ConstantsAssumption DEF Call
<1>2. kind'[c] # None /\ \A d \in Calls : d # c => kind'[d] = kind[d]
  BY <1>0, <1>1 DEF Shape
<1>3. CASE port = None
  <2>1. waiting' = Append(waiting, c) /\ counter' = counter /\ callbacks' = callbacks
    BY <1>3 DEF Call, GetPort, io
  <2>2. /\ DOMAIN waiting = 1..Len(waiting) /\ DOMAIN waiting' = 1..(Len(waiting) + 1)
        /\ Len(waiting) \in Nat
        /\ \A i \in 1..Len(waiting) : waiting'[i] = waiting[i]
        /\ waiting'[Len(waiting) + 1] = c
    BY <1>0, <2>1 DEF Shape
  <2>3. /\ \A i \in DOMAIN waiting : i \in DOMAIN waiting' /\ waiting'[i] = waiting[i]
        /\ \A i \in DOMAIN waiting' :
             (i \in DOMAIN waiting /\ waiting'[i] = waiting[i]) \/ waiting'[i] = c
        /\ \E i \in DOMAIN waiting' : waiting'[i] = c
    BY <2>2
  <2>4. \A d \in Calls : d \in Started' <=> d \in Started
    BY <1>1, <1>2, <2>3 DEF Started
  <2>5. Started' = Started BY <2>4 DEF Started
  <2> QED BY <2>1, <2>5, SameCounted
<1>4. CASE port # None
  <2>1. Sends(callbacks, <<c>>, IF version = None THEN "version" ELSE "request",
              IF version = None THEN 0 ELSE version)
    BY <1>0, <1>4, CallSends
  <2>2. waiting' = waiting BY <1>4 DEF Call
  <2>3. <<c>> \in Seq(Calls) /\ \A i \in 1..Len(<<c>>) : i = 1 /\ <<c>>[i] = c OBVIOUS
  <2>4. \A i \in DOMAIN waiting : waiting[i] # c BY <1>1 DEF Calling, Queued
  <2>5. c \notin Started /\ c \in Started' BY <1>1, <1>2, <2>2, <2>4 DEF Started
  <2>6. \A d \in Started : d \in Started' BY <1>2, <2>2, <2>5 DEF Started
  <2>7. Started \cup CallsOf(<<c>>) \subseteq Started' BY <2>3, <2>5, <2>6 DEF CallsOf
  <2>8. \A i, j \in 1..Len(<<c>>) : <<c>>[i] = <<c>>[j] => i = j BY <2>3
  <2>9. \A i \in 1..Len(<<c>>) : <<c>>[i] \notin Started BY <2>3, <2>5
  <2> QED BY <2>1, <2>3, <2>7, <2>8, <2>9, SendsCounted
<1> QED BY <1>3, <1>4

LEMMA DrainCounted == ASSUME Calling, Counted, NEW p \in Ports, Drain(p) PROVE Counted'
<1>0. Shape /\ Queued BY DEF Calling
<1>1. /\ Sends(callbacks, Called, IF Mobile(p) THEN "request" ELSE "version",
               IF Mobile(p) THEN 1 ELSE 0)
      /\ waiting' = SubSeq(waiting, Len(Called) + 1, Len(waiting))
      /\ kind' = kind
  BY <1>0, DrainSends
<1>2. /\ Called \in Seq(Calls) /\ Len(Called) <= Len(waiting) /\ Len(Called) \in Nat
      /\ waiting \in Seq(Calls) /\ Len(waiting) \in Nat /\ DOMAIN waiting = 1..Len(waiting)
      /\ \A i \in 1..Len(Called) : Called[i] = waiting[i]
      /\ DOMAIN waiting' = 1..(Len(waiting) - Len(Called))
      /\ \A i \in 1..(Len(waiting) - Len(Called)) : waiting'[i] = waiting[Len(Called) + i]
  BY <1>0, <1>1, QueueSplit DEF Shape
<1>3. \A i \in 1..Len(Called) :
        i \in DOMAIN waiting /\ Called[i] = waiting[i] /\ Called[i] \in Calls
  BY <1>2
<1>4. \A i \in DOMAIN waiting' :
        /\ Len(Called) + i \in DOMAIN waiting /\ waiting'[i] = waiting[Len(Called) + i]
        /\ \A j \in 1..Len(Called) : j # Len(Called) + i
  BY <1>2
<1>5. \A i, j \in 1..Len(Called) : Called[i] = Called[j] => i = j BY <1>0, <1>3 DEF Queued
<1>6. \A i \in 1..Len(Called) : Called[i] \notin Started BY <1>3 DEF Started
<1>7. \A i \in 1..Len(Called), j \in DOMAIN waiting' : waiting'[j] # Called[i]
  BY <1>0, <1>3, <1>4 DEF Queued
<1>8. \A d \in Started : d \in Started' BY <1>1, <1>4 DEF Started
<1>9. \A i \in 1..Len(Called) : Called[i] \in Started'
  BY <1>0, <1>1, <1>3, <1>7 DEF Queued, Started
<1>10. Started \cup CallsOf(Called) \subseteq Started' BY <1>8, <1>9 DEF CallsOf
<1> QED BY <1>1, <1>2, <1>5, <1>6, <1>10, SendsCounted

LEMMA StepCounted == Calling /\ Counted /\ [Next]_vars => Counted'
<1> SUFFICES ASSUME Calling, Counted, [Next]_vars PROVE Counted'
  OBVIOUS
<1>1. ASSUME NEW c \in Calls, NEW k \in Kinds, Call(c, k) PROVE Counted'
  BY <1>1, CallCounted
<1>2. CASE UNCHANGED <<counter, callbacks, kind, waiting>>
  BY <1>2, SameCounted DEF Started
<1>3. CASE Probe \/ Disconnect BY <1>2, <1>3 DEF Probe, Disconnect, io
<1>4. CASE TimerFires BY <1>4, DrainCounted DEF TimerFires, Ports
<1>5. CASE FrameReady BY <1>5, DrainCounted DEF FrameReady, Ports
<1>6. ASSUME NEW id \in Ids, Answer(id) PROVE Counted'
  BY <1>2, <1>6, AnswerCases DEF AnswerOf
<1>7. ASSUME NEW id \in Ids, Receive(id) PROVE Counted'
  <2>1. kind' = kind /\ waiting' = waiting BY <1>7, ReceiveCases
  <2>2. Started' = Started BY <2>1 DEF Started
  <2>3. CASE Drops BY <2>2, <2>3, SameCounted DEF Drops
  <2>4. ASSUME NEW b \in callbacks, NEW m \in answers, Goes(b, m) PROVE Counted'
    BY <2>2, <2>4, GoesCounted
  <2>5. ASSUME NEW b \in callbacks, CallsBack(b) PROVE Counted'
    BY <2>2, <2>5, SameCounted DEF CallsBack, Others
  <2> QED BY <1>7, <2>3, <2>4, <2>5, ReceiveCases
<1>8. CASE UNCHANGED vars BY <1>2, <1>8 DEF vars
<1> QED BY <1>1, <1>3, <1>4, <1>5, <1>6, <1>7, <1>8 DEF Next

(* The types of the module: no more calls wait for the port than are made, *)
(* and reqCounter_ never passes twice their number, so that the ids of     *)
(* requests, callbacks and answers never do.                               *)
THEOREM TypeCorrect == Spec => []TypeOK
<1>1. Init => Counted
  <2> SUFFICES ASSUME Init PROVE Counted
    OBVIOUS
  <2>1. counter = 0 /\ Pending = {} BY DEF Init, Pending
  <2>2. Started = {} BY DEF Init, Started
  <2> QED BY <2>1, <2>2, FS_EmptySet DEF Counted
<1>2. ASSUME Calling, Counted PROVE TypeOK
  <2>1. Shape /\ Queued BY <1>2 DEF Calling
  <2>2. Pending \in SUBSET Calls /\ Started \in SUBSET Calls BY DEF Pending, Started
  <2>3. /\ Cardinality(Pending) \in Nat /\ Cardinality(Started) \in Nat
        /\ Cardinality(Started) <= Cardinality(Calls) /\ Cardinality(Calls) \in Nat
    BY <2>2, CallsFinite
  <2>4. counter \in Nat /\ counter <= 2 * Cardinality(Calls)
    BY <1>2, <2>1, <2>3 DEF Counted, Shape
  <2>5. counter \in Ids /\ 1..counter \subseteq Ids BY <2>3, <2>4 DEF Ids
  <2>6. waiting \in Seq(Calls) /\ DOMAIN waiting = 1..Len(waiting) BY <2>1 DEF Shape
  <2>7. Len(waiting) <= Cardinality(Calls) BY <2>1, <2>6, CallsOfCount DEF Queued
  <2> QED BY <2>1, <2>5, <2>7 DEF TypeOK, Shape, Callback, Request, Message
<1> QED BY <1>1, <1>2, StepCounted, AlwaysCalling, PTL DEF Spec
=============================================================================
