------------------------------ MODULE Ceval_proofs ------------------------------
(***************************************************************************)
(* Proofs about Python/ceval.c: the ring of pending calls, for any number  *)
(* of slots, registrars and calls, and the interpreter loop, for any code; *)
(* and about the table of line numbers that goes with the code.            *)
(*                                                                         *)
(* Of the ring, IInv adds to the safety properties what makes them         *)
(* inductive: the order in which registrars nest, what a registrar knows   *)
(* of the slot it writes, what the main thread knows of the slot it reads, *)
(* and where the main thread is while makebusy is set.  The ring           *)
(* implements CallQueue.                                                   *)
(*                                                                         *)
(* Of the loop: a frame gives back the exception it found, and its stacks  *)
(* fit for ever if its code has a stack map.                               *)
(*                                                                         *)
(* Of the table: LineInv says where each of its pairs goes on from and     *)
(* that the code up to the next has that line.                             *)
(***************************************************************************)
EXTENDS PendingCalls, EvalLoop, LineTable, SequenceTheorems, WellFoundedInduction, TLAPS

(* Registrars nest: those in progress are those of nest, each once.  When  *)
(* one is in the critical section, "busy" is set and every registrar that  *)
(* came on top of it has yet to test "busy".                               *)
NestInv ==
  /\ ~Parallel
  /\ \A a \in 1 .. Len(nest) : at[nest[a]] # "idle"
  /\ \A r \in Registrars : at[r] # "idle" => \E a \in 1 .. Len(nest) : nest[a] = r
  /\ \A a, b \in 1 .. Len(nest) : nest[a] = nest[b] => a = b
  /\ \A a \in 1 .. Len(nest) : at[nest[a]] \in Critical =>
       /\ addbusy = 1
       /\ \A b \in a + 1 .. Len(nest) : at[nest[b]] = "test"

(* A registrar in progress has a call. *)
CallInv == \A r \in Registrars : at[r] # "idle" => call[r] \in Calls

(* What a registrar in the critical section knows. *)
RegistrarInv ==
  \A r \in Registrars :
    /\ at[r] # "idle" => call[r] \in Calls
    /\ at[r] \in {"first", "func", "arg", "publish"} => i[r] = pendinglast
    /\ at[r] \in {"func", "arg", "publish"} => Next_(i[r]) # pendingfirst
    /\ at[r] \in {"arg", "publish"} => pendingcalls[i[r]].func = call[r]
    /\ at[r] = "publish" => pendingcalls[i[r]].arg = call[r]

(* What the main thread knows of the slot it takes. *)
TakeInv ==
  /\ main \in {"func", "arg", "advance"} => pendingfirst # pendinglast
  /\ main \in {"arg", "advance"} => current.func = pendingcalls[pendingfirst].func
  /\ main = "advance" => current.arg = pendingcalls[pendingfirst].arg

(* Where the main thread is while makebusy is set. *)
BusyInv ==
  /\ main \in {"loop", "make"} => running = makebusy
  /\ main \in {"setbusy", "again"} => running = 0 /\ makebusy = 0
  /\ main \in {"clear", "fetch", "func", "arg", "advance", "done", "fail"}
       => running = 0 /\ makebusy = 1

IInv == TypeOK /\ NestInv /\ RegistrarInv /\ TakeInv /\ BusyInv
        /\ NothingLost /\ NoLostWakeup

-----------------------------------------------------------------------------
(* Advancing an index of the ring stays within it. *)
LEMMA NextSlot ==
  ASSUME NEW k \in Slots
  PROVE  /\ Next_(k) \in Slots
         /\ Next_(k) = IF k + 1 = NPENDINGCALLS THEN 0 ELSE k + 1
<1>1. CASE k + 1 = NPENDINGCALLS
  BY <1>1, PendingAssumption DEF Slots, Next_
<1>2. CASE k + 1 # NPENDINGCALLS
  BY <1>2, PendingAssumption DEF Slots, Next_
<1>3. QED BY <1>1, <1>2

(* The used slots are within the ring, and the one past them is the slot   *)
(* that the next registration writes.                                      *)
LEMMA UsedSlots ==
  ASSUME TypeOK
  PROVE  /\ Used \in 0 .. NPENDINGCALLS - 1
         /\ \A k \in 0 .. Used : SlotOf(k) \in Slots
         /\ SlotOf(Used) = pendinglast
         /\ \A k \in 0 .. Used - 1 : SlotOf(k) # pendinglast
         /\ SlotOf(0) = pendingfirst
         /\ Used = 0 <=> pendingfirst = pendinglast
BY PendingAssumption DEF TypeOK, Slots, Used, SlotOf

LEMMA TypeCorrect == ASSUME TypeOK, CallInv, [Next]_vars PROVE TypeOK'
<1> USE PendingAssumption DEF TypeOK
<1>1. \A k \in Slots : Next_(k) \in Slots
  BY NextSlot
<1>2. ASSUME NEW r \in Registrars, NEW c \in Calls, Start(r, c) PROVE TypeOK'
  BY <1>2 DEF Start, Points, queueVars, mainVars
<1>3. ASSUME NEW r \in Registrars, Register(r) PROVE TypeOK'
  <2> USE DEF Goto, MayGoOn, Points, Critical, queueVars, mainVars
  <2>0. nest # <<>> => SubSeq(nest, 1, Len(nest) - 1) \in Seq(Registrars)
    OBVIOUS
  <2>1. CASE TestBusy(r) BY <2>1, <2>0 DEF TestBusy, Return
  <2>2. CASE SetBusy(r) BY <2>2 DEF SetBusy
  <2>3. CASE ReadLast(r) BY <2>3 DEF ReadLast
  <2>4. CASE TestFull(r) BY <2>4, <2>0 DEF TestFull, Return
  <2>5. CASE WriteFunc(r)
    <3>1. call[r] \in Calls \cup {NoCall} /\ at' \in [Registrars -> Points]
      BY <2>5 DEF WriteFunc
    <3>2. pendingcalls' = [pendingcalls EXCEPT ![i[r]].func = call[r]]
      BY <2>5 DEF WriteFunc
    <3>3. i[r] \in Slots => [pendingcalls[i[r]] EXCEPT !.func = call[r]]
                              \in [func : Calls \cup {NoCall}, arg : Calls \cup {NoCall}]
      BY <3>1
    <3>4. pendingcalls' \in [Slots -> [func : Calls \cup {NoCall}, arg : Calls \cup {NoCall}]]
      BY <3>2, <3>3
    <3>5. QED BY <2>5, <3>1, <3>4 DEF WriteFunc
  <2>6. CASE WriteArg(r)
    <3>1. call[r] \in Calls \cup {NoCall} /\ at' \in [Registrars -> Points]
      BY <2>6 DEF WriteArg
    <3>2. pendingcalls' = [pendingcalls EXCEPT ![i[r]].arg = call[r]]
      BY <2>6 DEF WriteArg
    <3>3. i[r] \in Slots => [pendingcalls[i[r]] EXCEPT !.arg = call[r]]
                              \in [func : Calls \cup {NoCall}, arg : Calls \cup {NoCall}]
      BY <3>1
    <3>4. pendingcalls' \in [Slots -> [func : Calls \cup {NoCall}, arg : Calls \cup {NoCall}]]
      BY <3>2, <3>3
    <3>5. QED BY <2>6, <3>1, <3>4 DEF WriteArg
  <2>7. CASE Publish(r)
    <3>1. call[r] \in Calls
      BY <2>7 DEF Publish, MayGoOn, CallInv
    <3>2. QED BY <2>7, <3>1, <1>1 DEF Publish
  <2>8. CASE SignalLoop(r) BY <2>8 DEF SignalLoop
  <2>9. CASE Release(r) BY <2>9, <2>0 DEF Release, Return
  <2>10. QED
    BY <1>3, <2>1, <2>2, <2>3, <2>4, <2>5, <2>6, <2>7, <2>8, <2>9 DEF Register
<1>4. CASE CheckThings \/ MakePendingCalls \/ CallReturns
  <2> USE DEF MainGoto, MainPoints, queueVars, asyncVars, regVars
  <2>1. CASE CheckThings BY <2>1 DEF CheckThings
  <2>2. CASE TestMakeBusy BY <2>2 DEF TestMakeBusy
  <2>3. CASE SetMakeBusy BY <2>3 DEF SetMakeBusy
  <2>4. CASE ClearThings BY <2>4 DEF ClearThings
  <2>5. CASE Fetch BY <2>5 DEF Fetch
  <2>6. CASE ReadFunc BY <2>6 DEF ReadFunc
  <2>7. CASE ReadArg BY <2>7 DEF ReadArg
  <2>8. CASE Advance BY <2>8, <1>1 DEF Advance
  <2>9. CASE ClearMakeBusy BY <2>9 DEF ClearMakeBusy
  <2>10. CASE SetAgain BY <2>10 DEF SetAgain
  <2>11. CASE CallReturns BY <2>11 DEF CallReturns
  <2>12. QED
    BY <1>4, <2>1, <2>2, <2>3, <2>4, <2>5, <2>6, <2>7, <2>8, <2>9, <2>10, <2>11
    DEF MakePendingCalls
<1>5. CASE UNCHANGED vars
  BY <1>5 DEF vars, queueVars, regVars, mainVars
<1>6. QED BY <1>2, <1>3, <1>4, <1>5 DEF Next

(* Shrinking nest by its last element. *)
LEMMA Pop ==
  ASSUME nest \in Seq(Registrars), nest # <<>>,
         nest' = SubSeq(nest, 1, Len(nest) - 1)
  PROVE  /\ Len(nest) \in Nat /\ Len(nest) > 0
         /\ Len(nest') = Len(nest) - 1
         /\ \A a \in 1 .. Len(nest') : nest'[a] = nest[a]
<1> DEFINE L == Len(nest)
<1>1. L \in Nat /\ L > 0
  OBVIOUS
<1>2. \A a \in 1 .. L - 1 : nest[a] \in Registrars
  BY <1>1
<1>3. /\ Len(SubSeq(nest, 1, L - 1)) = IF 1 <= L - 1 THEN (L - 1) - 1 + 1 ELSE 0
      /\ \A a \in 1 .. (L - 1) - 1 + 1 :
           SubSeq(nest, 1, L - 1)[a] = nest[1 + a - 1]
  <2> DEFINE m == 1
             n == L - 1
  <2>1. m \in Int /\ n \in Int /\ \A a \in m .. n : nest[a] \in Registrars
    BY <1>1, <1>2
  <2> HIDE DEF m, n
  <2>2. /\ Len(SubSeq(nest, m, n)) = IF m <= n THEN n - m + 1 ELSE 0
        /\ \A a \in 1 .. n - m + 1 : SubSeq(nest, m, n)[a] = nest[m + a - 1]
    BY <2>1, SubSeqProperties
  <2>3. QED BY <2>2 DEF m, n
<1>4. nest' = SubSeq(nest, 1, L - 1)
  OBVIOUS
<1> HIDE DEF L
<1>5. Len(nest') = L - 1
  BY <1>1, <1>3, <1>4
<1>6. \A a \in 1 .. L - 1 : nest'[a] = nest[a]
  <2>1. SUFFICES ASSUME NEW a \in 1 .. L - 1 PROVE SubSeq(nest, 1, L - 1)[a] = nest[a]
    BY <1>4
  <2>2. a \in 1 .. (L - 1) - 1 + 1 /\ 1 + a - 1 = a
    BY <1>1
  <2>3. QED BY <1>3, <2>2
<1>7. QED BY <1>1, <1>5, <1>6 DEF L

LEMMA Nesting == ASSUME TypeOK, NestInv, [Next]_vars PROVE NestInv'
<1> USE DEF TypeOK
<1>1. ASSUME NEW r \in Registrars, NEW c \in Calls, Start(r, c) PROVE NestInv'
  <2>1. /\ nest' = Append(nest, r) /\ Len(nest') = Len(nest) + 1
        /\ \A a \in 1 .. Len(nest) : nest'[a] = nest[a]
        /\ nest'[Len(nest) + 1] = r /\ Len(nest) \in Nat
    <3>1. nest' = Append(nest, r)
      BY <1>1 DEF Start, NestInv
    <3>2. QED BY <3>1
  <2>2. /\ at[r] = "idle" /\ at' = [at EXCEPT ![r] = "test"]
        /\ addbusy' = addbusy
    BY <1>1 DEF Start
  <2>3. \A a \in 1 .. Len(nest) : nest[a] # r /\ nest[a] \in Registrars
    BY <2>2 DEF NestInv
  <2>4. "test" \notin Critical /\ "test" # "idle"
    BY DEF Critical
  <2>5. ASSUME NEW a \in 1 .. Len(nest')
        PROVE  at'[nest'[a]] # "idle"
    <3>1. CASE a = Len(nest) + 1
      BY <2>1, <2>2, <2>4, <3>1
    <3>2. CASE a \in 1 .. Len(nest)
      BY <2>1, <2>2, <2>3, <3>2 DEF NestInv
    <3>3. QED BY <2>1, <3>1, <3>2
  <2>6. ASSUME NEW s \in Registrars, at'[s] # "idle"
        PROVE  \E a \in 1 .. Len(nest') : nest'[a] = s
    <3>1. CASE s = r
      <4>1. Len(nest) + 1 \in 1 .. Len(nest') /\ nest'[Len(nest) + 1] = s
        BY <2>1, <3>1
      <4>2. QED BY <4>1
    <3>2. CASE s # r
      <4>1. PICK a \in 1 .. Len(nest) : nest[a] = s
        BY <2>2, <2>6, <3>2 DEF NestInv
      <4>2. a \in 1 .. Len(nest') /\ nest'[a] = s
        BY <2>1, <4>1
      <4>3. QED BY <4>2
    <3>3. QED BY <3>1, <3>2
  <2>7. \A a, b \in 1 .. Len(nest') : nest'[a] = nest'[b] => a = b
    BY <2>1, <2>3 DEF NestInv
  <2>8. ASSUME NEW a \in 1 .. Len(nest'), at'[nest'[a]] \in Critical
        PROVE  addbusy' = 1 /\ \A b \in a + 1 .. Len(nest') : at'[nest'[b]] = "test"
    <3>1. a \in 1 .. Len(nest) /\ at[nest[a]] \in Critical
      BY <2>1, <2>2, <2>3, <2>4, <2>8
    <3>2. addbusy = 1 /\ \A b \in a + 1 .. Len(nest) : at[nest[b]] = "test"
      BY <3>1 DEF NestInv
    <3>3. addbusy' = 1 /\ Len(nest') = Len(nest) + 1
      BY <2>1, <2>2, <3>2
    <3>4. ASSUME NEW b \in a + 1 .. Len(nest) PROVE at'[nest'[b]] = "test"
      <4>1. b \in 1 .. Len(nest)
        BY <3>1
      <4>2. QED BY <2>1, <2>2, <2>3, <3>2, <4>1
    <3>5. at'[nest'[Len(nest) + 1]] = "test"
      BY <2>1, <2>2
    <3>6. \A b \in a + 1 .. Len(nest') : b \in a + 1 .. Len(nest) \/ b = Len(nest) + 1
      <4> HIDE DEF TypeOK
      <4>1. Len(nest) \in Nat /\ Len(nest') = Len(nest) + 1 /\ a \in Nat
        BY <2>1, <3>1
      <4>2. QED BY <4>1
    <3> HIDE DEF TypeOK
    <3>7. QED BY <3>3, <3>4, <3>5, <3>6
  <2>9. QED BY <2>5, <2>6, <2>7, <2>8 DEF NestInv
<1>2. ASSUME NEW r \in Registrars, Register(r) PROVE NestInv'
  <2>1. /\ nest # <<>> /\ nest[Len(nest)] = r /\ at[r] # "idle"
        /\ Len(nest) \in 1 .. Len(nest)
    <3>1. ~Parallel
      BY DEF NestInv
    <3>2. QED BY <1>2, <3>1 DEF Register, TestBusy, SetBusy, ReadLast, TestFull, WriteFunc,
                WriteArg, Publish, SignalLoop, Release, MayGoOn
  <2>2. \A a \in 1 .. Len(nest) : a # Len(nest) => nest[a] # r
    BY <2>1 DEF NestInv
  (* The innermost registrar returns. *)
  <2>3. ASSUME Return(r),
               addbusy' = addbusy \/ at[r] \in Critical
        PROVE  NestInv'
    <3>1. /\ Len(nest) \in Nat /\ Len(nest) > 0
          /\ Len(nest') = Len(nest) - 1
          /\ \A a \in 1 .. Len(nest') : nest'[a] = nest[a]
      <4>1. nest' = SubSeq(nest, 1, Len(nest) - 1)
        BY <2>3 DEF Return, NestInv
      <4>2. QED BY <2>1, <4>1, Pop
    <3>2. at' = [at EXCEPT ![r] = "idle"]
      BY <2>3 DEF Return
    <3>3. \A a \in 1 .. Len(nest') :
            /\ a \in 1 .. Len(nest) /\ a # Len(nest)
            /\ nest'[a] = nest[a] /\ nest[a] \in Registrars
            /\ at'[nest'[a]] = at[nest[a]]
      BY <2>2, <3>1, <3>2
    <3>4. \A a \in 1 .. Len(nest') : at'[nest'[a]] # "idle"
      BY <3>3 DEF NestInv
    <3>5. ASSUME NEW s \in Registrars, at'[s] # "idle"
          PROVE  \E a \in 1 .. Len(nest') : nest'[a] = s
      <4>1. s # r /\ at[s] # "idle"
        BY <3>2, <3>5
      <4>2. PICK a \in 1 .. Len(nest) : nest[a] = s
        BY <4>1 DEF NestInv
      <4>3. a # Len(nest)
        BY <2>1, <4>1, <4>2
      <4>4. a \in 1 .. Len(nest') /\ nest'[a] = s
        BY <3>1, <4>2, <4>3
      <4>5. QED BY <4>4
    <3>6. \A a, b \in 1 .. Len(nest') : nest'[a] = nest'[b] => a = b
      BY <3>3 DEF NestInv
    <3>7. ASSUME NEW a \in 1 .. Len(nest'), at'[nest'[a]] \in Critical
          PROVE  addbusy' = 1 /\ \A b \in a + 1 .. Len(nest') : at'[nest'[b]] = "test"
      <4>1. a \in 1 .. Len(nest) /\ a # Len(nest) /\ at[nest[a]] \in Critical
        BY <3>3, <3>7
      <4>2. addbusy = 1 /\ \A b \in a + 1 .. Len(nest) : at[nest[b]] = "test"
        BY <4>1 DEF NestInv
      <4>3. Len(nest) \in a + 1 .. Len(nest)
        BY <3>1, <4>1
      <4>4. at[r] = "test"
        BY <2>1, <4>2, <4>3
      <4>5. addbusy' = 1
        BY <2>3, <4>2, <4>4 DEF Critical
      <4>6. \A b \in a + 1 .. Len(nest') : at'[nest'[b]] = "test"
        BY <3>1, <3>3, <4>1, <4>2
      <4>7. QED BY <4>5, <4>6
    <3>8. QED BY <3>4, <3>5, <3>6, <3>7 DEF NestInv
  (* The innermost registrar goes on to point p. *)
  <2>4. ASSUME NEW p \in Points \ {"idle"}, Goto(r, p),
               \/ at[r] = "test" /\ addbusy = 0 /\ p = "set"
               \/ at[r] = "set" /\ addbusy' = 1
               \/ at[r] \in Critical /\ addbusy' = addbusy
        PROVE  NestInv'
    <3>1. nest' = nest /\ at' = [at EXCEPT ![r] = p]
      BY <2>4 DEF Goto
    <3>2. \A a \in 1 .. Len(nest) :
            /\ nest[a] \in Registrars
            /\ a # Len(nest) => at'[nest[a]] = at[nest[a]]
      BY <2>2, <3>1
    <3>3. at'[r] = p
      BY <3>1
    <3>4. \A a \in 1 .. Len(nest') : at'[nest'[a]] # "idle"
      BY <2>1, <2>4, <3>1, <3>2, <3>3 DEF NestInv
    <3>5. \A s \in Registrars : at'[s] # "idle" => at[s] # "idle"
      BY <2>1, <3>1
    <3>6. ASSUME NEW a \in 1 .. Len(nest), a # Len(nest)
          PROVE  at[nest[a]] \notin Critical \/ (at[r] = "test" /\ addbusy # 0)
      <4>1. SUFFICES ASSUME at[nest[a]] \in Critical
                     PROVE  at[r] = "test" /\ addbusy # 0
        OBVIOUS
      <4>2. addbusy = 1 /\ \A b \in a + 1 .. Len(nest) : at[nest[b]] = "test"
        BY <4>1 DEF NestInv
      <4>3. Len(nest) \in a + 1 .. Len(nest)
        BY <3>6
      <4>4. QED BY <2>1, <4>2, <4>3
    <3>7. ASSUME NEW a \in 1 .. Len(nest), at'[nest[a]] \in Critical
          PROVE  a = Len(nest)
      BY <2>4, <3>2, <3>6, <3>7 DEF Critical
    <3>8. at'[r] \in Critical => addbusy' = 1
      <4>1. at[r] \in Critical => addbusy = 1
        BY <2>1 DEF NestInv
      <4>2. QED BY <2>4, <3>3, <4>1 DEF Critical
    <3>9. ASSUME NEW a \in 1 .. Len(nest'), at'[nest'[a]] \in Critical
          PROVE  addbusy' = 1 /\ \A b \in a + 1 .. Len(nest') : at'[nest'[b]] = "test"
      <4>1. a = Len(nest)
        BY <3>1, <3>7, <3>9
      <4>2. addbusy' = 1
        BY <2>1, <3>1, <3>8, <3>9, <4>1
      <4>3. QED BY <3>1, <4>1, <4>2
    <3>10. QED BY <3>1, <3>4, <3>5, <3>9 DEF NestInv
  <2> USE DEF MayGoOn
  <2>5. CASE TestBusy(r) BY <2>3, <2>4, <2>5 DEF TestBusy, Points
  <2>6. CASE SetBusy(r) BY <2>4, <2>6 DEF SetBusy, Points, Critical
  <2>7. CASE ReadLast(r) BY <2>4, <2>7 DEF ReadLast, Points, Critical
  <2>8. CASE TestFull(r) BY <2>3, <2>4, <2>8 DEF TestFull, Points, Critical
  <2>9. CASE WriteFunc(r) BY <2>4, <2>9 DEF WriteFunc, Points, Critical
  <2>10. CASE WriteArg(r) BY <2>4, <2>10 DEF WriteArg, Points, Critical
  <2>11. CASE Publish(r) BY <2>4, <2>11 DEF Publish, Points, Critical
  <2>12. CASE SignalLoop(r) BY <2>4, <2>12 DEF SignalLoop, Points, Critical
  <2>13. CASE Release(r) BY <2>3, <2>13 DEF Release, Critical
  <2>14. QED
    BY <1>2, <2>5, <2>6, <2>7, <2>8, <2>9, <2>10, <2>11, <2>12, <2>13 DEF Register
<1>3. CASE CheckThings \/ MakePendingCalls \/ CallReturns
  <2>1. UNCHANGED <<nest, at, addbusy>>
    BY <1>3 DEF CheckThings, MakePendingCalls, TestMakeBusy, SetMakeBusy,
       ClearThings, Fetch, ReadFunc, ReadArg, Advance, ClearMakeBusy,
       SetAgain, CallReturns, asyncVars, regVars
  <2>2. QED BY <2>1 DEF NestInv
<1>4. CASE UNCHANGED vars
  BY <1>4 DEF vars, regVars, NestInv
<1>5. QED BY <1>1, <1>2, <1>3, <1>4 DEF Next

(* Two registrars cannot both be in the critical section. *)
LEMMA Exclusion == ASSUME TypeOK, NestInv PROVE OneRegistrarInside
<1> SUFFICES ASSUME NEW r \in Registrars, NEW s \in Registrars,
                    at[r] \in Critical, at[s] \in Critical, r # s
             PROVE  FALSE
  BY DEF OneRegistrarInside
<1>1. PICK a \in 1 .. Len(nest) : nest[a] = r
  BY DEF NestInv, Critical
<1>2. PICK b \in 1 .. Len(nest) : nest[b] = s
  BY DEF NestInv, Critical
<1>3. CASE a < b
  <2>1. b \in a + 1 .. Len(nest) BY <1>3
  <2>2. at[nest[b]] = "test" BY <1>1, <2>1 DEF NestInv
  <2>3. QED BY <1>2, <2>2 DEF Critical
<1>4. CASE b < a
  <2>1. a \in b + 1 .. Len(nest) BY <1>4
  <2>2. at[nest[a]] = "test" BY <1>2, <2>1 DEF NestInv
  <2>3. QED BY <1>1, <2>2 DEF Critical
<1>5. QED BY <1>1, <1>2, <1>3, <1>4

LEMMA MainBusy == ASSUME TypeOK, BusyInv, [Next]_vars PROVE BusyInv'
<1> USE DEF TypeOK, BusyInv, MainGoto
<1>1. CASE \E r \in Registrars : (\E c \in Calls : Start(r, c)) \/ Register(r)
  <2>1. UNCHANGED mainVars
    BY <1>1 DEF Start, Register, TestBusy, SetBusy, ReadLast, TestFull,
       WriteFunc, WriteArg, Publish, SignalLoop, Release
  <2>2. QED BY <2>1 DEF mainVars
<1>2. CASE CheckThings BY <1>2 DEF CheckThings
<1>3. CASE TestMakeBusy BY <1>3 DEF TestMakeBusy
<1>4. CASE SetMakeBusy BY <1>4 DEF SetMakeBusy
<1>5. CASE ClearThings BY <1>5 DEF ClearThings
<1>6. CASE Fetch BY <1>6 DEF Fetch
<1>7. CASE ReadFunc BY <1>7 DEF ReadFunc
<1>8. CASE ReadArg BY <1>8 DEF ReadArg
<1>9. CASE Advance BY <1>9 DEF Advance
<1>10. CASE ClearMakeBusy BY <1>10 DEF ClearMakeBusy
<1>11. CASE SetAgain BY <1>11 DEF SetAgain
<1>12. CASE CallReturns BY <1>12 DEF CallReturns
<1>13. CASE UNCHANGED vars BY <1>13 DEF vars, mainVars
<1>14. QED
  BY <1>1, <1>2, <1>3, <1>4, <1>5, <1>6, <1>7, <1>8, <1>9, <1>10, <1>11,
     <1>12, <1>13
  DEF Next, MakePendingCalls

LEMMA RegistrarKnows ==
  ASSUME IInv, OneRegistrarInside, [Next]_vars PROVE RegistrarInv'
<1> USE DEF IInv, TypeOK
<1>1. ASSUME NEW r \in Registrars, NEW c \in Calls, Start(r, c)
      PROVE  RegistrarInv'
  BY <1>1 DEF Start, RegistrarInv, queueVars
<1>2. ASSUME NEW r \in Registrars, Register(r) PROVE RegistrarInv'
  <2> SUFFICES ASSUME NEW s \in Registrars
               PROVE  /\ at'[s] # "idle" => call'[s] \in Calls
                      /\ at'[s] \in {"first", "func", "arg", "publish"} =>
                           i'[s] = pendinglast'
                      /\ at'[s] \in {"func", "arg", "publish"} =>
                           Next_(i'[s]) # pendingfirst'
                      /\ at'[s] \in {"arg", "publish"} =>
                           pendingcalls'[i'[s]].func = call'[s]
                      /\ at'[s] = "publish" => pendingcalls'[i'[s]].arg = call'[s]
    BY DEF RegistrarInv, Next_
  <2>0. at[r] \in Critical /\ at[s] \in Critical => r = s
    BY DEF OneRegistrarInside
  <2>1. CASE TestBusy(r)
    BY <2>1 DEF TestBusy, Goto, Return, MayGoOn, queueVars, RegistrarInv
  <2>2. CASE SetBusy(r)
    BY <2>2 DEF SetBusy, Goto, MayGoOn, queueVars, RegistrarInv
  <2>3. CASE ReadLast(r)
    BY <2>0, <2>3 DEF ReadLast, Goto, MayGoOn, queueVars, RegistrarInv, Critical
  <2>4. CASE TestFull(r)
    BY <2>4 DEF TestFull, Goto, Return, MayGoOn, queueVars, RegistrarInv
  <2>5. CASE WriteFunc(r)
    <3>1. pendingcalls'[i[r]] = [pendingcalls[i[r]] EXCEPT !.func = call[r]]
      BY <2>5 DEF WriteFunc
    <3>2. pendingcalls'[i[r]].func = call[r]
      BY <3>1
    <3>3. QED
      BY <2>0, <2>5, <3>2 DEF WriteFunc, Goto, MayGoOn, RegistrarInv, Critical
  <2>6. CASE WriteArg(r)
    BY <2>0, <2>6 DEF WriteArg, Goto, MayGoOn, RegistrarInv, Critical
  <2>7. CASE Publish(r)
    BY <2>0, <2>7 DEF Publish, Goto, MayGoOn, RegistrarInv, Critical
  <2>8. CASE SignalLoop(r)
    BY <2>8 DEF SignalLoop, Goto, MayGoOn, queueVars, RegistrarInv
  <2>9. CASE Release(r)
    BY <2>9 DEF Release, Return, MayGoOn, queueVars, RegistrarInv
  <2>10. QED
    BY <1>2, <2>1, <2>2, <2>3, <2>4, <2>5, <2>6, <2>7, <2>8, <2>9 DEF Register
<1>3. CASE Advance
  (* The ring is not empty, so the slot being written does not become the  *)
  (* last free one when the first one is given back.                       *)
  <2>1. /\ pendingfirst' = Next_(pendingfirst) /\ pendingfirst # pendinglast
        /\ UNCHANGED <<pendingcalls, pendinglast, at, call, i>>
    BY <1>3 DEF Advance, TakeInv, MainGoto, asyncVars, regVars
  <2>2. Next_(pendinglast) # Next_(pendingfirst)
    <3>1. \A k \in Slots : Next_(k) = IF k + 1 = NPENDINGCALLS THEN 0 ELSE k + 1
      BY NextSlot
    <3>2. /\ pendingfirst \in 0 .. NPENDINGCALLS - 1 /\ pendinglast \in 0 .. NPENDINGCALLS - 1
          /\ NPENDINGCALLS \in Nat
      BY PendingAssumption DEF Slots
    <3>3. /\ Next_(pendingfirst) = IF pendingfirst + 1 = NPENDINGCALLS THEN 0 ELSE pendingfirst + 1
          /\ Next_(pendinglast) = IF pendinglast + 1 = NPENDINGCALLS THEN 0 ELSE pendinglast + 1
      BY <3>1, <3>2 DEF Slots
    <3>4. QED BY <2>1, <3>2, <3>3
  <2>3. QED BY <2>1, <2>2 DEF RegistrarInv
<1>4. CASE CheckThings \/ CallReturns \/ (MakePendingCalls /\ ~Advance)
  <2>1. UNCHANGED <<pendingcalls, pendingfirst, pendinglast, at, call, i>>
    BY <1>4 DEF CheckThings, MakePendingCalls, TestMakeBusy, SetMakeBusy,
       ClearThings, Fetch, ReadFunc, ReadArg, ClearMakeBusy, SetAgain,
       CallReturns, asyncVars, regVars, queueVars
  <2>2. QED BY <2>1 DEF RegistrarInv, Next_
<1>5. CASE UNCHANGED vars
  BY <1>5 DEF vars, regVars, queueVars, RegistrarInv, Next_
<1>6. QED BY <1>1, <1>2, <1>3, <1>4, <1>5 DEF Next

LEMMA TakerKnows ==
  ASSUME IInv, [Next]_vars PROVE TakeInv'
<1> USE DEF IInv, TypeOK
<1>1. ASSUME NEW r \in Registrars, NEW c \in Calls, Start(r, c)
      PROVE  TakeInv'
  BY <1>1 DEF Start, TakeInv, queueVars, mainVars
<1>2. ASSUME NEW r \in Registrars, Register(r) PROVE TakeInv'
  (* Only the slot at pendinglast is written, which is not the one taken.  *)
  <2>0. UNCHANGED <<main, current, pendingfirst>>
    BY <1>2 DEF Register, TestBusy, SetBusy, ReadLast, TestFull, WriteFunc,
       WriteArg, Publish, SignalLoop, Release, queueVars, mainVars
  <2>1. CASE WriteFunc(r) \/ WriteArg(r)
    <3>1. i[r] = pendinglast /\ pendinglast' = pendinglast
      BY <2>1 DEF WriteFunc, WriteArg, MayGoOn, RegistrarInv
    <3>2. pendingfirst # pendinglast =>
            pendingcalls'[pendingfirst] = pendingcalls[pendingfirst]
      BY <2>1, <3>1 DEF WriteFunc, WriteArg
    <3>3. QED BY <2>0, <3>1, <3>2 DEF TakeInv
  <2>2. CASE Publish(r)
    <3>1. /\ pendinglast' = Next_(i[r]) /\ Next_(i[r]) # pendingfirst
          /\ pendingcalls' = pendingcalls
      BY <2>2 DEF Publish, MayGoOn, RegistrarInv
    <3>2. QED BY <2>0, <3>1 DEF TakeInv
  <2>3. CASE ~(WriteFunc(r) \/ WriteArg(r) \/ Publish(r))
    <3>1. UNCHANGED <<pendingcalls, pendinglast>>
      BY <1>2, <2>3 DEF Register, TestBusy, SetBusy, ReadLast, TestFull,
         SignalLoop, Release, queueVars
    <3>2. QED BY <2>0, <3>1 DEF TakeInv
  <2>4. QED BY <2>1, <2>2, <2>3
<1>3. CASE CheckThings \/ MakePendingCalls \/ CallReturns
  <2> USE DEF MainGoto, TakeInv, queueVars
  <2>1. CASE CheckThings BY <2>1 DEF CheckThings
  <2>2. CASE TestMakeBusy BY <2>2 DEF TestMakeBusy
  <2>3. CASE SetMakeBusy BY <2>3 DEF SetMakeBusy
  <2>4. CASE ClearThings BY <2>4 DEF ClearThings
  <2>5. CASE Fetch BY <2>5 DEF Fetch
  <2>6. CASE ReadFunc BY <2>6 DEF ReadFunc
  <2>7. CASE ReadArg BY <2>7 DEF ReadArg
  <2>8. CASE Advance BY <2>8 DEF Advance
  <2>9. CASE ClearMakeBusy BY <2>9 DEF ClearMakeBusy
  <2>10. CASE SetAgain BY <2>10 DEF SetAgain
  <2>11. CASE CallReturns BY <2>11 DEF CallReturns
  <2>12. QED
    BY <1>3, <2>1, <2>2, <2>3, <2>4, <2>5, <2>6, <2>7, <2>8, <2>9, <2>10, <2>11
    DEF MakePendingCalls
<1>4. CASE UNCHANGED vars
  BY <1>4 DEF vars, mainVars, queueVars, TakeInv
<1>5. QED BY <1>1, <1>2, <1>3, <1>4 DEF Next

LEMMA RingKeepsOrder ==
  ASSUME IInv, [Next]_vars PROVE NothingLost'
<1> USE DEF IInv
<1>0. /\ pendingfirst \in Slots /\ pendinglast \in Slots
      /\ NPENDINGCALLS \in Nat /\ NPENDINGCALLS > 0
      /\ Len(accepted) \in Nat /\ Len(executed) \in Nat
  BY PendingAssumption DEF TypeOK
<1>1. ASSUME UNCHANGED <<queueVars, executed>> PROVE NothingLost'
  BY <1>1 DEF NothingLost, Used, SlotOf, queueVars
<1>2. CASE \E r \in Registrars : (\E c \in Calls : Start(r, c))
  BY <1>1, <1>2 DEF Start, mainVars
<1>3. ASSUME NEW r \in Registrars, Register(r) PROVE NothingLost'
  <2>1. CASE WriteFunc(r) \/ WriteArg(r)
    (* The slot written is not among those in use. *)
    <3>1. /\ i[r] = pendinglast
          /\ UNCHANGED <<pendingfirst, pendinglast, accepted, executed>>
          /\ \A s \in Slots : s # i[r] => pendingcalls'[s] = pendingcalls[s]
      BY <2>1 DEF WriteFunc, WriteArg, MayGoOn, RegistrarInv, TypeOK, mainVars
    <3>2. \A k \in 0 .. Used - 1 : SlotOf(k) \in Slots /\ SlotOf(k) # pendinglast
      BY UsedSlots
    <3>3. Used' = Used /\ \A k \in 0 .. Used - 1 : SlotOf(k)' = SlotOf(k)
      BY <3>1 DEF Used, SlotOf
    <3>4. \A k \in 0 .. Used - 1 :
            pendingcalls'[SlotOf(k)] = Pair(accepted[Len(executed) + 1 + k])
      BY <3>1, <3>2 DEF NothingLost
    <3>5. QED BY <3>1, <3>3, <3>4 DEF NothingLost
  <2>2. CASE Publish(r)
    <3>1. /\ i[r] = pendinglast /\ pendinglast' = Next_(pendinglast)
          /\ Next_(pendinglast) # pendingfirst
          /\ accepted' = Append(accepted, call[r]) /\ call[r] \in Calls
          /\ pendingcalls[pendinglast] = Pair(call[r])
          /\ UNCHANGED <<pendingcalls, pendingfirst, executed>>
      BY <2>2 DEF Publish, MayGoOn, RegistrarInv, TypeOK, mainVars, Pair
    <3>2. /\ Len(accepted') = Len(accepted) + 1
          /\ accepted'[Len(accepted) + 1] = call[r]
          /\ \A k \in 1 .. Len(accepted) : accepted'[k] = accepted[k]
      BY <3>1 DEF TypeOK
    <3>3. pendinglast' = IF pendinglast + 1 = NPENDINGCALLS THEN 0 ELSE pendinglast + 1
      BY <1>0, <3>1, NextSlot
    <3>4. Used' = Used + 1 /\ Used \in Nat
      BY <1>0, <3>1, <3>3 DEF Used, Slots
    <3>5. \A k \in 0 .. Used : SlotOf(k)' = SlotOf(k)
      BY <3>1 DEF SlotOf
    <3>6. Len(accepted') = Len(executed') + Used'
      BY <1>0, <3>1, <3>2, <3>4 DEF NothingLost
    <3>7. \A k \in 1 .. Len(executed') : executed'[k] = Pair(accepted'[k])
      BY <1>0, <3>1, <3>2, <3>4 DEF NothingLost
    <3>8. ASSUME NEW k \in 0 .. Used' - 1
          PROVE  pendingcalls'[SlotOf(k)'] = Pair(accepted'[Len(executed') + 1 + k])
      <4>1. CASE k = Used
        <5>1. SlotOf(k)' = pendinglast
          BY <3>4, <3>5, <4>1, UsedSlots
        <5>2. Len(executed') + 1 + k = Len(accepted) + 1
          BY <1>0, <3>1, <3>4, <4>1 DEF NothingLost
        <5>3. QED BY <3>1, <3>2, <5>1, <5>2
      <4>2. CASE k \in 0 .. Used - 1
        <5>1. Len(executed) + 1 + k \in 1 .. Len(accepted)
          BY <1>0, <3>4, <4>2 DEF NothingLost
        <5>2. pendingcalls[SlotOf(k)] = Pair(accepted[Len(executed) + 1 + k])
          BY <4>2 DEF NothingLost
        <5>3. SlotOf(k)' = SlotOf(k)
          BY <3>4, <3>5, <4>2
        <5>4. QED BY <3>1, <3>2, <5>1, <5>2, <5>3
      <4>3. QED BY <3>4, <4>1, <4>2
    <3>9. QED BY <3>6, <3>7, <3>8 DEF NothingLost
  <2>3. CASE ~(WriteFunc(r) \/ WriteArg(r) \/ Publish(r))
    <3>1. UNCHANGED <<queueVars, executed>>
      BY <1>3, <2>3 DEF Register, TestBusy, SetBusy, ReadLast, TestFull,
         SignalLoop, Release, mainVars
    <3>2. QED BY <1>1, <3>1
  <2>4. QED BY <2>1, <2>2, <2>3
<1>4. CASE Advance
  <2>1. /\ pendingfirst' = Next_(pendingfirst) /\ pendingfirst # pendinglast
        /\ executed' = Append(executed, current)
        /\ current = pendingcalls[pendingfirst]
        /\ UNCHANGED <<pendingcalls, pendinglast, accepted>>
    <3>1. /\ main = "advance"
          /\ pendingfirst' = Next_(pendingfirst)
          /\ executed' = Append(executed, current)
          /\ UNCHANGED <<pendingcalls, pendinglast, accepted>>
      BY <1>4 DEF Advance, MainGoto
    <3>2. /\ pendingfirst # pendinglast
          /\ current.func = pendingcalls[pendingfirst].func
          /\ current.arg = pendingcalls[pendingfirst].arg
      BY <3>1 DEF TakeInv
    <3>3. current = pendingcalls[pendingfirst]
      BY <3>2 DEF TypeOK
    <3>4. QED BY <3>1, <3>2, <3>3
  <2>2. /\ Len(executed') = Len(executed) + 1
        /\ executed'[Len(executed) + 1] = current
        /\ \A k \in 1 .. Len(executed) : executed'[k] = executed[k]
    BY <2>1 DEF TypeOK
  <2>3. pendingfirst' = IF pendingfirst + 1 = NPENDINGCALLS THEN 0 ELSE pendingfirst + 1
    BY <1>0, <2>1, NextSlot
  <2>4. Used' = Used - 1 /\ Used \in Nat /\ Used > 0
    BY <1>0, <2>1, <2>3 DEF Used, Slots
  <2>5. \A k \in 0 .. Used - 2 : SlotOf(k)' = SlotOf(k + 1)
    BY <1>0, <2>1, <2>3, <2>4 DEF SlotOf, Slots, Used
  <2>6. current = Pair(accepted[Len(executed) + 1])
    <3>1. 0 \in 0 .. Used - 1 /\ SlotOf(0) = pendingfirst
      BY <2>4, UsedSlots
    <3>2. pendingcalls[SlotOf(0)] = Pair(accepted[Len(executed) + 1 + 0])
      BY <3>1 DEF NothingLost
    <3>3. QED BY <1>0, <2>1, <3>1, <3>2
  <2>7. Len(accepted') = Len(executed') + Used'
    BY <1>0, <2>1, <2>2, <2>4 DEF NothingLost
  <2>8. \A k \in 1 .. Len(executed') : executed'[k] = Pair(accepted'[k])
    <3>1. \A k \in 1 .. Len(executed) : executed[k] = Pair(accepted[k])
      BY DEF NothingLost
    <3>2. QED BY <1>0, <2>1, <2>2, <2>6, <3>1
  <2>9. ASSUME NEW k \in 0 .. Used' - 1
        PROVE  pendingcalls'[SlotOf(k)'] = Pair(accepted'[Len(executed') + 1 + k])
    <3>1. k + 1 \in 0 .. Used - 1 /\ k \in 0 .. Used - 2
      BY <2>4
    <3>2. pendingcalls[SlotOf(k + 1)] = Pair(accepted[Len(executed) + 1 + (k + 1)])
      BY <3>1 DEF NothingLost
    <3>3. Len(executed) + 1 + (k + 1) = Len(executed') + 1 + k
      BY <1>0, <2>2, <3>1
    <3>4. QED BY <2>1, <2>5, <3>1, <3>2, <3>3
  <2>10. QED BY <2>7, <2>8, <2>9 DEF NothingLost
<1>5. CASE CheckThings \/ CallReturns \/ (MakePendingCalls /\ ~Advance)
  <2>1. UNCHANGED <<queueVars, executed>>
    BY <1>5 DEF CheckThings, MakePendingCalls, TestMakeBusy, SetMakeBusy,
       ClearThings, Fetch, ReadFunc, ReadArg, ClearMakeBusy, SetAgain,
       CallReturns
  <2>2. QED BY <1>1, <2>1
<1>6. CASE UNCHANGED vars
  BY <1>1, <1>6 DEF vars, mainVars
<1>7. QED BY <1>2, <1>3, <1>4, <1>5, <1>6 DEF Next

LEMMA WakeupKept ==
  ASSUME IInv, [Next]_vars PROVE NoLostWakeup'
<1> USE DEF IInv, TypeOK
<1>1. ASSUME NEW r \in Registrars, NEW c \in Calls, Start(r, c)
      PROVE  NoLostWakeup'
  BY <1>1 DEF Start, NoLostWakeup, queueVars, mainVars
<1>2. ASSUME NEW r \in Registrars, Register(r) PROVE NoLostWakeup'
  <2>0. UNCHANGED <<main, running, pendingfirst>>
    BY <1>2 DEF Register, TestBusy, SetBusy, ReadLast, TestFull, WriteFunc,
       WriteArg, Publish, SignalLoop, Release, queueVars, mainVars
  <2>1. CASE Publish(r)
    <3>1. at'[r] = "signal"
      BY <2>1 DEF Publish, Goto
    <3>2. QED BY <3>1 DEF NoLostWakeup
  <2>2. CASE SignalLoop(r)
    BY <2>2 DEF SignalLoop, NoLostWakeup
  <2>3. CASE ~(Publish(r) \/ SignalLoop(r))
    <3>1. /\ UNCHANGED <<pendinglast, things_to_do>>
          /\ \A s \in Registrars : at[s] = "signal" => at'[s] = "signal"
      BY <1>2, <2>3 DEF Register, TestBusy, SetBusy, ReadLast, TestFull,
         WriteFunc, WriteArg, Release, MayGoOn, Goto, Return, queueVars
    <3>2. QED BY <2>0, <3>1 DEF NoLostWakeup
  <2>4. QED BY <2>1, <2>2, <2>3
<1>3. CASE CheckThings \/ MakePendingCalls \/ CallReturns
  <2> USE DEF MainGoto, NoLostWakeup, BusyInv, queueVars, asyncVars, regVars
  <2>1. CASE CheckThings BY <2>1 DEF CheckThings
  <2>2. CASE TestMakeBusy BY <2>2 DEF TestMakeBusy
  <2>3. CASE SetMakeBusy BY <2>3 DEF SetMakeBusy
  <2>4. CASE ClearThings BY <2>4 DEF ClearThings
  <2>5. CASE Fetch BY <2>5 DEF Fetch
  <2>6. CASE ReadFunc BY <2>6 DEF ReadFunc
  <2>7. CASE ReadArg BY <2>7 DEF ReadArg
  <2>8. CASE Advance BY <2>8 DEF Advance
  <2>9. CASE ClearMakeBusy BY <2>9 DEF ClearMakeBusy
  <2>10. CASE SetAgain BY <2>10 DEF SetAgain
  <2>11. CASE CallReturns BY <2>11 DEF CallReturns
  <2>12. QED
    BY <1>3, <2>1, <2>2, <2>3, <2>4, <2>5, <2>6, <2>7, <2>8, <2>9, <2>10, <2>11
    DEF MakePendingCalls
<1>4. CASE UNCHANGED vars
  BY <1>4 DEF vars, mainVars, queueVars, regVars, NoLostWakeup
<1>5. QED BY <1>1, <1>2, <1>3, <1>4 DEF Next

LEMMA InitInv == ~Parallel /\ Init => IInv
<1> SUFFICES ASSUME ~Parallel, Init PROVE IInv
  OBVIOUS
<1> USE PendingAssumption DEF Init
<1>1. Empty \in [func : Calls \cup {NoCall}, arg : Calls \cup {NoCall}]
  BY DEF Empty
<1>2. TypeOK
  BY <1>1 DEF TypeOK, Slots, Points, MainPoints
<1>3. NestInv
  BY DEF NestInv, Critical
<1>4. RegistrarInv /\ TakeInv /\ BusyInv /\ NoLostWakeup
  BY DEF RegistrarInv, TakeInv, BusyInv, NoLostWakeup
<1>5. NothingLost
  BY DEF NothingLost, Used
<1>6. QED BY <1>2, <1>3, <1>4, <1>5 DEF IInv

LEMMA StepInv == IInv /\ [Next]_vars => IInv'
<1> SUFFICES ASSUME IInv, [Next]_vars PROVE IInv'
  OBVIOUS
<1>1. TypeOK' BY TypeCorrect DEF IInv, RegistrarInv, CallInv
<1>2. NestInv' BY Nesting DEF IInv
<1>3. OneRegistrarInside BY Exclusion DEF IInv
<1>4. RegistrarInv' BY <1>3, RegistrarKnows
<1>5. TakeInv' BY TakerKnows
<1>6. BusyInv' BY MainBusy DEF IInv
<1>7. NothingLost' BY RingKeepsOrder
<1>8. NoLostWakeup' BY WakeupKept
<1>9. QED BY <1>1, <1>2, <1>4, <1>5, <1>6, <1>7, <1>8 DEF IInv

LEMMA Inductive == ASSUME ~Parallel PROVE Spec => []IInv
<1>1. Init => IInv
  BY InitInv
<1>2. QED BY <1>1, StepInv, PTL DEF Spec

(* What does not depend on how registrars meet: types, calls, and the main *)
(* thread, which is alone in Py_MakePendingCalls.                          *)
LEMMA EitherWay == Spec => [](TypeOK /\ CallInv /\ BusyInv)
<1>1. Init => TypeOK /\ CallInv /\ BusyInv
  <2> SUFFICES ASSUME Init PROVE TypeOK /\ CallInv /\ BusyInv
    OBVIOUS
  <2> USE PendingAssumption DEF Init
  <2>1. Empty \in [func : Calls \cup {NoCall}, arg : Calls \cup {NoCall}]
    BY DEF Empty
  <2>2. TypeOK
    BY <2>1 DEF TypeOK, Slots, Points, MainPoints
  <2>3. QED BY <2>2 DEF CallInv, BusyInv
<1>2. TypeOK /\ CallInv /\ BusyInv /\ [Next]_vars => (TypeOK /\ CallInv /\ BusyInv)'
  <2> SUFFICES ASSUME TypeOK, CallInv, BusyInv, [Next]_vars PROVE CallInv'
    BY TypeCorrect, MainBusy
  <2>1. ASSUME NEW r \in Registrars, NEW c \in Calls, Start(r, c) PROVE CallInv'
    BY <2>1 DEF Start, CallInv, TypeOK
  <2>2. ASSUME NEW r \in Registrars, Register(r) PROVE CallInv'
    BY <2>2 DEF Register, TestBusy, SetBusy, ReadLast, TestFull, WriteFunc,
       WriteArg, Publish, SignalLoop, Release, MayGoOn, Goto, Return, CallInv, TypeOK
  <2>3. CASE CheckThings \/ MakePendingCalls \/ CallReturns
    BY <2>3 DEF CheckThings, MakePendingCalls, CallReturns, TestMakeBusy, SetMakeBusy,
       ClearThings, Fetch, ReadFunc, ReadArg, Advance, ClearMakeBusy, SetAgain,
       asyncVars, regVars, CallInv
  <2>4. CASE UNCHANGED vars
    BY <2>4 DEF vars, regVars, CallInv
  <2>5. QED BY <2>1, <2>2, <2>3, <2>4 DEF Next
<1>3. QED BY <1>1, <1>2, PTL DEF Spec

(* In every state of Py_AddPendingCall and Py_MakePendingCalls the         *)
(* variables have their types; the index a registrar holds is in the ring, *)
(* even when registrars run beside each other.                             *)
THEOREM TypeCorrectness == Spec => []TypeOK
BY EitherWay, PTL

(* Nested registrations never are in the critical section together, though *)
(* "busy" is tested and set in two accesses.                               *)
THEOREM RegistrationIsExclusive == ASSUME ~Parallel PROVE Spec => []OneRegistrarInside
<1>1. IInv => OneRegistrarInside
  BY Exclusion DEF IInv
<1>2. QED BY <1>1, Inductive, PTL

(* No accepted call is lost, duplicated, reordered or torn, for a ring of  *)
(* any size and any number of nested registrars.                           *)
THEOREM NothingIsLost == ASSUME ~Parallel PROVE Spec => []NothingLost
<1>1. IInv => NothingLost
  BY DEF IInv
<1>2. QED BY <1>1, Inductive, PTL

(* The interpreter loop is never idle with a call in the ring and no one   *)
(* left to tell it, if registrars nest.                                    *)
THEOREM WakeupIsNeverLost == ASSUME ~Parallel PROVE Spec => []NoLostWakeup
<1>1. IInv => NoLostWakeup
  BY DEF IInv
<1>2. QED BY <1>1, Inductive, PTL

(* Pending calls do not nest, though their interpreter loops look at       *)
(* things_to_do.                                                           *)
THEOREM CallsDoNotNest == Spec => []OneCallAtATime
<1>1. TypeOK /\ BusyInv => OneCallAtATime
  BY DEF TypeOK, BusyInv, OneCallAtATime, MainPoints
<1>2. QED BY <1>1, EitherWay, PTL

-----------------------------------------------------------------------------
(* The refinement of CallQueue. *)

(* A sequence is a function of its positions; so are the one with an       *)
(* element more at its end and the one without its first.                  *)
LEMMA SeqOfPositions ==
  ASSUME NEW S, NEW n \in Nat, NEW f \in [1 .. n -> S]
  PROVE  f \in Seq(S) /\ Len(f) = n
OBVIOUS

LEMMA OneMore ==
  ASSUME NEW S, NEW n \in Nat, NEW f \in [1 .. n -> S], NEW e \in S,
         NEW g \in [1 .. n + 1 -> S], g[n + 1] = e,
         \A k \in 1 .. n : g[k] = f[k]
  PROVE  g = Append(f, e)
<1>1. f \in Seq(S) /\ Len(f) = n
  BY SeqOfPositions
<1>2. g \in Seq(S) /\ Len(g) = n + 1
  <2>1. n + 1 \in Nat
    OBVIOUS
  <2>2. QED BY <2>1, SeqOfPositions
<1>3. /\ Append(f, e) \in Seq(S) /\ Len(Append(f, e)) = n + 1
      /\ \A k \in 1 .. n : Append(f, e)[k] = f[k]
      /\ Append(f, e)[n + 1] = e
  BY <1>1, AppendProperties
<1>4. \A k \in 1 .. n + 1 : g[k] = Append(f, e)[k]
  BY <1>3
<1>5. QED BY <1>2, <1>3, <1>4, SeqEqual

LEMMA OneLess ==
  ASSUME NEW S, NEW n \in Nat, n > 0, NEW f \in [1 .. n -> S],
         NEW g \in [1 .. n - 1 -> S], \A k \in 1 .. n - 1 : g[k] = f[k + 1]
  PROVE  f # <<>> /\ Head(f) = f[1] /\ g = Tail(f)
<1>1. f \in Seq(S) /\ Len(f) = n /\ f # <<>>
  BY SeqOfPositions
<1>2. g \in Seq(S) /\ Len(g) = n - 1
  <2>1. n - 1 \in Nat
    OBVIOUS
  <2>2. QED BY <2>1, SeqOfPositions
<1>3. /\ Head(f) = f[1] /\ Tail(f) \in Seq(S) /\ Len(Tail(f)) = n - 1
      /\ \A k \in 1 .. n - 1 : Tail(f)[k] = f[k + 1]
  BY <1>1, HeadTailProperties
<1>4. g = Tail(f)
  BY <1>2, <1>3, SeqEqual
<1>5. QED BY <1>1, <1>3, <1>4

(* What waits is a sequence of as many slots as are in use. *)
Content == [func : Calls \cup {NoCall}, arg : Calls \cup {NoCall}]
LEMMA WaitingIs ==
  ASSUME TypeOK
  PROVE  /\ Used \in Nat /\ Used <= NPENDINGCALLS - 1
         /\ Waiting \in [1 .. Used -> Content] /\ Len(Waiting) = Used
         /\ \A k \in 1 .. Used : Waiting[k] = pendingcalls[SlotOf(k - 1)]
<1>1. Used \in 0 .. NPENDINGCALLS - 1 /\ \A k \in 0 .. Used : SlotOf(k) \in Slots
  BY UsedSlots
<1>2. Used \in Nat /\ Used <= NPENDINGCALLS - 1
  BY <1>1, PendingAssumption
<1>3. \A k \in 1 .. Used : pendingcalls[SlotOf(k - 1)] \in Content
  <2>1. \A k \in 1 .. Used : SlotOf(k - 1) \in Slots
    BY <1>1, <1>2
  <2>2. QED BY <2>1 DEF TypeOK, Content
<1>4. Waiting \in [1 .. Used -> Content]
  BY <1>3 DEF Waiting
<1>5. Len(Waiting) = Used
  BY <1>2, <1>4, SeqOfPositions
<1>6. QED BY <1>2, <1>4, <1>5 DEF Waiting

(* A step that leaves the slots in use alone leaves what waits alone. *)
LEMMA WaitingStays ==
  ASSUME TypeOK, UNCHANGED <<pendingfirst, pendinglast>>,
         \A k \in 0 .. Used - 1 : pendingcalls'[SlotOf(k)] = pendingcalls[SlotOf(k)]
  PROVE  Waiting' = Waiting
<1>1. Used' = Used /\ \A k : SlotOf(k)' = SlotOf(k)
  BY DEF Used, SlotOf
<1>2. Used \in Nat
  BY WaitingIs
<1>3. \A k \in 1 .. Used : pendingcalls'[SlotOf(k - 1)'] = pendingcalls[SlotOf(k - 1)]
  <2>1. \A k \in 1 .. Used : k - 1 \in 0 .. Used - 1
    BY <1>2
  <2>2. QED BY <1>1, <2>1
<1>4. QED BY <1>1, <1>3 DEF Waiting

(* The registration whose call is published accepts it. *)
LEMMA PublishAccepts ==
  ASSUME IInv, NEW r \in Registrars, Publish(r)
  PROVE  (\E c \in {Pair(d) : d \in Calls} : Queue!Accept(c)) /\ TypeOK'
<1>1. TypeOK /\ TypeOK'
  <2>1. Next
    BY DEF Next, Register
  <2>2. QED BY <2>1, TypeCorrect DEF IInv, RegistrarInv, CallInv
<1>2. /\ i[r] = pendinglast /\ pendinglast' = Next_(pendinglast)
      /\ Next_(pendinglast) # pendingfirst
      /\ call[r] \in Calls
      /\ pendingcalls[pendinglast] = Pair(call[r])
      /\ UNCHANGED <<pendingcalls, pendingfirst, executed>>
  BY DEF IInv, Publish, MayGoOn, RegistrarInv, TypeOK, mainVars, Pair
<1>3. /\ pendingfirst \in Slots /\ pendinglast \in Slots
      /\ NPENDINGCALLS \in Nat /\ NPENDINGCALLS > 0
  BY <1>1, PendingAssumption DEF TypeOK
<1>4. pendinglast' = IF pendinglast + 1 = NPENDINGCALLS THEN 0 ELSE pendinglast + 1
  BY <1>2, <1>3, NextSlot
<1>5. Used' = Used + 1 /\ Used < NPENDINGCALLS - 1
  BY <1>2, <1>3, <1>4 DEF Used, Slots
<1>6. \A k : SlotOf(k)' = SlotOf(k)
  BY <1>2 DEF SlotOf
<1>7. /\ Used \in Nat /\ Waiting \in [1 .. Used -> Content] /\ Len(Waiting) = Used
      /\ \A k \in 1 .. Used : Waiting[k] = pendingcalls[SlotOf(k - 1)]
  BY <1>1, WaitingIs
<1>8. Waiting' = [k \in 1 .. Used + 1 |-> pendingcalls[SlotOf(k - 1)]]
  BY <1>2, <1>5, <1>6 DEF Waiting
<1>9. Waiting'[Used + 1] = Pair(call[r])
  <2>1. Used + 1 \in 1 .. Used + 1 /\ (Used + 1) - 1 = Used
    BY <1>7
  <2>2. SlotOf(Used) = pendinglast
    BY <1>1, UsedSlots
  <2>3. QED BY <1>2, <1>8, <2>1, <2>2
<1>10. \A k \in 1 .. Used : Waiting'[k] = Waiting[k]
  BY <1>7, <1>8
<1>11. Pair(call[r]) \in Content
  BY <1>2 DEF Pair, Content
<1>12. Waiting' \in [1 .. Used + 1 -> Content]
  <2>1. \A k \in 1 .. Used + 1 : k \in 1 .. Used \/ k = Used + 1
    BY <1>7
  <2>2. \A k \in 1 .. Used + 1 : Waiting'[k] \in Content
    BY <1>7, <1>9, <1>10, <1>11, <2>1
  <2>3. QED BY <1>8, <2>2
<1>13. Waiting' = Append(Waiting, Pair(call[r]))
  BY <1>7, <1>9, <1>10, <1>11, <1>12, OneMore
<1>14. Queue!Accept(Pair(call[r]))
  BY <1>2, <1>5, <1>7, <1>13 DEF Queue!Accept
<1>15. QED BY <1>1, <1>2, <1>14

(* Giving the first slot back and entering its call executes the call. *)
LEMMA AdvanceExecutes ==
  ASSUME IInv, Advance
  PROVE  Queue!Execute
<1>1. /\ TypeOK
      /\ pendingfirst' = Next_(pendingfirst) /\ pendingfirst # pendinglast
      /\ executed' = Append(executed, current)
      /\ current = pendingcalls[pendingfirst]
      /\ UNCHANGED <<pendingcalls, pendinglast>>
  <2>1. /\ main = "advance"
        /\ pendingfirst' = Next_(pendingfirst)
        /\ executed' = Append(executed, current)
        /\ UNCHANGED <<pendingcalls, pendinglast>>
    BY DEF Advance, MainGoto
  <2>2. /\ TypeOK /\ pendingfirst # pendinglast
        /\ current.func = pendingcalls[pendingfirst].func
        /\ current.arg = pendingcalls[pendingfirst].arg
    BY <2>1 DEF IInv, TakeInv
  <2>3. current = pendingcalls[pendingfirst]
    BY <2>2 DEF TypeOK
  <2>4. QED BY <2>1, <2>2, <2>3
<1>2. /\ pendingfirst \in Slots /\ pendinglast \in Slots
      /\ NPENDINGCALLS \in Nat /\ NPENDINGCALLS > 0
  BY <1>1, PendingAssumption DEF TypeOK
<1>3. pendingfirst' = IF pendingfirst + 1 = NPENDINGCALLS THEN 0 ELSE pendingfirst + 1
  BY <1>1, <1>2, NextSlot
<1>4. Used' = Used - 1 /\ Used \in Nat /\ Used > 0
  BY <1>1, <1>2, <1>3 DEF Used, Slots
<1>5. \A k \in 0 .. Used - 2 : SlotOf(k)' = SlotOf(k + 1)
  BY <1>1, <1>2, <1>3, <1>4 DEF SlotOf, Slots, Used
<1>6. /\ Waiting \in [1 .. Used -> Content]
      /\ \A k \in 1 .. Used : Waiting[k] = pendingcalls[SlotOf(k - 1)]
  BY <1>1, WaitingIs
<1>7. Waiting' = [k \in 1 .. Used - 1 |-> pendingcalls[SlotOf(k - 1)']]
  BY <1>1, <1>4 DEF Waiting
<1>8. \A k \in 1 .. Used - 1 : Waiting'[k] = Waiting[k + 1]
  <2>1. ASSUME NEW k \in 1 .. Used - 1 PROVE Waiting'[k] = Waiting[k + 1]
    <3>1. k - 1 \in 0 .. Used - 2 /\ (k - 1) + 1 = (k + 1) - 1 /\ k + 1 \in 1 .. Used
      BY <1>4
    <3>2. SlotOf(k - 1)' = SlotOf((k + 1) - 1)
      BY <1>5, <3>1
    <3>3. QED BY <1>6, <1>7, <3>1, <3>2
  <2>2. QED BY <2>1
<1>9. Waiting' \in [1 .. Used - 1 -> Content]
  <2>1. \A k \in 1 .. Used - 1 : k + 1 \in 1 .. Used
    BY <1>4
  <2>2. \A k \in 1 .. Used - 1 : Waiting'[k] \in Content
    BY <1>6, <1>8, <2>1
  <2>3. QED BY <1>7, <2>2
<1>10. Waiting # <<>> /\ Head(Waiting) = Waiting[1] /\ Waiting' = Tail(Waiting)
  BY <1>4, <1>6, <1>8, <1>9, OneLess
<1>11. Waiting[1] = current
  <2>1. 1 \in 1 .. Used /\ 1 - 1 = 0
    BY <1>4
  <2>2. SlotOf(0) = pendingfirst
    BY <1>1, UsedSlots
  <2>3. QED BY <1>1, <1>6, <2>1, <2>2
<1>12. QED BY <1>1, <1>10, <1>11 DEF Queue!Execute

LEMMA StepIsQueue ==
  ASSUME IInv, [Next]_vars
  PROVE  [Queue!Next]_<<{NPENDINGCALLS - 1}, Waiting, executed>>
<1>1. TypeOK
  BY DEF IInv
<1>2. ASSUME UNCHANGED <<queueVars, executed>>
      PROVE  UNCHANGED <<Waiting, executed>>
  BY <1>1, <1>2, WaitingStays DEF queueVars
<1>3. CASE \E r \in Registrars : \E c \in Calls : Start(r, c)
  BY <1>2, <1>3 DEF Start, mainVars
<1>4. ASSUME NEW r \in Registrars, Register(r)
      PROVE  [Queue!Next]_<<{NPENDINGCALLS - 1}, Waiting, executed>>
  <2>1. CASE WriteFunc(r) \/ WriteArg(r)
    <3>1. /\ i[r] = pendinglast
          /\ UNCHANGED <<pendingfirst, pendinglast, executed>>
          /\ \A s \in Slots : s # i[r] => pendingcalls'[s] = pendingcalls[s]
      BY <2>1 DEF IInv, WriteFunc, WriteArg, MayGoOn, RegistrarInv, TypeOK, mainVars
    <3>2. \A k \in 0 .. Used - 1 : SlotOf(k) \in Slots /\ SlotOf(k) # pendinglast
      BY <1>1, UsedSlots
    <3>3. QED BY <1>1, <3>1, <3>2, WaitingStays
  <2>2. CASE Publish(r)
    BY <2>2, PublishAccepts DEF Queue!Next
  <2>3. CASE ~(WriteFunc(r) \/ WriteArg(r) \/ Publish(r))
    <3>1. UNCHANGED <<queueVars, executed>>
      BY <1>4, <2>3 DEF Register, TestBusy, SetBusy, ReadLast, TestFull,
         SignalLoop, Release, mainVars
    <3>2. QED BY <1>2, <3>1
  <2>4. QED BY <2>1, <2>2, <2>3
<1>5. CASE Advance
  BY <1>5, AdvanceExecutes DEF Queue!Next
<1>6. CASE CheckThings \/ CallReturns \/ (MakePendingCalls /\ ~Advance)
  <2>1. UNCHANGED <<queueVars, executed>>
    BY <1>6 DEF CheckThings, MakePendingCalls, TestMakeBusy, SetMakeBusy,
       ClearThings, Fetch, ReadFunc, ReadArg, ClearMakeBusy, SetAgain,
       CallReturns
  <2>2. QED BY <1>2, <2>1
<1>7. CASE UNCHANGED vars
  BY <1>2, <1>7 DEF vars, mainVars
<1>8. QED BY <1>3, <1>4, <1>5, <1>6, <1>7 DEF Next

(* The ring is a bounded queue: a call that is published joins its end,    *)
(* the one that is entered leaves its front, and no other access of either *)
(* function changes what waits.                                            *)
THEOREM RingIsQueue == ASSUME ~Parallel PROVE Spec => Queue!Spec
<1>1. Init => Queue!Init
  <2>1. SUFFICES ASSUME Init PROVE Waiting = <<>> /\ executed = <<>>
    BY PendingAssumption DEF Queue!Init
  <2>2. Used = 0
    BY <2>1 DEF Init, Used
  <2>3. Waiting = [k \in 1 .. 0 |-> pendingcalls[SlotOf(k - 1)]]
    BY <2>2 DEF Waiting
  <2>4. QED BY <2>1, <2>3 DEF Init
<1>2. IInv /\ [Next]_vars => [Queue!Next]_<<{NPENDINGCALLS - 1}, Waiting, executed>>
  BY StepIsQueue
<1>3. QED BY <1>1, <1>2, Inductive, PTL DEF Spec, Queue!Spec

-----------------------------------------------------------------------------
(* The exception that a thread caught last, for any code whatever. *)

(* While the frame has kept nothing, its thread's exception is the one it  *)
(* found; from the first catch on, the one it found is what it keeps.      *)
CaughtInv ==
  /\ entry_exc # NULL
  /\ f_exc_type = NULL => exc_type = entry_exc
  /\ f_exc_type # NULL => f_exc_type = entry_exc
  /\ why # "NOT" => f_exc_type = NULL

(* An operation that goes on in the frame leaves exceptions alone. *)
LEMMA GoesKeeps ==
  ASSUME CaughtInv, NEW next, NEW values, Goes(next, values)
  PROVE  CaughtInv'
BY DEF Goes, errVars, CaughtInv

(* What unwinds either catches in the frame or leaves it. *)
LEMMA UnwindKeeps ==
  ASSUME CaughtInv, why = "NOT", NEW reason, NEW values, NEW value, NEW exc,
         Unwind(reason, values, value, exc)
  PROVE  CaughtInv'
<1>1. entry_exc' = entry_exc
  BY DEF Unwind
<1>2. ASSUME LeaveFrame(reason, value) PROVE CaughtInv'
  BY <1>1, <1>2 DEF LeaveFrame, CaughtInv
<1>3. ASSUME CatchIn(exc), UNCHANGED why PROVE CaughtInv'
  BY <1>1, <1>3 DEF CatchIn, CaughtInv
<1>4. ASSUME UNCHANGED <<exc_type, f_exc_type, why>> PROVE CaughtInv'
  BY <1>1, <1>4 DEF CaughtInv
<1>5. \/ LeaveFrame(reason, value)
      \/ CatchIn(exc) /\ UNCHANGED why
      \/ UNCHANGED <<exc_type, f_exc_type, why>>
  BY DEF Unwind
<1>6. QED BY <1>2, <1>3, <1>4, <1>5

LEMMA RaiseKeeps ==
  ASSUME CaughtInv, why = "NOT", NEW exc, NEW values, Raise(exc, values)
  PROVE  CaughtInv'
BY UnwindKeeps DEF Raise

LEMMA EvalStepKeeps ==
  ASSUME CaughtInv, [EvalNext]_evalVars
  PROVE  CaughtInv'
<1>1. ASSUME UNCHANGED <<why, errVars>> PROVE CaughtInv'
  BY <1>1 DEF errVars, CaughtInv
<1>2. ASSUME NEW op, ObjectOp(op) PROVE CaughtInv'
  <2>1. why = "NOT"
    BY <1>2 DEF ObjectOp, At
  <2>2. \/ \E next, values : Goes(next, values)
        \/ \E exc, values : Raise(exc, values)
    BY <1>2 DEF ObjectOp
  <2>3. QED BY <2>1, <2>2, GoesKeeps, RaiseKeeps
<1>3. ASSUME NEW op, StackOp(op) \/ Jump(op) PROVE CaughtInv'
  <2>1. \E next, values : Goes(next, values)
    BY <1>3 DEF StackOp, Jump
  <2>2. QED BY <2>1, GoesKeeps
<1>11. ASSUME NEW op, JumpIf(op) PROVE CaughtInv'
  <2>1. why = "NOT" /\ \E answer : Tested(op, answer)
    BY <1>11 DEF JumpIf, At
  <2>2. \/ \E next, values : Goes(next, values)
        \/ \E exc, values : Raise(exc, values)
    BY <2>1 DEF Tested
  <2>3. QED BY <2>1, <2>2, GoesKeeps, RaiseKeeps
<1>4. ASSUME NEW op, Setup(op) PROVE CaughtInv'
  BY <1>1, <1>4 DEF Setup
<1>5. ASSUME FOR_LOOP PROVE CaughtInv'
  <2>1. why = "NOT"
    BY <1>5 DEF FOR_LOOP, At
  <2>2. PICK out \in Outcomes("FOR_LOOP") :
          CASE out = "error" -> Raise(<<"FOR_LOOP">> \o label, Below(2))
            [] out = "true"  -> Goes(After, Append(stack, Object(label, "asked")))
            [] out = "false" -> Goes(After + oparg, Below(2))
    BY <1>5 DEF FOR_LOOP
  <2>3. out \in {"true", "false", "error"}
    BY DEF Outcomes
  <2>4. \/ \E next, values : Goes(next, values)
        \/ \E exc, values : Raise(exc, values)
    BY <2>2, <2>3
  <2>5. QED BY <2>1, <2>4, GoesKeeps, RaiseKeeps
<1>6. ASSUME POP_BLOCK PROVE CaughtInv'
  BY <1>1, <1>6 DEF POP_BLOCK
<1>7. ASSUME BREAK_LOOP \/ RETURN_VALUE PROVE CaughtInv'
  <2>1. why = "NOT" /\ \E reason, values, value, exc : Unwind(reason, values, value, exc)
    BY <1>7 DEF BREAK_LOOP, RETURN_VALUE, At
  <2>2. QED BY <2>1, UnwindKeeps
<1>8. ASSUME RAISE_VARARGS PROVE CaughtInv'
  <2>1. why = "NOT" /\ \E exc, values : Raise(exc, values)
    BY <1>8 DEF RAISE_VARARGS, At
  <2>2. QED BY <2>1, RaiseKeeps
<1>9. ASSUME END_FINALLY PROVE CaughtInv'
  <2>1. why = "NOT"
    BY <1>9 DEF END_FINALLY, At
  <2>2. \/ \E next, values : Goes(next, values)
        \/ \E exc, values : Raise(exc, values)
        \/ \E reason, values, value, exc : Unwind(reason, values, value, exc)
    BY <1>9 DEF END_FINALLY
  <2>3. QED BY <2>1, <2>2, GoesKeeps, RaiseKeeps, UnwindKeeps
<1>10. ASSUME UNCHANGED evalVars PROVE CaughtInv'
  BY <1>1, <1>10 DEF evalVars
<1>12. QED
  BY <1>2, <1>3, <1>4, <1>5, <1>6, <1>7, <1>8, <1>9, <1>10, <1>11 DEF EvalNext

(* However the frame of a call ends and whatever its code is, the thread   *)
(* has caught last what it had caught last when the frame was entered.     *)
THEOREM CaughtStays == EvalSpec => []CaughtIsRestored
<1>1. EvalInit => CaughtInv
  BY DEF EvalInit, CaughtInv, None, NULL
<1>2. CaughtInv /\ [EvalNext]_evalVars => CaughtInv'
  BY EvalStepKeeps
<1>3. CaughtInv => CaughtIsRestored
  BY DEF CaughtInv, CaughtIsRestored
<1>4. QED BY <1>1, <1>2, <1>3, PTL DEF EvalSpec

-----------------------------------------------------------------------------
(* The stacks of a frame.  What is on them is in a stack map of its code   *)
(* when the frame is entered, and no step leaves the map.                  *)

(* What the value stack holds, and what the stack of blocks. *)
Kinds == {"object", "tb", "val", "exc", "RETURN", "BREAK"}

IsValue(v) ==
  \/ v.kind \in {"object", "tb", "val", "exc"}
  \/ v.kind = "why" /\ v.id \in {<<"RETURN">>, <<"BREAK">>}

IsStack(values)  == \E V : values \in Seq(V) /\ \A v \in V : IsValue(v)
IsBlocks(blocks) == \E B : blocks \in Seq(B) /\ \A b \in B : b.b_level \in Nat

LEMMA KindIsKind == ASSUME NEW v, IsValue(v) PROVE KindOf(v) \in Kinds
BY DEF IsValue, KindOf, Kinds

(* A stack has the kind of each of its values; a sequence that has them    *)
(* too is the kinds of the stack.                                          *)
LEMMA StackKinds ==
  ASSUME NEW s, IsStack(s)
  PROVE  /\ Len(s) \in Nat /\ KindsOf(s) \in Seq(Kinds) /\ Len(KindsOf(s)) = Len(s)
         /\ \A k \in 1 .. Len(s) : IsValue(s[k]) /\ KindsOf(s)[k] = KindOf(s[k])
         /\ \A q \in Seq(Kinds) :
              Len(q) = Len(s) /\ (\A k \in 1 .. Len(s) : q[k] = KindOf(s[k])) => KindsOf(s) = q
<1>1. Len(s) \in Nat /\ \A k \in 1 .. Len(s) : IsValue(s[k])
  <2>1. PICK V : s \in Seq(V) /\ \A v \in V : IsValue(v)
    BY DEF IsStack
  <2>2. QED BY <2>1, LenProperties, ElementOfSeq
<1>2. /\ KindsOf(s) \in [1 .. Len(s) -> Kinds]
      /\ \A k \in 1 .. Len(s) : KindsOf(s)[k] = KindOf(s[k])
  BY <1>1, KindIsKind DEF KindsOf
<1>3. KindsOf(s) \in Seq(Kinds) /\ Len(KindsOf(s)) = Len(s)
  BY <1>1, <1>2
<1>4. ASSUME NEW q \in Seq(Kinds), Len(q) = Len(s), \A k \in 1 .. Len(s) : q[k] = KindOf(s[k])
      PROVE  KindsOf(s) = q
  BY <1>2, <1>3, <1>4, SeqEqual
<1>5. QED BY <1>1, <1>2, <1>3, <1>4

(* The lower part of a stack. *)
LEMMA CutKinds ==
  ASSUME NEW s, IsStack(s), NEW n \in Nat, n <= Len(s)
  PROVE  /\ IsStack(SubSeq(s, 1, n)) /\ Len(SubSeq(s, 1, n)) = n
         /\ KindsOf(SubSeq(s, 1, n)) = SubSeq(KindsOf(s), 1, n)
<1> DEFINE t == SubSeq(s, 1, n)
           q == SubSeq(KindsOf(s), 1, n)
<1>1. PICK V : s \in Seq(V) /\ \A v \in V : IsValue(v)
  BY DEF IsStack
<1>2. Len(s) \in Nat /\ \A k \in 1 .. n : s[k] \in V
  BY <1>1, LenProperties, ElementOfSeq
<1>3. t \in Seq(V) /\ Len(t) = n /\ \A k \in 1 .. n : t[k] = s[k]
  BY <1>2, SubSeqProperties
<1>4. IsStack(t)
  BY <1>1, <1>3 DEF IsStack
<1>5. /\ KindsOf(s) \in Seq(Kinds) /\ Len(KindsOf(s)) = Len(s)
      /\ \A k \in 1 .. n : KindsOf(s)[k] = KindOf(s[k])
  BY <1>2, StackKinds
<1>6. \A k \in 1 .. n : KindsOf(s)[k] \in Kinds
  BY <1>2, <1>5, ElementOfSeq
<1>7. q \in Seq(Kinds) /\ Len(q) = n /\ \A k \in 1 .. n : q[k] = KindsOf(s)[k]
  BY <1>6, SubSeqProperties
<1> HIDE DEF t, q
<1>8. KindsOf(t) = q
  BY <1>3, <1>4, <1>5, <1>7, StackKinds
<1>9. QED BY <1>3, <1>4, <1>8 DEF t, q

(* A stack upon a stack. *)
LEMMA JoinKinds ==
  ASSUME NEW s, IsStack(s), NEW t, IsStack(t)
  PROVE  IsStack(s \o t) /\ KindsOf(s \o t) = KindsOf(s) \o KindsOf(t)
<1> DEFINE u == s \o t
           q == KindsOf(s) \o KindsOf(t)
<1>1. PICK V : s \in Seq(V) /\ \A v \in V : IsValue(v)
  BY DEF IsStack
<1>2. PICK W : t \in Seq(W) /\ \A w \in W : IsValue(w)
  BY DEF IsStack
<1>3. s \in Seq(V \cup W) /\ t \in Seq(V \cup W)
  BY <1>1, <1>2, SeqMonotonic
<1>4. /\ u \in Seq(V \cup W) /\ Len(u) = Len(s) + Len(t)
      /\ \A k \in 1 .. Len(s) + Len(t) : u[k] = IF k <= Len(s) THEN s[k] ELSE t[k - Len(s)]
  BY <1>3, ConcatProperties
<1>5. IsStack(u)
  BY <1>1, <1>2, <1>4 DEF IsStack
<1>6. /\ Len(s) \in Nat /\ KindsOf(s) \in Seq(Kinds) /\ Len(KindsOf(s)) = Len(s)
      /\ \A k \in 1 .. Len(s) : KindsOf(s)[k] = KindOf(s[k])
      /\ Len(t) \in Nat /\ KindsOf(t) \in Seq(Kinds) /\ Len(KindsOf(t)) = Len(t)
      /\ \A k \in 1 .. Len(t) : KindsOf(t)[k] = KindOf(t[k])
  BY StackKinds
<1>7. /\ q \in Seq(Kinds) /\ Len(q) = Len(s) + Len(t)
      /\ \A k \in 1 .. Len(s) + Len(t) : q[k] = IF k <= Len(s) THEN KindsOf(s)[k] ELSE KindsOf(t)[k - Len(s)]
  <2> DEFINE a == KindsOf(s)
             b == KindsOf(t)
  <2>1. /\ a \o b \in Seq(Kinds) /\ Len(a \o b) = Len(a) + Len(b)
        /\ \A k \in 1 .. Len(a) + Len(b) : (a \o b)[k] = IF k <= Len(a) THEN a[k] ELSE b[k - Len(a)]
    <3> HIDE DEF a, b
    <3>1. a \in Seq(Kinds) /\ b \in Seq(Kinds)
      BY <1>6 DEF a, b
    <3>2. QED BY <3>1, ConcatProperties
  <2>2. QED BY <1>6, <2>1
<1> HIDE DEF u, q
<1>8. ASSUME NEW k \in 1 .. Len(u) PROVE q[k] = KindOf(u[k])
  <2>1. CASE k <= Len(s)
    BY <1>4, <1>6, <1>7, <2>1
  <2>2. CASE ~(k <= Len(s))
    <3>1. k - Len(s) \in 1 .. Len(t) /\ k \in 1 .. Len(s) + Len(t)
      BY <1>4, <1>6, <2>2
    <3>2. q[k] = KindsOf(t)[k - Len(s)] /\ u[k] = t[k - Len(s)]
      BY <1>4, <1>7, <2>2, <3>1
    <3>3. QED BY <1>6, <3>1, <3>2
  <2>3. QED BY <2>1, <2>2
<1>9. KindsOf(u) = q
  BY <1>4, <1>5, <1>7, <1>8, StackKinds
<1>10. QED BY <1>5, <1>9 DEF u, q

(* Few values, and a value more. *)
LEMMA NoKinds == IsStack(<<>>) /\ KindsOf(<<>>) = <<>>
<1> DEFINE s == <<>>
<1>1. s \in Seq({}) /\ s \in Seq(Kinds) /\ Len(s) = 0
  OBVIOUS
<1> HIDE DEF s
<1>2. IsStack(s)
  BY <1>1 DEF IsStack
<1>3. KindsOf(s) = s
  BY <1>1, <1>2, StackKinds
<1>4. QED BY <1>2, <1>3 DEF s

LEMMA OneKind ==
  ASSUME NEW u, IsValue(u)
  PROVE  IsStack(<<u>>) /\ KindsOf(<<u>>) = <<KindOf(u)>>
<1> DEFINE s == <<u>>
           q == <<KindOf(u)>>
<1>1. s \in Seq({u}) /\ Len(s) = 1 /\ s[1] = u
  OBVIOUS
<1>2. KindOf(u) \in Kinds
  BY KindIsKind
<1>3. q \in Seq(Kinds) /\ Len(q) = 1 /\ q[1] = KindOf(u)
  BY <1>2
<1> HIDE DEF s, q
<1>4. IsStack(s)
  BY <1>1 DEF IsStack
<1>5. KindsOf(s) = q
  BY <1>1, <1>3, <1>4, StackKinds
<1>6. QED BY <1>4, <1>5 DEF s, q

LEMMA TwoKinds ==
  ASSUME NEW u, IsValue(u), NEW v, IsValue(v)
  PROVE  IsStack(<<u, v>>) /\ KindsOf(<<u, v>>) = <<KindOf(u), KindOf(v)>>
<1> DEFINE s == <<u, v>>
           q == <<KindOf(u), KindOf(v)>>
<1>1. s \in Seq({u, v}) /\ Len(s) = 2 /\ s[1] = u /\ s[2] = v
  OBVIOUS
<1>2. KindOf(u) \in Kinds /\ KindOf(v) \in Kinds
  BY KindIsKind
<1>3. q \in Seq(Kinds) /\ Len(q) = 2 /\ q[1] = KindOf(u) /\ q[2] = KindOf(v)
  BY <1>2
<1> HIDE DEF s, q
<1>4. IsStack(s)
  BY <1>1 DEF IsStack
<1>5. \A k \in 1 .. Len(s) : q[k] = KindOf(s[k])
  BY <1>1, <1>3
<1>6. KindsOf(s) = q
  BY <1>1, <1>3, <1>4, <1>5, StackKinds
<1>7. QED BY <1>4, <1>6 DEF s, q

LEMMA ThreeKinds ==
  ASSUME NEW u, IsValue(u), NEW v, IsValue(v), NEW w, IsValue(w)
  PROVE  IsStack(<<u, v, w>>) /\ KindsOf(<<u, v, w>>) = <<KindOf(u), KindOf(v), KindOf(w)>>
<1> DEFINE s == <<u, v, w>>
           q == <<KindOf(u), KindOf(v), KindOf(w)>>
<1>1. s \in Seq({u, v, w}) /\ Len(s) = 3 /\ s[1] = u /\ s[2] = v /\ s[3] = w
  OBVIOUS
<1>2. KindOf(u) \in Kinds /\ KindOf(v) \in Kinds /\ KindOf(w) \in Kinds
  BY KindIsKind
<1>3. q \in Seq(Kinds) /\ Len(q) = 3 /\ q[1] = KindOf(u) /\ q[2] = KindOf(v) /\ q[3] = KindOf(w)
  BY <1>2
<1> HIDE DEF s, q
<1>4. IsStack(s)
  BY <1>1 DEF IsStack
<1>5. \A k \in 1 .. Len(s) : q[k] = KindOf(s[k])
  BY <1>1, <1>3
<1>6. KindsOf(s) = q
  BY <1>1, <1>3, <1>4, <1>5, StackKinds
<1>7. QED BY <1>4, <1>6 DEF s, q

LEMMA PushKinds ==
  ASSUME NEW s, IsStack(s), NEW v, IsValue(v)
  PROVE  IsStack(Append(s, v)) /\ KindsOf(Append(s, v)) = Append(KindsOf(s), KindOf(v))
<1>1. PICK V : s \in Seq(V) /\ \A x \in V : IsValue(x)
  BY DEF IsStack
<1>2. s \in Seq(V \cup {v})
  BY <1>1, SeqMonotonic
<1>3. Append(s, v) = s \o <<v>>
  BY <1>2, AppendIsConcat
<1>4. Append(KindsOf(s), KindOf(v)) = KindsOf(s) \o <<KindOf(v)>>
  BY StackKinds, KindIsKind, AppendIsConcat
<1>5. IsStack(<<v>>) /\ KindsOf(<<v>>) = <<KindOf(v)>>
  BY OneKind
<1>6. QED BY <1>3, <1>4, <1>5, JoinKinds

(* What an operation leaves is a number of objects. *)
Objects(n, id, truth) == [k \in 1 .. n |-> Object(id, truth)]

LEMMA ObjectKinds ==
  ASSUME NEW n \in Nat, NEW id, NEW truth
  PROVE  IsStack(Objects(n, id, truth)) /\ KindsOf(Objects(n, id, truth)) = [k \in 1 .. n |-> "object"]
<1> DEFINE o == Object(id, truth)
           s == [k \in 1 .. n |-> o]
           q == [k \in 1 .. n |-> "object"]
<1>1. IsValue(o) /\ KindOf(o) = "object"
  BY DEF Object, IsValue, KindOf
<1> HIDE DEF o
<1>2. s \in Seq({o}) /\ Len(s) = n /\ \A k \in 1 .. n : s[k] = o
  OBVIOUS
<1>3. q \in Seq(Kinds) /\ Len(q) = n /\ \A k \in 1 .. n : q[k] = "object"
  BY DEF Kinds
<1> HIDE DEF s, q
<1>4. IsStack(s)
  BY <1>1, <1>2 DEF IsStack
<1>5. KindsOf(s) = q
  BY <1>1, <1>2, <1>3, <1>4, StackKinds
<1>6. QED BY <1>4, <1>5 DEF s, q, o, Objects

(* Values are taken off. *)
LEMMA DropKinds ==
  ASSUME NEW s, IsStack(s), NEW n \in Nat, n <= Len(s)
  PROVE  /\ IsStack(Dropped(s, n)) /\ Len(Dropped(s, n)) = Len(s) - n
         /\ KindsOf(Dropped(s, n)) = Dropped(KindsOf(s), n)
<1>1. Len(s) \in Nat /\ Len(KindsOf(s)) = Len(s)
  BY StackKinds
<1>2. Len(s) - n \in Nat /\ Len(s) - n <= Len(s)
  BY <1>1
<1>3. QED BY <1>1, <1>2, CutKinds DEF Dropped

LEMMA LevelKinds ==
  ASSUME NEW s, IsStack(s), NEW level \in Nat
  PROVE  IsStack(DownTo(s, level)) /\ KindsOf(DownTo(s, level)) = DownTo(KindsOf(s), level)
<1>1. Len(s) \in Nat /\ Len(KindsOf(s)) = Len(s)
  BY StackKinds
<1>2. CASE Len(s) > level
  BY <1>1, <1>2, CutKinds DEF DownTo
<1>3. CASE ~(Len(s) > level)
  BY <1>1, <1>3 DEF DownTo
<1>4. QED BY <1>2, <1>3

(* The values at the top. *)
LEMMA TopKinds ==
  ASSUME NEW s, IsStack(s), NEW n \in 1 .. Len(s)
  PROVE  /\ IsValue(s[Len(s) - n + 1]) /\ IsValue(Last(s)) /\ Last(KindsOf(s)) = KindOf(Last(s))
         /\ KindsOf(s)[Len(KindsOf(s)) - n + 1] = KindOf(s[Len(s) - n + 1])
<1>1. /\ Len(s) \in Nat /\ Len(KindsOf(s)) = Len(s)
      /\ \A k \in 1 .. Len(s) : IsValue(s[k]) /\ KindsOf(s)[k] = KindOf(s[k])
  BY StackKinds
<1>2. Len(s) - n + 1 \in 1 .. Len(s) /\ Len(s) \in 1 .. Len(s)
  BY <1>1
<1>3. QED BY <1>1, <1>2 DEF Last

LEMMA Counts ==
  ASSUME NEW op \in ObjectOps, NEW arg \in Nat
  PROVE  Pops(op, arg) \in Nat /\ Pushes(op, arg) \in Nat
BY DEF ObjectOps, Pops, Pushes

LEMMA OtherOps ==
  ASSUME NEW op \in ObjectOps
  PROVE  /\ op \notin StackOps /\ op \notin Setups
         /\ op \notin CondJumps
         /\ op \notin {"JUMP_FORWARD", "JUMP_ABSOLUTE", "FOR_LOOP", "POP_BLOCK",
                      "BREAK_LOOP", "RETURN_VALUE", "RAISE_VARARGS", "END_FINALLY"}
BY DEF ObjectOps, StackOps, CondJumps, Setups

(* The steps of a shape and its operands, by its instruction. *)
LEMMA ObjectSteps ==
  ASSUME NEW code, NEW s, code[s.next + 1].op \in ObjectOps
  PROVE  LET op  == code[s.next + 1].op
             arg == code[s.next + 1].arg
         IN Steps(code, s) =
              {Shape(NextAddr(code, s.next), Dropped(s.kinds, Pops(op, arg)) \o [k \in 1 .. Pushes(op, arg) |-> "object"],
                     s.blocks)}
              \cup (IF op = "LOAD_CONST" THEN {} ELSE Raised(s, Dropped(s.kinds, Pops(op, arg))))
BY OtherOps DEF Steps

LEMMA StackSteps ==
  ASSUME NEW code, NEW s, code[s.next + 1].op \in StackOps
  PROVE  Steps(code, s) = {Shape(NextAddr(code, s.next), Shuffled(code[s.next + 1].op, s.kinds), s.blocks)}
BY DEF Steps, ObjectOps, StackOps, CondJumps, Setups

LEMMA SetupSteps ==
  ASSUME NEW code, NEW s, code[s.next + 1].op \in Setups
  PROVE  LET after == NextAddr(code, s.next)
             block == [b_type |-> code[s.next + 1].op, b_handler |-> after + code[s.next + 1].arg,
                       b_level |-> Len(s.kinds)]
         IN Steps(code, s) = {Shape(after, s.kinds, Append(s.blocks, block))}
BY DEF Steps, ObjectOps, StackOps, CondJumps, Setups

LEMMA OperandsOf ==
  ASSUME NEW op, NEW arg, NEW kinds
  PROVE  /\ op \in ObjectOps => Operands(op, arg, kinds) = Pops(op, arg)
         /\ op \in {"POP_TOP", "DUP_TOP", "RETURN_VALUE"} => Operands(op, arg, kinds) = 1
         /\ op \in {"ROT_TWO", "FOR_LOOP"} => Operands(op, arg, kinds) = 2
         /\ op = "ROT_THREE" => Operands(op, arg, kinds) = 3
         /\ op = "RAISE_VARARGS" => Operands(op, arg, kinds) = arg
         /\ op = "END_FINALLY" => Operands(op, arg, kinds) =
              IF kinds = <<>> THEN 1
              ELSE CASE Last(kinds) = "exc" -> 3 [] Last(kinds) = "RETURN" -> 2 [] OTHER -> 1
<1>1. CASE op \in ObjectOps
  <2>1. op \notin {"POP_TOP", "DUP_TOP", "ROT_TWO", "ROT_THREE"}
    BY <1>1, OtherOps DEF StackOps
  <2>2. op \notin {"FOR_LOOP", "RETURN_VALUE", "RAISE_VARARGS", "END_FINALLY"}
    BY <1>1, OtherOps
  <2>3. op \notin {"JUMP_IF_FALSE", "JUMP_IF_TRUE"}
    BY <1>1, OtherOps DEF CondJumps
  <2>4. QED BY <1>1, <2>1, <2>2, <2>3 DEF Operands
<1>2. CASE op \notin ObjectOps
  BY <1>2 DEF Operands
<1>3. QED BY <1>1, <1>2

LEMMA ShuffleKinds ==
  ASSUME NEW s, IsStack(s), NEW op \in StackOps, NEW arg, Operands(op, arg, KindsOf(s)) <= Len(s)
  PROVE  IsStack(Shuffled(op, s)) /\ KindsOf(Shuffled(op, s)) = Shuffled(op, KindsOf(s))
<1> DEFINE q == KindsOf(s)
<1>1. /\ Len(s) \in Nat /\ Len(q) = Len(s)
      /\ \A k \in 1 .. Len(s) : IsValue(s[k]) /\ q[k] = KindOf(s[k])
  BY StackKinds
<1>2. CASE op = "POP_TOP"
  <2>1. 1 <= Len(s)
    BY <1>2, OperandsOf
  <2>2. QED BY <1>2, <2>1, DropKinds DEF Shuffled
<1>3. CASE op = "DUP_TOP"
  <2>1. 1 <= Len(s)
    BY <1>3, OperandsOf
  <2>2. IsValue(Last(s)) /\ Last(q) = KindOf(Last(s))
    BY <1>1, <2>1, TopKinds
  <2>3. QED BY <1>3, <2>2, PushKinds DEF Shuffled
<1>4. CASE op = "ROT_TWO"
  <2>1. 2 <= Len(s)
    BY <1>4, OperandsOf
  <2>2. /\ IsValue(s[Len(s)]) /\ IsValue(s[Len(s) - 1])
        /\ q[Len(q)] = KindOf(s[Len(s)]) /\ q[Len(q) - 1] = KindOf(s[Len(s) - 1])
    <3>1. Len(s) \in 1 .. Len(s) /\ Len(s) - 1 \in 1 .. Len(s)
      BY <1>1, <2>1
    <3> HIDE DEF q
    <3>2. QED BY <1>1, <3>1
  <2>3. IsStack(<<s[Len(s)], s[Len(s) - 1]>>) /\ KindsOf(<<s[Len(s)], s[Len(s) - 1]>>) = <<q[Len(q)], q[Len(q) - 1]>>
    BY <2>2, TwoKinds
  <2>4. IsStack(Dropped(s, 2)) /\ KindsOf(Dropped(s, 2)) = Dropped(q, 2)
    BY <2>1, DropKinds
  <2>5. IsStack(ROT_TWO(s)) /\ KindsOf(ROT_TWO(s)) = ROT_TWO(q)
    BY <2>3, <2>4, JoinKinds DEF ROT_TWO
  <2>6. QED BY <1>4, <2>5 DEF Shuffled
<1>5. CASE op = "ROT_THREE"
  <2> DEFINE a == s[Len(s)]
             b == s[Len(s) - 2]
             c == s[Len(s) - 1]
  <2>1. 3 <= Len(s)
    BY <1>5, OperandsOf
  <2>2. /\ IsValue(a) /\ IsValue(b) /\ IsValue(c)
        /\ q[Len(q)] = KindOf(a) /\ q[Len(q) - 2] = KindOf(b) /\ q[Len(q) - 1] = KindOf(c)
    <3>1. Len(s) \in 1 .. Len(s) /\ Len(s) - 2 \in 1 .. Len(s) /\ Len(s) - 1 \in 1 .. Len(s)
      BY <1>1, <2>1
    <3> HIDE DEF q
    <3>2. QED BY <1>1, <3>1
  <2>3. IsStack(<<a, b, c>>) /\ KindsOf(<<a, b, c>>) = <<q[Len(q)], q[Len(q) - 2], q[Len(q) - 1]>>
    BY <2>2, ThreeKinds
  <2>4. IsStack(Dropped(s, 3)) /\ KindsOf(Dropped(s, 3)) = Dropped(q, 3)
    BY <2>1, DropKinds
  <2>5. IsStack(ROT_THREE(s)) /\ KindsOf(ROT_THREE(s)) = ROT_THREE(q)
    BY <2>3, <2>4, JoinKinds DEF ROT_THREE
  <2>6. QED BY <1>5, <2>5 DEF Shuffled
<1>6. CASE op = "SET_LINENO"
  BY <1>6 DEF Shuffled
<1>7. QED BY <1>2, <1>3, <1>4, <1>5, <1>6 DEF StackOps

(* The stack of blocks. *)
LEMMA NoBlocks == IsBlocks(<<>>)
<1> DEFINE b == <<>>
<1>1. b \in Seq({})
  OBVIOUS
<1> HIDE DEF b
<1>2. IsBlocks(b)
  BY <1>1 DEF IsBlocks
<1>3. QED BY <1>2 DEF b

LEMMA Blocks ==
  ASSUME NEW b, IsBlocks(b)
  PROVE  /\ Len(b) \in Nat /\ DOMAIN b = 1 .. Len(b)
         /\ \A k \in 1 .. Len(b) : b[k].b_level \in Nat
         /\ \A n \in 0 .. Len(b) : IsBlocks(SubSeq(b, 1, n))
         /\ \A x : x.b_level \in Nat => IsBlocks(Append(b, x))
<1>1. PICK B : b \in Seq(B) /\ \A x \in B : x.b_level \in Nat
  BY DEF IsBlocks
<1>2. Len(b) \in Nat /\ DOMAIN b = 1 .. Len(b) /\ \A k \in 1 .. Len(b) : b[k] \in B
  BY <1>1, LenProperties, ElementOfSeq
<1>3. ASSUME NEW n \in 0 .. Len(b) PROVE IsBlocks(SubSeq(b, 1, n))
  <2>1. n \in Int /\ \A k \in 1 .. n : b[k] \in B
    BY <1>2
  <2>2. SubSeq(b, 1, n) \in Seq(B)
    BY <2>1, SubSeqProperties
  <2>3. QED BY <1>1, <2>2 DEF IsBlocks
<1>4. ASSUME NEW x, x.b_level \in Nat PROVE IsBlocks(Append(b, x))
  <2>1. b \in Seq(B \cup {x})
    BY <1>1, SeqMonotonic
  <2>2. Append(b, x) \in Seq(B \cup {x})
    BY <2>1, AppendProperties
  <2>3. \A y \in B \cup {x} : y.b_level \in Nat
    BY <1>1, <1>4
  <2>4. QED BY <2>2, <2>3 DEF IsBlocks
<1>5. QED BY <1>1, <1>2, <1>3, <1>4

LEMMA Greatest ==
  ASSUME NEW n \in Nat, NEW H, H \subseteq 1 .. n, H # {}
  PROVE  Max(H) \in H
<1> DEFINE G == {n - h : h \in H}
<1>1. G \subseteq Nat /\ G # {}
  <2>1. \A h \in H : n - h \in Nat
    OBVIOUS
  <2>2. PICK h \in H : TRUE
    OBVIOUS
  <2>3. n - h \in G
    OBVIOUS
  <2>4. QED BY <2>1, <2>3
<1>2. \E x \in G : \A y \in G : ~(<<y, x>> \in OpToRel(<, Nat))
  <2> HIDE DEF G
  <2>1. QED BY <1>1, NatLessThanWellFounded, WFMin
<1>3. PICK x \in G : \A y \in G : ~(<<y, x>> \in OpToRel(<, Nat))
  BY <1>2
<1>4. ASSUME NEW y \in G PROVE x <= y
  <2>1. CASE x <= y
    BY <2>1
  <2>2. CASE ~(x <= y)
    <3>1. x \in Nat /\ y \in Nat /\ y < x
      BY <1>1, <2>2
    <3>2. <<y, x>> \in OpToRel(<, Nat)
      BY <3>1 DEF OpToRel
    <3>3. QED BY <1>3, <3>2
  <2>3. QED BY <2>1, <2>2
<1>5. PICK h \in H : x = n - h
  OBVIOUS
<1>6. \A g \in H : h >= g
  <2>1. TAKE g \in H
  <2>2. x <= n - g
    BY <1>4
  <2>3. g \in 1 .. n /\ h \in 1 .. n
    OBVIOUS
  <2>4. QED BY <1>5, <2>2, <2>3
<1>7. \E m \in H : \A g \in H : m >= g
  BY <1>6
<1>8. QED BY <1>7 DEF Max

(* What the handler of a block finds upon the values that the block found. *)
LEMMA HandlerKinds ==
  ASSUME NEW values, IsStack(values), NEW block, block.b_level \in Nat,
         NEW reason \in {"EXCEPTION", "RETURN", "BREAK"}, Handles(block, reason),
         NEW value, NEW kind, reason = "RETURN" => IsValue(value) /\ kind = KindOf(value), NEW exc
  PROVE  /\ IsStack(HandlerStack(block, values, reason, value, exc))
         /\ KindsOf(HandlerStack(block, values, reason, value, exc))
              = DownTo(KindsOf(values), block.b_level) \o FoundBy(block, reason, kind)
<1> DEFINE base == DownTo(values, block.b_level)
           kinds == DownTo(KindsOf(values), block.b_level)
<1>1. IsStack(base) /\ KindsOf(base) = kinds
  BY LevelKinds
<1> HIDE DEF base, kinds
<1>2. base \o <<>> = base /\ kinds \o <<>> = kinds
  <2>1. PICK V : base \in Seq(V)
    BY <1>1 DEF IsStack
  <2>2. kinds \in Seq(Kinds)
    BY <1>1, StackKinds
  <2>3. QED BY <2>1, <2>2, ConcatEmptySeq
<1>3. CASE block.b_type = "SETUP_LOOP"
  <2>0. reason = "BREAK"
    BY <1>3 DEF Handles
  <2>1. HandlerStack(block, values, reason, value, exc) = base
    BY <1>3, <2>0 DEF HandlerStack, base
  <2>2. FoundBy(block, reason, kind) = <<>>
    BY <1>3, <2>0 DEF FoundBy
  <2>3. QED BY <1>1, <1>2, <2>1, <2>2 DEF kinds
<1>4. CASE block.b_type # "SETUP_LOOP" /\ reason = "EXCEPTION"
  <2> DEFINE s == <<Mark("tb", exc), Mark("val", exc), Mark("exc", exc)>>
  <2>1. HandlerStack(block, values, reason, value, exc) = base \o s
    BY <1>4 DEF HandlerStack, base
  <2>2. FoundBy(block, reason, kind) = <<"tb", "val", "exc">>
    BY <1>4 DEF FoundBy
  <2>3. \A k \in {"tb", "val", "exc"} : IsValue(Mark(k, exc)) /\ KindOf(Mark(k, exc)) = k
    BY DEF IsValue, KindOf, Mark
  <2>4. IsStack(s) /\ KindsOf(s) = <<"tb", "val", "exc">>
    BY <2>3, ThreeKinds
  <2> HIDE DEF s
  <2>5. QED BY <1>1, <2>1, <2>2, <2>4, JoinKinds DEF kinds
<1>5. ASSUME reason # "EXCEPTION" PROVE IsValue(Mark("why", <<reason>>)) /\ KindOf(Mark("why", <<reason>>)) = reason
  BY <1>5 DEF IsValue, KindOf, Mark
<1>6. CASE block.b_type # "SETUP_LOOP" /\ reason = "RETURN"
  <2> DEFINE s == <<value, Mark("why", <<reason>>)>>
  <2>1. HandlerStack(block, values, reason, value, exc) = base \o s
    BY <1>6 DEF HandlerStack, base
  <2>2. FoundBy(block, reason, kind) = <<kind, "RETURN">>
    BY <1>6 DEF FoundBy
  <2>3. IsStack(s) /\ KindsOf(s) = <<kind, "RETURN">>
    BY <1>5, <1>6, TwoKinds
  <2> HIDE DEF s
  <2>4. QED BY <1>1, <2>1, <2>2, <2>3, JoinKinds DEF kinds
<1>7. CASE block.b_type # "SETUP_LOOP" /\ reason = "BREAK"
  <2> DEFINE s == <<Mark("why", <<reason>>)>>
  <2>1. HandlerStack(block, values, reason, value, exc) = base \o s
    BY <1>7 DEF HandlerStack, base
  <2>2. FoundBy(block, reason, kind) = <<"BREAK">>
    BY <1>7 DEF FoundBy
  <2>3. IsStack(s) /\ KindsOf(s) = <<"BREAK">>
    BY <1>5, <1>7, OneKind
  <2> HIDE DEF s
  <2>4. QED BY <1>1, <2>1, <2>2, <2>3, JoinKinds DEF kinds
<1>8. QED BY <1>3, <1>4, <1>6, <1>7

(* What unwinds leaves the frame or goes on in the shape of the handler.   *)
LEMMA UnwindShape ==
  ASSUME NEW values, IsStack(values), IsBlocks(f_blockstack), ~fatal,
         NEW reason \in {"EXCEPTION", "RETURN", "BREAK"},
         NEW value, NEW kind, reason = "RETURN" => IsValue(value) /\ kind = KindOf(value), NEW exc,
         why = "NOT", Unwind(reason, values, value, exc)
  PROVE  /\ UNCHANGED codeVars /\ ~fatal' /\ IsStack(stack') /\ IsBlocks(f_blockstack')
         /\ why' = "NOT" => FrameShape' \in Unwound(FrameShape, reason, KindsOf(values), kind)
<1> DEFINE H == {k \in DOMAIN f_blockstack : Handles(f_blockstack[k], reason)}
           block == f_blockstack[Max(H)]
<1>1. UNCHANGED codeVars /\ ~fatal'
  BY DEF Unwind
<1>2. CASE H = {}
  <2>1. LeaveFrame(reason, value)
    BY <1>2 DEF Unwind
  <2>2. why' # "NOT" /\ stack' = <<>> /\ f_blockstack' = <<>>
    BY <2>1 DEF LeaveFrame
  <2>3. QED BY <1>1, <2>2, NoKinds, NoBlocks
<1>3. CASE H # {}
  <2>1. /\ f_blockstack' = SubSeq(f_blockstack, 1, Max(H) - 1)
        /\ stack' = HandlerStack(block, values, reason, value, exc)
        /\ next_instr' = block.b_handler
    BY <1>3 DEF Unwind
  <2>2. Max(H) \in H /\ Max(H) \in 1 .. Len(f_blockstack)
    <3>1. Len(f_blockstack) \in Nat /\ DOMAIN f_blockstack = 1 .. Len(f_blockstack)
      BY Blocks
    <3>2. H \subseteq 1 .. Len(f_blockstack)
      BY <3>1
    <3> HIDE DEF H
    <3>3. QED BY <1>3, <3>1, <3>2, Greatest
  <2>3. Handles(block, reason) /\ block.b_level \in Nat
    BY <2>2, Blocks
  <2>4. IsBlocks(f_blockstack')
    <3>1. Max(H) - 1 \in 0 .. Len(f_blockstack)
      BY <2>2, Blocks
    <3>2. QED BY <2>1, <3>1, Blocks
  <2>5. IsStack(stack') /\ KindsOf(stack') = DownTo(KindsOf(values), block.b_level) \o FoundBy(block, reason, kind)
    <3> HIDE DEF block, H
    <3>1. \A b : b.b_level \in Nat /\ Handles(b, reason) =>
            /\ IsStack(HandlerStack(b, values, reason, value, exc))
            /\ KindsOf(HandlerStack(b, values, reason, value, exc))
                 = DownTo(KindsOf(values), b.b_level) \o FoundBy(b, reason, kind)
      BY HandlerKinds, Z3T(60)
    <3>2. QED BY <2>1, <2>3, <3>1, Zenon
  <2>6. FrameShape' = Shape(next_instr', KindsOf(stack'), f_blockstack')
    BY DEF FrameShape, KindsOf, KindOf
  <2>7. Unwound(FrameShape, reason, KindsOf(values), kind)
          = {Shape(block.b_handler, DownTo(KindsOf(values), block.b_level) \o FoundBy(block, reason, kind),
                   SubSeq(f_blockstack, 1, Max(H) - 1))}
    BY <1>3 DEF Unwound, FrameShape, Shape
  <2>8. FrameShape' \in Unwound(FrameShape, reason, KindsOf(values), kind)
    <3> HIDE DEF block, H
    <3>1. QED BY <2>1, <2>5, <2>6, <2>7
  <2>9. QED BY <1>1, <2>4, <2>5, <2>8
<1>4. QED BY <1>2, <1>3

(* Each function has a stack map; one of them is taken. *)
MapsExist ==
  \A p \in Programs : Compiled(p).errors = 0 => \E S : IsStackMap(PyCode_New(Compiled(p)), S)
StackMap(p) == CHOOSE S : IsStackMap(PyCode_New(Compiled(p)), S)

(* The shape of the frame never leaves the stack map of its function. *)
ShapeInv ==
  /\ program \in Programs /\ Compiled(program).errors = 0 /\ co = PyCode_New(Compiled(program))
  /\ ~fatal /\ IsStack(stack) /\ IsBlocks(f_blockstack)
  /\ why = "NOT" => FrameShape \in StackMap(program)

LEMMA InMap ==
  ASSUME MapsExist, ShapeInv, why = "NOT"
  PROVE  /\ FrameShape \in StackMap(program) /\ Fits(co, FrameShape)
         /\ Steps(co.code, FrameShape) \subseteq StackMap(program)
<1>1. IsStackMap(co, StackMap(program))
  BY DEF MapsExist, ShapeInv, StackMap
<1>2. FrameShape \in StackMap(program)
  BY DEF ShapeInv
<1>3. QED BY <1>1, <1>2 DEF IsStackMap

(* What is known of the next instruction. *)
LEMMA NextFits ==
  ASSUME MapsExist, ShapeInv, why = "NOT", NEW op, At(op)
  PROVE  /\ co.code[FrameShape.next + 1].op = op /\ co.code[FrameShape.next + 1].arg = oparg
         /\ NextAddr(co.code, FrameShape.next) = After /\ FrameShape.blocks = f_blockstack
         /\ FrameShape.kinds = KindsOf(stack) /\ IsStack(stack) /\ IsBlocks(f_blockstack)
         /\ Len(stack) \in Nat /\ Len(KindsOf(stack)) = Len(stack)
         /\ oparg \in Nat /\ Operands(op, oparg, KindsOf(stack)) <= Len(stack)
         /\ op \in Setups => Len(f_blockstack) < CO_MAXBLOCKS
         /\ op = "POP_BLOCK" => f_blockstack # <<>>
<1>1. FrameShape.next = next_instr /\ FrameShape.kinds = KindsOf(stack) /\ FrameShape.blocks = f_blockstack
  BY DEF FrameShape, Shape
<1>2. IsStack(stack) /\ IsBlocks(f_blockstack)
  BY DEF ShapeInv
<1>3. Len(stack) \in Nat /\ Len(KindsOf(stack)) = Len(stack)
  BY <1>2, StackKinds
<1>4. co.code[next_instr + 1].op = op
  BY DEF At
<1>5. Fits(co, FrameShape)
  BY InMap
<1>6. /\ oparg \in Nat /\ Operands(op, oparg, KindsOf(stack)) <= Len(KindsOf(stack))
      /\ op \in Setups => Len(f_blockstack) < CO_MAXBLOCKS
      /\ op = "POP_BLOCK" => f_blockstack # <<>>
  BY <1>1, <1>4, <1>5 DEF Fits, oparg
<1>7. QED BY <1>1, <1>2, <1>3, <1>4, <1>6 DEF oparg, After

(* A step of the frame that is one of its shape. *)
LEMMA StaysInMap ==
  ASSUME MapsExist, ShapeInv, why = "NOT", UNCHANGED codeVars, ~fatal',
         IsStack(stack'), IsBlocks(f_blockstack'),
         why' = "NOT" => FrameShape' \in Steps(co.code, FrameShape)
  PROVE  ShapeInv'
<1>1. why' = "NOT" => FrameShape' \in StackMap(program)
  BY InMap
<1>2. program' = program /\ co' = co
  BY DEF codeVars
<1>3. StackMap(program)' = StackMap(program)
  BY <1>2 DEF StackMap
<1>4. QED BY <1>1, <1>2, <1>3 DEF ShapeInv

LEMMA GoesInMap ==
  ASSUME MapsExist, ShapeInv, why = "NOT", NEW next, NEW values, IsStack(values), Goes(next, values),
         Shape(next, KindsOf(values), f_blockstack) \in Steps(co.code, FrameShape)
  PROVE  ShapeInv'
<1>1. FrameShape' = Shape(next_instr', KindsOf(stack'), f_blockstack')
  BY DEF FrameShape, KindsOf, KindOf
<1>2. next_instr' = next /\ stack' = values /\ f_blockstack' = f_blockstack
  BY DEF Goes
<1>3. FrameShape' \in Steps(co.code, FrameShape)
  BY <1>1, <1>2
<1>4. UNCHANGED codeVars /\ fatal' = fatal
  BY DEF Goes
<1>5. IsStack(stack') /\ IsBlocks(f_blockstack') /\ ~fatal'
  BY <1>2, <1>4 DEF ShapeInv
<1>6. QED BY <1>3, <1>4, <1>5, StaysInMap

LEMMA UnwindsInMap ==
  ASSUME MapsExist, ShapeInv, why = "NOT", NEW values, IsStack(values),
         NEW reason \in {"EXCEPTION", "RETURN", "BREAK"},
         NEW value, NEW kind, reason = "RETURN" => IsValue(value) /\ kind = KindOf(value), NEW exc,
         Unwind(reason, values, value, exc),
         Unwound(FrameShape, reason, KindsOf(values), kind) \subseteq Steps(co.code, FrameShape)
  PROVE  ShapeInv'
<1>1. IsBlocks(f_blockstack) /\ ~fatal
  BY DEF ShapeInv
<1>2. /\ UNCHANGED codeVars /\ ~fatal' /\ IsStack(stack') /\ IsBlocks(f_blockstack')
      /\ why' = "NOT" => FrameShape' \in Unwound(FrameShape, reason, KindsOf(values), kind)
  BY <1>1, UnwindShape
<1>3. QED BY <1>2, StaysInMap

LEMMA RaisesInMap ==
  ASSUME MapsExist, ShapeInv, why = "NOT", NEW values, IsStack(values), NEW exc, Raise(exc, values),
         Raised(FrameShape, KindsOf(values)) \subseteq Steps(co.code, FrameShape)
  PROVE  ShapeInv'
<1>1. Unwind("EXCEPTION", values, NULL, exc)
  BY DEF Raise
<1>2. Unwound(FrameShape, "EXCEPTION", KindsOf(values), "object") \subseteq Steps(co.code, FrameShape)
  BY DEF Raised
<1>3. QED BY <1>1, <1>2, UnwindsInMap

LEMMA ObjectOpInMap ==
  ASSUME MapsExist, ShapeInv, NEW op \in ObjectOps, ObjectOp(op)
  PROVE  ShapeInv'
<1> DEFINE n == Pops(op, oparg)
           m == Pushes(op, oparg)
           q == KindsOf(stack)
<1>1. why = "NOT" /\ At(op)
  BY DEF ObjectOp, At
<1>2. /\ co.code[FrameShape.next + 1].op = op /\ co.code[FrameShape.next + 1].arg = oparg
      /\ NextAddr(co.code, FrameShape.next) = After /\ FrameShape.blocks = f_blockstack
      /\ FrameShape.kinds = q /\ IsStack(stack) /\ Len(stack) \in Nat
      /\ oparg \in Nat /\ Operands(op, oparg, q) <= Len(stack)
  BY <1>1, NextFits
<1>3. n \in Nat /\ m \in Nat
  BY <1>2, Counts
<1>4. n <= Len(stack)
  BY <1>2, OperandsOf
<1>5. IsStack(Below(n)) /\ KindsOf(Below(n)) = Dropped(q, n)
  BY <1>2, <1>3, <1>4, DropKinds DEF Below
<1>6. Steps(co.code, FrameShape)
        = {Shape(After, Dropped(q, n) \o [k \in 1 .. m |-> "object"], f_blockstack)}
          \cup (IF op = "LOAD_CONST" THEN {} ELSE Raised(FrameShape, Dropped(q, n)))
  BY <1>2, ObjectSteps
<1> HIDE DEF n, m, q
<1>7. CASE op = "LOAD_CONST"
  <2> DEFINE v == Constant(label)
  <2>1. Goes(After, Append(stack, v))
    BY <1>7 DEF ObjectOp
  <2>2. IsValue(v) /\ KindOf(v) = "object"
    BY DEF Constant, Object, IsValue, KindOf
  <2> HIDE DEF v
  <2>3. IsStack(Append(stack, v)) /\ KindsOf(Append(stack, v)) = Append(q, "object")
    BY <1>2, <2>2, PushKinds DEF q
  <2>4. Append(q, "object") = Dropped(q, n) \o [k \in 1 .. m |-> "object"]
    <3>1. n = 0 /\ m = 1
      BY <1>7 DEF n, m, Pops, Pushes
    <3>2. q \in Seq(Kinds)
      BY <1>2, StackKinds DEF q
    <3>3. Dropped(q, 0) = q
      <4>1. Len(q) - 0 = Len(q)
        BY <3>2, LenProperties
      <4>2. QED BY <3>2, <4>1, SubSeqFull DEF Dropped
    <3>4. [k \in 1 .. 1 |-> "object"] = <<"object">>
      OBVIOUS
    <3>5. Append(q, "object") = q \o <<"object">>
      BY <3>2, AppendIsConcat DEF Kinds
    <3>6. QED BY <3>1, <3>3, <3>4, <3>5
  <2>5. Shape(After, KindsOf(Append(stack, v)), f_blockstack) \in Steps(co.code, FrameShape)
    BY <1>6, <2>3, <2>4
  <2>6. QED BY <1>1, <2>1, <2>3, <2>5, GoesInMap
<1>8. CASE op # "LOAD_CONST"
  <2>1. PICK out :
          IF out = "error" THEN Raise(<<op>> \o label, Below(n))
          ELSE Goes(After, Below(n) \o [k \in 1 .. m |-> Object(label, out)])
    BY <1>8 DEF ObjectOp, n, m
  <2>2. CASE out = "error"
    <3>1. Raise(<<op>> \o label, Below(n))
      BY <2>1, <2>2
    <3>2. Raised(FrameShape, KindsOf(Below(n))) \subseteq Steps(co.code, FrameShape)
      BY <1>5, <1>6, <1>8
    <3>3. QED BY <1>1, <1>5, <3>1, <3>2, RaisesInMap
  <2>3. CASE out # "error"
    <3> DEFINE o == Objects(m, label, out)
               objects == [k \in 1 .. m |-> "object"]
    <3>1. Goes(After, Below(n) \o o)
      BY <2>1, <2>3 DEF Objects
    <3>2. IsStack(o) /\ KindsOf(o) = objects
      BY <1>3, ObjectKinds
    <3> HIDE DEF o, objects
    <3>3. IsStack(Below(n) \o o) /\ KindsOf(Below(n) \o o) = Dropped(q, n) \o objects
      BY <1>5, <3>2, JoinKinds
    <3> USE DEF objects
    <3>4. Shape(After, KindsOf(Below(n) \o o), f_blockstack) \in Steps(co.code, FrameShape)
      BY <1>6, <3>3
    <3>5. QED BY <1>1, <3>1, <3>3, <3>4, GoesInMap
  <2>4. QED BY <2>2, <2>3
<1>9. QED BY <1>7, <1>8

LEMMA StackOpInMap ==
  ASSUME MapsExist, ShapeInv, NEW op \in StackOps, StackOp(op)
  PROVE  ShapeInv'
<1>1. why = "NOT" /\ At(op)
  BY DEF StackOp, At
<1>2. /\ co.code[FrameShape.next + 1].op = op /\ NextAddr(co.code, FrameShape.next) = After
      /\ FrameShape.blocks = f_blockstack /\ FrameShape.kinds = KindsOf(stack) /\ IsStack(stack)
      /\ Operands(op, oparg, KindsOf(stack)) <= Len(stack)
  BY <1>1, NextFits
<1>3. IsStack(Shuffled(op, stack)) /\ KindsOf(Shuffled(op, stack)) = Shuffled(op, KindsOf(stack))
  BY <1>2, ShuffleKinds
<1>5. Steps(co.code, FrameShape) = {Shape(After, Shuffled(op, KindsOf(stack)), f_blockstack)}
  BY <1>2, StackSteps
<1>6. Goes(After, Shuffled(op, stack))
  BY DEF StackOp
<1>7. QED BY <1>1, <1>3, <1>5, <1>6, GoesInMap

LEMMA JumpInMap ==
  ASSUME MapsExist, ShapeInv, NEW op \in Jumps, Jump(op)
  PROVE  ShapeInv'
<1>1. why = "NOT" /\ At(op)
  BY DEF Jump, At
<1>2. /\ co.code[FrameShape.next + 1].op = op /\ co.code[FrameShape.next + 1].arg = oparg
      /\ NextAddr(co.code, FrameShape.next) = After
      /\ FrameShape.blocks = f_blockstack /\ FrameShape.kinds = KindsOf(stack) /\ IsStack(stack)
  BY <1>1, NextFits
<1> DEFINE to(next) == Shape(next, KindsOf(stack), f_blockstack)
<1>3. ASSUME NEW next, Goes(next, stack), to(next) \in Steps(co.code, FrameShape)
      PROVE  ShapeInv'
  BY <1>1, <1>2, <1>3, GoesInMap
<1>4. CASE op = "JUMP_FORWARD"
  <2>1. Steps(co.code, FrameShape) = {to(After + oparg)}
    BY <1>2, <1>4 DEF Steps, ObjectOps, StackOps, CondJumps, Setups
  <2>2. Goes(After + oparg, stack)
    BY <1>4 DEF Jump
  <2>3. QED BY <1>3, <2>1, <2>2
<1>5. CASE op = "JUMP_ABSOLUTE"
  <2>1. Steps(co.code, FrameShape) = {to(oparg)}
    BY <1>2, <1>5 DEF Steps, ObjectOps, StackOps, CondJumps, Setups
  <2>2. Goes(oparg, stack)
    BY <1>5 DEF Jump
  <2>3. QED BY <1>3, <2>1, <2>2
<1>6. QED BY <1>4, <1>5 DEF Jumps

(* An object that is asked stays on the stack, also if it cannot answer.   *)
LEMMA JumpIfInMap ==
  ASSUME MapsExist, ShapeInv, NEW op \in CondJumps, JumpIf(op)
  PROVE  ShapeInv'
<1>1. why = "NOT" /\ At(op)
  BY DEF JumpIf, At
<1>2. /\ co.code[FrameShape.next + 1].op = op /\ co.code[FrameShape.next + 1].arg = oparg
      /\ NextAddr(co.code, FrameShape.next) = After
      /\ FrameShape.blocks = f_blockstack /\ FrameShape.kinds = KindsOf(stack) /\ IsStack(stack)
  BY <1>1, NextFits
<1> DEFINE to(next) == Shape(next, KindsOf(stack), f_blockstack)
<1>3. Steps(co.code, FrameShape)
        = {to(After)} \cup {to(After + oparg)} \cup Raised(FrameShape, KindsOf(stack))
  BY <1>2 DEF Steps, ObjectOps, StackOps, CondJumps, Setups
<1>4. \E answer : Tested(op, answer)
  BY DEF JumpIf
<1>5. \/ Raise(<<"IS_TRUE">> \o TOP.id, stack)
      \/ Goes(After, stack)
      \/ Goes(After + oparg, stack)
  BY <1>4 DEF Tested
<1>6. CASE Raise(<<"IS_TRUE">> \o TOP.id, stack)
  <2>1. Raised(FrameShape, KindsOf(stack)) \subseteq Steps(co.code, FrameShape)
    BY <1>3
  <2>2. QED BY <1>1, <1>2, <1>6, <2>1, RaisesInMap
<1>7. ASSUME NEW next, Goes(next, stack), to(next) \in Steps(co.code, FrameShape)
      PROVE  ShapeInv'
  BY <1>1, <1>2, <1>7, GoesInMap
<1>8. QED BY <1>3, <1>5, <1>6, <1>7

LEMMA SetupInMap ==
  ASSUME MapsExist, ShapeInv, NEW op \in Setups, Setup(op)
  PROVE  ShapeInv'
<1> DEFINE block == [b_type |-> op, b_handler |-> After + oparg, b_level |-> Len(stack)]
<1>1. why = "NOT" /\ At(op)
  BY DEF Setup, At
<1>2. /\ co.code[FrameShape.next + 1].op = op /\ co.code[FrameShape.next + 1].arg = oparg
      /\ NextAddr(co.code, FrameShape.next) = After
      /\ FrameShape.blocks = f_blockstack /\ FrameShape.kinds = KindsOf(stack)
      /\ IsStack(stack) /\ IsBlocks(f_blockstack) /\ Len(f_blockstack) < CO_MAXBLOCKS
      /\ Len(stack) \in Nat /\ Len(KindsOf(stack)) = Len(stack)
  BY <1>1, NextFits
<1>3. ~(Len(f_blockstack) >= CO_MAXBLOCKS)
  <2>1. Len(f_blockstack) \in Nat /\ CO_MAXBLOCKS \in Nat
    BY <1>2, Blocks, BlocksAssumption
  <2>2. QED BY <1>2, <2>1
<1>4. /\ f_blockstack' = Append(f_blockstack, block) /\ next_instr' = After
      /\ UNCHANGED <<fatal, codeVars, stack, why>>
  BY <1>3 DEF Setup
<1>5. IsBlocks(f_blockstack')
  <2>1. block.b_level \in Nat
    BY <1>2
  <2> HIDE DEF block
  <2>2. QED BY <1>2, <1>4, <2>1, Blocks
<1>6. Steps(co.code, FrameShape) = {Shape(After, KindsOf(stack), Append(f_blockstack, block))}
  BY <1>2, SetupSteps
<1> HIDE DEF block
<1>7. FrameShape' = Shape(next_instr', KindsOf(stack'), f_blockstack')
  BY DEF FrameShape, KindsOf, KindOf
<1>8. FrameShape' \in Steps(co.code, FrameShape)
  BY <1>4, <1>6, <1>7
<1>9. ~fatal' /\ IsStack(stack')
  BY <1>2, <1>4 DEF ShapeInv
<1>10. QED BY <1>1, <1>4, <1>5, <1>8, <1>9, StaysInMap

LEMMA PopBlockInMap ==
  ASSUME MapsExist, ShapeInv, POP_BLOCK
  PROVE  ShapeInv'
<1> DEFINE level == Last(f_blockstack).b_level
<1>1. why = "NOT" /\ At("POP_BLOCK")
  BY DEF POP_BLOCK, At
<1>2. /\ co.code[FrameShape.next + 1].op = "POP_BLOCK" /\ NextAddr(co.code, FrameShape.next) = After
      /\ FrameShape.blocks = f_blockstack /\ FrameShape.kinds = KindsOf(stack)
      /\ IsStack(stack) /\ IsBlocks(f_blockstack) /\ f_blockstack # <<>>
  BY <1>1, NextFits
<1>3. /\ f_blockstack' = Front(f_blockstack) /\ stack' = DownTo(stack, level) /\ next_instr' = After
      /\ UNCHANGED <<fatal, codeVars, why>>
  BY <1>2 DEF POP_BLOCK
<1>4. level \in Nat /\ IsBlocks(f_blockstack')
  <2>1. Len(f_blockstack) \in Nat /\ Len(f_blockstack) # 0
    <3>1. PICK B : f_blockstack \in Seq(B)
      BY <1>2 DEF IsBlocks
    <3>2. QED BY <1>2, <3>1, EmptySeq
  <2>2. Len(f_blockstack) \in 1 .. Len(f_blockstack) /\ Len(f_blockstack) - 1 \in 0 .. Len(f_blockstack)
    BY <2>1
  <2>3. f_blockstack[Len(f_blockstack)].b_level \in Nat /\ IsBlocks(SubSeq(f_blockstack, 1, Len(f_blockstack) - 1))
    BY <1>2, <2>2, Blocks
  <2>4. QED BY <1>3, <2>3 DEF Front, Last
<1>5. Steps(co.code, FrameShape) = {Shape(After, DownTo(KindsOf(stack), level), Front(f_blockstack))}
  BY <1>2 DEF Steps, ObjectOps, StackOps, CondJumps, Setups
<1> HIDE DEF level
<1>6. IsStack(DownTo(stack, level)) /\ KindsOf(DownTo(stack, level)) = DownTo(KindsOf(stack), level)
  BY <1>2, <1>4, LevelKinds
<1>7. FrameShape' = Shape(next_instr', KindsOf(stack'), f_blockstack')
  BY DEF FrameShape, KindsOf, KindOf
<1>8. FrameShape' \in Steps(co.code, FrameShape)
  BY <1>3, <1>5, <1>6, <1>7
<1>9. ~fatal' /\ IsStack(stack')
  BY <1>3, <1>6 DEF ShapeInv
<1>10. QED BY <1>1, <1>3, <1>4, <1>8, <1>9, StaysInMap

LEMMA ForLoopInMap ==
  ASSUME MapsExist, ShapeInv, FOR_LOOP
  PROVE  ShapeInv'
<1> DEFINE v == Object(label, "asked")
<1>1. why = "NOT" /\ At("FOR_LOOP")
  BY DEF FOR_LOOP, At
<1>2. /\ co.code[FrameShape.next + 1].op = "FOR_LOOP" /\ co.code[FrameShape.next + 1].arg = oparg
      /\ NextAddr(co.code, FrameShape.next) = After
      /\ FrameShape.blocks = f_blockstack /\ FrameShape.kinds = KindsOf(stack) /\ IsStack(stack)
      /\ Operands("FOR_LOOP", oparg, KindsOf(stack)) <= Len(stack)
  BY <1>1, NextFits
<1>3. IsStack(Below(2)) /\ KindsOf(Below(2)) = Dropped(KindsOf(stack), 2)
  <2>1. 2 <= Len(stack)
    BY <1>2, OperandsOf
  <2>2. QED BY <1>2, <2>1, DropKinds DEF Below
<1>4. IsStack(Append(stack, v)) /\ KindsOf(Append(stack, v)) = Append(KindsOf(stack), "object")
  <2>1. IsValue(v) /\ KindOf(v) = "object"
    BY DEF Object, IsValue, KindOf
  <2> HIDE DEF v
  <2>2. QED BY <1>2, <2>1, PushKinds
<1>5. Steps(co.code, FrameShape)
        = {Shape(After, Append(KindsOf(stack), "object"), f_blockstack)}
          \cup {Shape(After + oparg, Dropped(KindsOf(stack), 2), f_blockstack)}
          \cup Raised(FrameShape, Dropped(KindsOf(stack), 2))
  BY <1>2 DEF Steps, ObjectOps, StackOps, CondJumps, Setups
<1>6. PICK out \in Outcomes("FOR_LOOP") :
          CASE out = "error" -> Raise(<<"FOR_LOOP">> \o label, Below(2))
            [] out = "true"  -> Goes(After, Append(stack, v))
            [] out = "false" -> Goes(After + oparg, Below(2))
  BY DEF FOR_LOOP
<1> HIDE DEF v
<1>7. \/ Raise(<<"FOR_LOOP">> \o label, Below(2))
      \/ Goes(After, Append(stack, v))
      \/ Goes(After + oparg, Below(2))
  BY <1>6 DEF Outcomes
<1>8. CASE Raise(<<"FOR_LOOP">> \o label, Below(2))
  <2>1. Raised(FrameShape, KindsOf(Below(2))) \subseteq Steps(co.code, FrameShape)
    BY <1>3, <1>5
  <2>2. QED BY <1>1, <1>3, <1>8, <2>1, RaisesInMap
<1>9. CASE Goes(After, Append(stack, v))
  <2>1. Shape(After, KindsOf(Append(stack, v)), f_blockstack) \in Steps(co.code, FrameShape)
    BY <1>4, <1>5
  <2>2. QED BY <1>1, <1>4, <1>9, <2>1, GoesInMap
<1>10. CASE Goes(After + oparg, Below(2))
  <2>1. Shape(After + oparg, KindsOf(Below(2)), f_blockstack) \in Steps(co.code, FrameShape)
    BY <1>3, <1>5
  <2>2. QED BY <1>1, <1>3, <1>10, <2>1, GoesInMap
<1>11. QED BY <1>7, <1>8, <1>9, <1>10

(* What leaves a block or the frame. *)
LEMMA LeavesInMap ==
  ASSUME MapsExist, ShapeInv, BREAK_LOOP \/ RETURN_VALUE \/ RAISE_VARARGS
  PROVE  ShapeInv'
<1> DEFINE q == KindsOf(stack)
<1>1. CASE BREAK_LOOP
  <2>1. why = "NOT" /\ At("BREAK_LOOP") /\ Unwind("BREAK", stack, NULL, None)
    BY <1>1 DEF BREAK_LOOP, At
  <2>2. co.code[FrameShape.next + 1].op = "BREAK_LOOP" /\ FrameShape.kinds = q /\ IsStack(stack)
    BY <2>1, NextFits
  <2>3. Steps(co.code, FrameShape) = Unwound(FrameShape, "BREAK", q, "object")
    BY <2>2 DEF Steps, ObjectOps, StackOps, CondJumps, Setups
  <2>4. QED BY <2>1, <2>2, <2>3, UnwindsInMap
<1>2. CASE RETURN_VALUE
  <2>1. why = "NOT" /\ At("RETURN_VALUE") /\ Unwind("RETURN", Below(1), TOP, None)
    BY <1>2 DEF RETURN_VALUE, At
  <2>2. /\ co.code[FrameShape.next + 1].op = "RETURN_VALUE" /\ FrameShape.kinds = q /\ IsStack(stack)
        /\ Len(stack) \in Nat /\ Operands("RETURN_VALUE", oparg, q) <= Len(stack)
    BY <2>1, NextFits
  <2>3. 1 <= Len(stack) /\ 1 \in 1 .. Len(stack)
    BY <2>2, OperandsOf
  <2>4. IsStack(Below(1)) /\ KindsOf(Below(1)) = Dropped(q, 1)
    BY <2>2, <2>3, DropKinds DEF Below
  <2>5. IsValue(TOP) /\ Last(q) = KindOf(TOP)
    BY <2>2, <2>3, TopKinds DEF TOP
  <2>6. Steps(co.code, FrameShape) = Unwound(FrameShape, "RETURN", Dropped(q, 1), Last(q))
    BY <2>2 DEF Steps, ObjectOps, StackOps, CondJumps, Setups
  <2> HIDE DEF q
  <2>7. QED BY <2>1, <2>4, <2>5, <2>6, UnwindsInMap
<1>3. CASE RAISE_VARARGS
  <2>1. why = "NOT" /\ At("RAISE_VARARGS") /\ \E exc : Raise(exc, Below(oparg))
    BY <1>3 DEF RAISE_VARARGS, At
  <2>2. /\ co.code[FrameShape.next + 1].op = "RAISE_VARARGS" /\ co.code[FrameShape.next + 1].arg = oparg
        /\ FrameShape.kinds = q /\ IsStack(stack) /\ oparg \in Nat
        /\ Operands("RAISE_VARARGS", oparg, q) <= Len(stack)
    BY <2>1, NextFits
  <2>3. oparg <= Len(stack)
    BY <2>2, OperandsOf
  <2>4. IsStack(Below(oparg)) /\ KindsOf(Below(oparg)) = Dropped(q, oparg)
    BY <2>2, <2>3, DropKinds DEF Below
  <2>5. Steps(co.code, FrameShape) = Raised(FrameShape, Dropped(q, oparg))
    BY <2>2 DEF Steps, ObjectOps, StackOps, CondJumps, Setups
  <2>6. QED BY <2>1, <2>4, <2>5, RaisesInMap
<1>4. QED BY <1>1, <1>2, <1>3

LEMMA EndFinallyInMap ==
  ASSUME MapsExist, ShapeInv, END_FINALLY
  PROVE  ShapeInv'
<1> DEFINE q == KindsOf(stack)
           n == Operands("END_FINALLY", oparg, q)
<1>1. why = "NOT" /\ At("END_FINALLY")
  BY DEF END_FINALLY, At
<1>2. /\ co.code[FrameShape.next + 1].op = "END_FINALLY" /\ NextAddr(co.code, FrameShape.next) = After
      /\ FrameShape.blocks = f_blockstack /\ FrameShape.kinds = q /\ IsStack(stack)
      /\ Len(stack) \in Nat /\ Len(q) = Len(stack) /\ n <= Len(stack)
  BY <1>1, NextFits
<1>3. Steps(co.code, FrameShape) = EndedFinally(FrameShape, After)
  BY <1>2 DEF Steps, ObjectOps, StackOps, CondJumps, Setups
<1>4. q # <<>> /\ n = CASE Last(q) = "exc" -> 3 [] Last(q) = "RETURN" -> 2 [] OTHER -> 1
  <2>1. n = IF q = <<>> THEN 1 ELSE CASE Last(q) = "exc" -> 3 [] Last(q) = "RETURN" -> 2 [] OTHER -> 1
    BY OperandsOf
  <2> HIDE DEF n
  <2>2. q = <<>> => Len(q) = 0
    <3> HIDE DEF q
    <3>1. QED OBVIOUS
  <2>3. QED BY <1>2, <2>1, <2>2
<1>5. 1 \in 1 .. Len(stack)
  <2>1. q \in Seq(Kinds)
    BY <1>2, StackKinds
  <2>2. QED BY <1>2, <1>4, <2>1, EmptySeq
<1>6. IsValue(TOP) /\ Last(q) = KindOf(TOP)
  BY <1>2, <1>5, TopKinds DEF TOP
<1>7. ASSUME NEW k \in 1 .. 3, k <= Len(stack)
      PROVE  IsStack(Below(k)) /\ KindsOf(Below(k)) = Dropped(q, k)
  BY <1>2, <1>7, DropKinds DEF Below
<1> HIDE DEF n
<1>8. CASE Last(q) = "RETURN"
  <2>1. TOP.kind = "why" /\ TOP.id = <<"RETURN">>
    BY <1>6, <1>8 DEF IsValue, KindOf
  <2>2. Unwind("RETURN", Below(2), stack[Len(stack) - 1], None)
    BY <2>1 DEF END_FINALLY
  <2>3. 2 <= Len(stack)
    BY <1>2, <1>4, <1>8
  <2>4. IsStack(Below(2)) /\ KindsOf(Below(2)) = Dropped(q, 2)
    BY <1>7, <2>3
  <2>5. IsValue(stack[Len(stack) - 1]) /\ q[Len(q) - 1] = KindOf(stack[Len(stack) - 1])
    <3>1. \A k \in 1 .. Len(stack) : IsValue(stack[k]) /\ q[k] = KindOf(stack[k])
      BY <1>2, StackKinds
    <3>2. Len(stack) - 1 \in 1 .. Len(stack) /\ Len(q) - 1 = Len(stack) - 1
      BY <1>2, <2>3
    <3> HIDE DEF q
    <3>3. QED BY <3>1, <3>2
  <2>6. Steps(co.code, FrameShape) = Unwound(FrameShape, "RETURN", Dropped(q, 2), q[Len(q) - 1])
    BY <1>2, <1>3, <1>8 DEF EndedFinally
  <2> HIDE DEF q
  <2>7. QED BY <1>1, <2>2, <2>4, <2>5, <2>6, UnwindsInMap
<1>9. CASE Last(q) = "BREAK"
  <2>1. TOP.kind = "why" /\ TOP.id = <<"BREAK">>
    BY <1>6, <1>9 DEF IsValue, KindOf
  <2>2. Unwind("BREAK", Below(1), NULL, None)
    BY <2>1 DEF END_FINALLY
  <2>3. IsStack(Below(1)) /\ KindsOf(Below(1)) = Dropped(q, 1)
    BY <1>5, <1>7
  <2>4. Steps(co.code, FrameShape) = Unwound(FrameShape, "BREAK", Dropped(q, 1), "object")
    BY <1>2, <1>3, <1>9 DEF EndedFinally
  <2> HIDE DEF q
  <2>5. QED BY <1>1, <2>2, <2>3, <2>4, UnwindsInMap
<1>10. CASE Last(q) = "exc"
  <2>1. TOP.kind = "exc"
    BY <1>6, <1>10 DEF IsValue, KindOf
  <2>2. Raise(TOP.id, Below(3))
    BY <2>1 DEF END_FINALLY
  <2>3. 3 <= Len(stack)
    BY <1>2, <1>4, <1>10
  <2>4. IsStack(Below(3)) /\ KindsOf(Below(3)) = Dropped(q, 3)
    BY <1>7, <2>3
  <2>5. Steps(co.code, FrameShape) = Raised(FrameShape, Dropped(q, 3))
    BY <1>2, <1>3, <1>10 DEF EndedFinally
  <2> HIDE DEF q
  <2>6. QED BY <1>1, <2>2, <2>4, <2>5, RaisesInMap
<1>11. CASE Last(q) \notin {"RETURN", "BREAK", "exc"}
  <2>1. TOP.kind \in {"object", "tb", "val"}
    BY <1>6, <1>11 DEF IsValue, KindOf
  <2>2. Goes(After, Below(1)) \/ \E exc : Raise(exc, Below(1))
    BY <2>1 DEF END_FINALLY
  <2>3. IsStack(Below(1)) /\ KindsOf(Below(1)) = Dropped(q, 1)
    BY <1>5, <1>7
  <2>4. Steps(co.code, FrameShape)
          = {Shape(After, Dropped(q, 1), f_blockstack)} \cup Raised(FrameShape, Dropped(q, 1))
    BY <1>2, <1>3, <1>11 DEF EndedFinally
  <2> HIDE DEF q
  <2>5. QED BY <1>1, <2>2, <2>3, <2>4, GoesInMap, RaisesInMap
<1>12. QED BY <1>8, <1>9, <1>10, <1>11

LEMMA InitInMap ==
  ASSUME MapsExist, EvalInit
  PROVE  ShapeInv
<1>1. program \in Programs /\ Compiled(program).errors = 0 /\ co = PyCode_New(Compiled(program)) /\ ~fatal
  BY DEF EvalInit
<1>2. IsStackMap(co, StackMap(program))
  BY <1>1 DEF MapsExist, StackMap
<1>3. stack = <<>> /\ f_blockstack = <<>> /\ next_instr = 0
  BY DEF EvalInit
<1>4. IsStack(stack) /\ IsBlocks(f_blockstack) /\ FrameShape = FirstShape
  BY <1>3, NoKinds, NoBlocks DEF FrameShape, FirstShape
<1>5. QED BY <1>1, <1>2, <1>4 DEF IsStackMap, ShapeInv

LEMMA StepInMap ==
  ASSUME MapsExist, ShapeInv, [EvalNext]_evalVars
  PROVE  ShapeInv'
<1>1. CASE UNCHANGED evalVars
  <2>1. UNCHANGED <<program, co, next_instr, stack, f_blockstack, why, fatal>>
    BY <1>1 DEF evalVars, codeVars
  <2>2. FrameShape' = FrameShape
    BY <2>1 DEF FrameShape, KindsOf, KindOf
  <2>3. StackMap(program)' = StackMap(program)
    BY <2>1 DEF StackMap
  <2>4. QED BY <2>1, <2>2, <2>3 DEF ShapeInv
<1>2. QED
  BY <1>1, ObjectOpInMap, StackOpInMap, JumpInMap, JumpIfInMap, SetupInMap, PopBlockInMap, ForLoopInMap,
     LeavesInMap, EndFinallyInMap DEF EvalNext

(* If the code of each function that compiles has a stack map, its frame   *)
(* fits for ever: however often its loops go round and whatever fails,     *)
(* neither stack has more than there is room for, neither runs empty, no   *)
(* instruction takes what was there before a block, and each instruction   *)
(* begins where one was emitted.                                           *)
THEOREM StacksAlwaysFit == ASSUME MapsExist PROVE EvalSpec => []StacksFit
<1>1. EvalInit => ShapeInv
  BY InitInMap
<1>2. ShapeInv /\ [EvalNext]_evalVars => ShapeInv'
  BY StepInMap
<1>3. ShapeInv => StacksFit
  BY InMap DEF StacksFit, ShapeInv
<1>4. QED BY <1>1, <1>2, <1>3, PTL DEF EvalSpec

-----------------------------------------------------------------------------
(* The table of line numbers (compile.c). *)

(* Every pair goes on from where the one before it went on to, and the     *)
(* first from the first line.  Code without a line is at the beginning.    *)
TableInv ==
  /\ Len(begins) = Len(c_lnotab) + 1 /\ begins[1] = [addr |-> 0, line |-> c_firstlineno]
  /\ \A k \in 1 .. Len(c_lnotab) : begins[k + 1] =
       [addr |-> begins[k].addr + c_lnotab[k].addr, line |-> begins[k].line + c_lnotab[k].line]
  /\ c_firstlineno = 0 => c_lnotab = <<>> /\ c_last_addr = 0 /\ c_lineno = 0 /\ phase # "table"
                          /\ \A k \in 1 .. c_nexti : c_lines[k] = 0

(* Where the table has got to, and what is left to write of it. *)
LastInv ==
  LET last == begins[Len(begins)]
  IN exact =>
       IF phase = "table"
       THEN /\ last.addr + incr_addr = c_nexti /\ last.line + incr_line = c_lineno
            /\ incr_addr >= 0 /\ incr_line >= 0
            /\ incr_line > 0 => incr_addr < ByteValues
       ELSE last.addr = c_last_addr /\ last.line = c_last_line /\ last.line = c_lineno

(* From the address where a pair goes on, to the next such address, all    *)
(* code that has a line has that one.                                      *)
RightInv ==
  exact => \A k \in 1 .. Len(begins) :
    /\ begins[k].addr <= c_nexti
    /\ \A a \in 0 .. c_nexti - 1 :
         begins[k].addr <= a /\ (k < Len(begins) => a < begins[k + 1].addr)
           => c_lines[a + 1] \in {0, begins[k].line}

(* The reader is where a pair goes on. *)
ReadInv ==
  /\ phase \in {"read", "found"} =>
       /\ addrq \in 0 .. c_nexti - 1 /\ nth \in 1 .. Len(begins) /\ addr <= addrq
       /\ addr = begins[nth].addr /\ line = begins[nth].line
  /\ phase = "found" /\ nth < Len(begins) => addrq < begins[nth + 1].addr

Step == [addr : Int, line : Int]

LineTypes ==
  /\ phase \in {"emit", "table", "ended", "read", "found"} /\ exact \in BOOLEAN
  /\ c_lines \in Seq(Int) /\ c_lineno \in Int /\ c_firstlineno \in Int
  /\ c_last_addr \in Int /\ c_last_line \in Int /\ c_lnotab \in Seq(Step) /\ begins \in Seq(Step)
  /\ incr_addr \in Int /\ incr_line \in Int
  /\ addrq \in Int /\ nth \in Nat \ {0} /\ addr \in Int /\ line \in Int

LineInv == LineTypes /\ TableInv /\ LastInv /\ RightInv /\ ReadInv

(* What is cut to a byte, and what is left of it. *)
LEMMA TruncToByte ==
  ASSUME NEW x \in Int
  PROVE  /\ Truncated(x) \in Int /\ Truncated(x) % ByteValues \in Int
         /\ x >= 0 => /\ Truncated(x) >= 0 /\ x - Truncated(x) >= 0 /\ Truncated(x) % ByteValues = Truncated(x)
         /\ x \in 0 .. ByteValues - 1 => Truncated(x) = x
<1>1. ByteValues \in Nat /\ ByteValues > 1
  BY LineAssumption
<1>2. Truncated(x) \in Int /\ Truncated(x) <= ByteValues - 1
  BY <1>1 DEF Truncated
<1>3. Truncated(x) % ByteValues \in Int
  BY <1>1, <1>2
<1>4. x >= 0 => Truncated(x) >= 0 /\ x - Truncated(x) >= 0
  BY <1>1 DEF Truncated
<1>5. \A y \in 0 .. ByteValues - 1 : y % ByteValues = y
  BY <1>1
<1>6. x >= 0 => Truncated(x) % ByteValues = Truncated(x)
  BY <1>1, <1>2, <1>4, <1>5
<1> QED
  BY <1>1, <1>2, <1>3, <1>4, <1>6 DEF Truncated

LEMMA StepTypes ==
  ASSUME NEW steps \in Seq(Step), NEW k \in 1 .. Len(steps)
  PROVE  steps[k] \in Step /\ steps[k].addr \in Int /\ steps[k].line \in Int
<1>1. steps[k] \in Step
  OBVIOUS
<1> QED
  BY <1>1 DEF Step

LEMMA LinesBegin == LineInit => LineInv
<1> SUFFICES ASSUME LineInit PROVE LineInv
  OBVIOUS
<1>1. LineTypes
  BY DEF LineInit, LineTypes, Step
<1>2. begins = <<[addr |-> 0, line |-> 0]>> /\ Len(begins) = 1 /\ begins[1] = [addr |-> 0, line |-> 0]
  BY DEF LineInit
<1>3. c_lines = <<>> /\ c_lnotab = <<>> /\ Len(c_lnotab) = 0 /\ c_nexti = 0
  BY DEF LineInit, c_nexti
<1>4. TableInv
  BY <1>2, <1>3 DEF LineInit, TableInv
<1>5. LastInv /\ RightInv /\ ReadInv
  BY <1>2, <1>3 DEF LineInit, LastInv, RightInv, ReadInv
<1> QED
  BY <1>1, <1>4, <1>5 DEF LineInv

(* A line is begun. *)
LEMMA SetLineno ==
  ASSUME LineInv, NEW lineno \in Lines, BeginLine(lineno)
  PROVE  LineInv'
<1> lineno \in Int
  BY LineAssumption DEF Lines
<1> USE DEF LineInv, LineTypes
<1>1. c_nexti' = c_nexti /\ c_nexti \in Nat /\ c_lines' = c_lines
  BY DEF BeginLine, c_nexti
<1>2. ReadInv'
  BY DEF BeginLine, ReadInv
<1>3. CASE c_firstlineno = 0
  <2>1. /\ begins' = <<[addr |-> 0, line |-> lineno]>> /\ Len(begins') = 1
        /\ begins'[1] = [addr |-> 0, line |-> lineno]
    BY <1>3 DEF BeginLine
  <2>2. /\ c_lnotab' = <<>> /\ phase' = "emit" /\ c_last_addr' = 0
        /\ \A k \in 1 .. c_nexti : c_lines[k] = 0
    BY <1>3, <1>1 DEF BeginLine, TableInv
  <2>3. LineTypes'
    <3>1. [addr |-> 0, line |-> lineno] \in Step
      BY DEF Step
    <3>2. begins' \in Seq(Step)
      BY <2>1, <3>1
    <3> QED
      BY <1>3, <2>2, <3>2 DEF BeginLine, readVars
  <2>4. TableInv'
    BY <1>1, <1>3, <2>1, <2>2 DEF BeginLine, TableInv
  <2>5. LastInv'
    BY <1>3, <2>1, <2>2 DEF BeginLine, LastInv
  <2>6. RightInv'
    BY <1>1, <2>1, <2>2 DEF RightInv
  <2> QED
    BY <1>2, <2>3, <2>4, <2>5, <2>6
<1>4. CASE c_firstlineno # 0
  <2>1. begins' = begins /\ c_lnotab' = c_lnotab /\ c_firstlineno' = c_firstlineno /\ phase' = "table"
    BY <1>4 DEF BeginLine
  <2>2. LineTypes'
    BY <1>4, <1>1, <2>1 DEF BeginLine, readVars
  <2>3. TableInv'
    BY <1>4, <2>1 DEF TableInv
  <2>4. RightInv'
    BY <1>1, <2>1, <1>4 DEF BeginLine, RightInv
  <2>5. LastInv'
    <3> SUFFICES ASSUME exact'
                 PROVE  LET last == begins[Len(begins)]
                        IN /\ last.addr + incr_addr' = c_nexti /\ last.line + incr_line' = c_lineno'
                           /\ incr_addr' >= 0 /\ incr_line' >= 0
                           /\ incr_line' > 0 => incr_addr' < ByteValues
      BY <1>1, <2>1 DEF LastInv
    <3>1. exact /\ incr_line' >= 0 /\ (incr_line' > 0 => incr_addr' < ByteValues)
      BY <1>4 DEF BeginLine
    <3>2. begins[Len(begins)].addr = c_last_addr /\ begins[Len(begins)].line = c_last_line
      BY <3>1, <1>4 DEF LastInv, BeginLine
    <3>3. Len(begins) \in 1 .. Len(begins)
      BY <1>4 DEF TableInv
    <3>4. begins[Len(begins)].addr <= c_nexti
      BY <3>1, <3>3 DEF RightInv
    <3> QED
      BY <1>1, <1>4, <3>1, <3>2, <3>4 DEF BeginLine
  <2> QED
    BY <1>2, <2>2, <2>3, <2>4, <2>5
<1> QED
  BY <1>3, <1>4

(* A pair is written. *)
LEMMA AddLnotab ==
  ASSUME LineInv, com_add_lnotab
  PROVE  LineInv'
<1> USE DEF LineInv, LineTypes
<1> DEFINE L == Len(begins)
           from == begins[L]
           pair == [addr |-> Truncated(incr_addr), line |-> Truncated(incr_line) % ByteValues]
           to == [addr |-> from.addr + pair.addr, line |-> from.line + pair.line]
<1>1. phase = "table" /\ phase' = phase /\ c_firstlineno # 0 /\ UNCHANGED <<emitVars, c_last_addr, c_last_line, readVars>>
  BY DEF com_add_lnotab, AddPair, TableInv
<1>2. L \in Nat \ {0} /\ L = Len(c_lnotab) + 1 /\ from \in Step
  BY <1>1 DEF TableInv
<1>3. pair \in Step /\ to \in Step /\ incr_addr' \in Int /\ incr_line' \in Int
  <2>1. /\ Truncated(incr_addr) \in Int /\ Truncated(incr_line) \in Int
        /\ Truncated(incr_line) % ByteValues \in Int
    BY TruncToByte
  <2>2. pair \in Step
    BY <2>1 DEF Step
  <2>3. to \in Step
    BY <2>1, <1>2 DEF Step
  <2>4. incr_addr' \in Int /\ incr_line' \in Int
    BY <2>1 DEF com_add_lnotab
  <2> QED
    BY <2>2, <2>3, <2>4
<1>4. /\ begins' = Append(begins, to) /\ c_lnotab' = Append(c_lnotab, pair)
      /\ incr_addr' = incr_addr - Truncated(incr_addr) /\ incr_line' = incr_line - Truncated(incr_line)
  BY DEF com_add_lnotab, AddPair
<1>5. /\ begins' \in Seq(Step) /\ c_lnotab' \in Seq(Step) /\ Len(begins') = L + 1 /\ Len(c_lnotab') = L
      /\ \A k \in 1 .. L : begins'[k] = begins[k]
      /\ \A k \in 1 .. L - 1 : c_lnotab'[k] = c_lnotab[k]
      /\ begins'[L + 1] = to /\ c_lnotab'[L] = pair
  <2> HIDE DEF to, pair
  <2> QED
    BY <1>2, <1>3, <1>4
<1>6. c_nexti' = c_nexti /\ c_nexti \in Nat /\ c_lines' = c_lines
  BY <1>1 DEF emitVars, c_nexti
<1>7. LineTypes'
  BY <1>1, <1>3, <1>5 DEF emitVars, readVars
<1>8. TableInv'
  <2>1. ASSUME NEW k \in 1 .. L
        PROVE  begins'[k + 1] = [addr |-> begins'[k].addr + c_lnotab'[k].addr,
                                 line |-> begins'[k].line + c_lnotab'[k].line]
    <3>1. CASE k = L
      BY <3>1, <1>2, <1>5
    <3>2. CASE k # L
      <4>1. k \in 1 .. Len(c_lnotab) /\ k \in 1 .. L - 1 /\ k + 1 \in 1 .. L
        BY <3>2, <1>2
      <4> QED
        BY <4>1, <1>1, <1>5 DEF TableInv
    <3> QED
      BY <3>1, <3>2
  <2>2. begins'[1] = begins[1] /\ c_firstlineno' = c_firstlineno
    <3>1. 1 \in 1 .. L
      BY <1>2
    <3> HIDE DEF L, from, to, pair
    <3>2. begins'[1] = begins[1]
      BY <3>1, <1>5
    <3> QED
      BY <3>2, <1>1 DEF emitVars
  <2> QED
    BY <2>1, <2>2, <1>1, <1>5, <1>2 DEF TableInv
<1>9. exact' => /\ exact /\ from.addr + incr_addr = c_nexti /\ from.line + incr_line = c_lineno
                /\ incr_addr >= 0 /\ incr_line >= 0 /\ (incr_line > 0 => incr_addr < ByteValues)
                /\ pair.addr = Truncated(incr_addr) /\ pair.line = Truncated(incr_line)
                /\ pair.addr >= 0 /\ pair.line >= 0 /\ incr_addr' >= 0 /\ incr_line' >= 0
  <2>1. exact' = exact
    BY <1>1 DEF emitVars
  <2>2. exact => /\ from.addr + incr_addr = c_nexti /\ from.line + incr_line = c_lineno
                 /\ incr_addr >= 0 /\ incr_line >= 0 /\ (incr_line > 0 => incr_addr < ByteValues)
    BY <1>1 DEF LastInv
  <2> QED
    BY <2>1, <2>2, <1>4, TruncToByte
<1>10. exact' => /\ to.addr + incr_addr' = c_nexti /\ to.line + incr_line' = c_lineno
  <2>1. Truncated(incr_addr) \in Int /\ Truncated(incr_line) \in Int
    BY TruncToByte
  <2>2. from.addr \in Int /\ from.line \in Int
    BY <1>2 DEF Step
  <2>3. to.addr = from.addr + pair.addr /\ to.line = from.line + pair.line
    OBVIOUS
  <2> HIDE DEF to, from, pair
  <2> SUFFICES ASSUME exact'
               PROVE  to.addr + incr_addr' = c_nexti /\ to.line + incr_line' = c_lineno
    OBVIOUS
  <2>5. /\ from.addr + incr_addr = c_nexti /\ from.line + incr_line = c_lineno
        /\ pair.addr = Truncated(incr_addr) /\ pair.line = Truncated(incr_line)
    BY <1>9
  <2>6. to.addr + incr_addr' = c_nexti
    BY <2>1, <2>2, <2>3, <2>5, <1>4
  <2>7. to.line + incr_line' = c_lineno
    BY <2>1, <2>2, <2>3, <2>5, <1>4
  <2> QED
    BY <2>6, <2>7
<1>11. exact' /\ incr_addr' > 0 => incr_line = 0 /\ to.line = from.line
  <2> SUFFICES ASSUME exact', incr_addr' > 0
               PROVE  incr_line = 0 /\ to.line = from.line
    OBVIOUS
  <2>1. incr_addr >= ByteValues
    BY <1>4, <1>9, TruncToByte, LineAssumption
  <2>2. incr_line = 0
    BY <2>1, <1>9, LineAssumption
  <2>3. Truncated(incr_line) = 0
    BY <2>2, TruncToByte, LineAssumption
  <2> QED
    BY <2>2, <2>3, <1>2, <1>9 DEF Step
<1>12. LastInv'
  <2>1. exact' => (incr_line' > 0 => incr_addr' < ByteValues)
    <3> SUFFICES ASSUME exact', incr_addr' > 0
                 PROVE  incr_line' = 0
      BY <1>3, LineAssumption
    <3>1. incr_line = 0
      BY <1>11
    <3>2. Truncated(0) = 0
      BY TruncToByte, LineAssumption
    <3> QED
      BY <3>1, <3>2, <1>4
  <2>2. c_lineno' = c_lineno /\ begins'[Len(begins')] = to
    BY <1>1, <1>5 DEF emitVars
  <2> HIDE DEF to
  <2> QED
    BY <1>1, <1>6, <1>9, <1>10, <2>1, <2>2 DEF LastInv
<1>13. RightInv'
  <2> SUFFICES ASSUME exact', NEW k \in 1 .. L + 1
               PROVE  /\ begins'[k].addr <= c_nexti
                      /\ \A a \in 0 .. c_nexti - 1 :
                           begins'[k].addr <= a /\ (k < L + 1 => a < begins'[k + 1].addr)
                             => c_lines[a + 1] \in {0, begins'[k].line}
    BY <1>5, <1>6 DEF RightInv
  <2>1. exact /\ to.addr >= from.addr /\ to.addr \in Int /\ to.line \in Int /\ from.addr \in Int
    BY <1>2, <1>3, <1>9 DEF Step
  <2>2. \A a \in 0 .. c_nexti - 1 : from.addr <= a => c_lines[a + 1] \in {0, from.line}
    <3>1. L \in 1 .. Len(begins) /\ ~(L < Len(begins))
      BY <1>2
    <3> QED
      BY <3>1, <2>1 DEF RightInv
  <2>3. CASE k = L + 1
    <3>1. begins'[k] = to
      BY <2>3, <1>5
    <3> HIDE DEF to, from, pair
    <3>2. to.addr <= c_nexti
      BY <2>1, <1>3, <1>6, <1>9, <1>10
    <3>3. ASSUME NEW a \in 0 .. c_nexti - 1, to.addr <= a
          PROVE  c_lines[a + 1] \in {0, to.line}
      <4>1. incr_addr' > 0
        BY <3>3, <2>1, <1>3, <1>6, <1>10
      <4>2. from.addr <= a
        BY <3>3, <2>1, <1>6
      <4> QED
        BY <4>1, <4>2, <2>2, <1>11
    <3> QED
      BY <2>3, <3>1, <3>2, <3>3
  <2>4. CASE k = L
    <3>1. begins'[k] = from
      <4>1. k \in 1 .. L
        BY <2>4, <1>2
      <4> QED
        BY <4>1, <2>4, <1>5
    <3>2. from.addr <= c_nexti
      BY <2>1, <2>4, <1>2 DEF RightInv
    <3> HIDE DEF to, from
    <3> QED
      BY <3>1, <3>2, <2>2
  <2>5. CASE k \in 1 .. L - 1
    <3>1. k < L /\ k < L + 1 /\ k \in 1 .. L /\ k + 1 \in 1 .. L
      BY <2>5, <1>2
    <3>2. begins'[k] = begins[k] /\ begins'[k + 1] = begins[k + 1]
      BY <3>1, <1>5
    <3> QED
      BY <3>1, <3>2, <2>1 DEF RightInv
  <2>6. k = L + 1 \/ k = L \/ k \in 1 .. L - 1
    BY <1>2
  <2> QED
    BY <2>3, <2>4, <2>5, <2>6, Zenon
<1>14. ReadInv'
  BY <1>1 DEF ReadInv
<1> QED
  BY <1>7, <1>8, <1>12, <1>13, <1>14

(* The line is begun. *)
LEMMA LineIsSet ==
  ASSUME LineInv, LineSet
  PROVE  LineInv'
<1> USE DEF LineInv, LineTypes
<1>1. /\ phase = "table" /\ phase' = "emit" /\ incr_addr <= 0 /\ incr_line <= 0
      /\ c_last_addr' = c_nexti /\ c_last_line' = c_lineno
      /\ begins' = begins /\ c_lnotab' = c_lnotab /\ c_lines' = c_lines /\ c_nexti' = c_nexti
      /\ exact' = exact /\ c_lineno' = c_lineno /\ c_firstlineno' = c_firstlineno /\ c_firstlineno # 0
  BY DEF LineSet, emitVars, c_nexti, TableInv
<1>2. LineTypes'
  BY <1>1 DEF LineSet, emitVars, readVars, c_nexti
<1>3. TableInv' /\ RightInv' /\ ReadInv'
  BY <1>1 DEF TableInv, RightInv, ReadInv
<1>4. LastInv'
  <2>1. Len(begins) \in 1 .. Len(begins) /\ begins[Len(begins)] \in Step /\ c_nexti \in Nat
    BY <1>1 DEF TableInv, c_nexti
  <2>2. begins[Len(begins)].addr \in Int /\ begins[Len(begins)].line \in Int
    BY <2>1 DEF Step
  <2> QED
    BY <1>1, <2>1, <2>2 DEF LastInv
<1> QED
  BY <1>2, <1>3, <1>4

(* Code is written. *)
LEMMA AddCode ==
  ASSUME LineInv, NEW size \in Nat, EmitCode(size)
  PROVE  LineInv'
<1> USE DEF LineInv, LineTypes
<1> DEFINE more == [k \in 1 .. size |-> c_lineno]
<1>1. /\ phase = "emit" /\ phase' = phase /\ c_lines' = c_lines \o more
      /\ begins' = begins /\ c_lnotab' = c_lnotab /\ exact' = exact /\ c_lineno' = c_lineno
      /\ c_firstlineno' = c_firstlineno /\ c_last_addr' = c_last_addr /\ c_last_line' = c_last_line
  BY DEF EmitCode, tableVars
<1>2. /\ more \in Seq(Int) /\ Len(more) = size /\ \A k \in 1 .. size : more[k] = c_lineno
  OBVIOUS
<1>3. /\ c_lines' \in Seq(Int) /\ c_nexti \in Nat /\ c_nexti' = c_nexti + size
      /\ \A k \in 1 .. c_nexti : c_lines'[k] = c_lines[k]
      /\ \A k \in c_nexti + 1 .. c_nexti + size : c_lines'[k] = c_lineno
  <2> HIDE DEF more
  <2>1. c_lines' = c_lines \o more /\ c_lines \in Seq(Int)
    BY <1>1
  <2>2. more \in Seq(Int) /\ Len(more) = size
    BY <1>2
  <2>3. c_lines' \in Seq(Int) /\ Len(c_lines') = Len(c_lines) + size
    BY <2>1, <2>2, ConcatProperties
  <2>4. /\ \A k \in 1 .. Len(c_lines) : c_lines'[k] = c_lines[k]
        /\ \A k \in Len(c_lines) + 1 .. Len(c_lines) + size : c_lines'[k] = more[k - Len(c_lines)]
    BY <2>1, <2>2
  <2>5. \A k \in Len(c_lines) + 1 .. Len(c_lines) + size : k - Len(c_lines) \in 1 .. size
    BY <2>1
  <2> QED
    BY <2>1, <2>3, <2>4, <2>5, <1>2 DEF c_nexti
<1>4. LineTypes'
  BY <1>1, <1>3 DEF EmitCode, tableVars, readVars
<1>5. TableInv'
  <2>1. ASSUME c_firstlineno = 0, NEW k \in 1 .. c_nexti'
        PROVE  c_lines'[k] = 0
    BY <2>1, <1>3 DEF TableInv
  <2> QED
    BY <2>1, <1>1 DEF TableInv
<1>6. LastInv'
  BY <1>1 DEF LastInv
<1>7. RightInv'
  <2> SUFFICES ASSUME exact, NEW k \in 1 .. Len(begins)
               PROVE  /\ begins[k].addr <= c_nexti'
                      /\ \A a \in 0 .. c_nexti' - 1 :
                           begins[k].addr <= a /\ (k < Len(begins) => a < begins[k + 1].addr)
                             => c_lines'[a + 1] \in {0, begins[k].line}
    BY <1>1 DEF RightInv
  <2>1. begins[k].addr <= c_nexti /\ begins[k].addr \in Int
    BY StepTypes DEF RightInv
  <2>2. ASSUME NEW a \in 0 .. c_nexti' - 1, begins[k].addr <= a, k < Len(begins) => a < begins[k + 1].addr
        PROVE  c_lines'[a + 1] \in {0, begins[k].line}
    <3>1. CASE a < c_nexti
      <4>1. a \in 0 .. c_nexti - 1 /\ a + 1 \in 1 .. c_nexti
        BY <3>1, <1>3
      <4> QED
        BY <4>1, <2>2, <1>3 DEF RightInv
    <3>2. CASE a >= c_nexti
      <4>1. k = Len(begins)
        <5>1. k < Len(begins) => k + 1 \in 1 .. Len(begins)
          OBVIOUS
        <5>2. k < Len(begins) => begins[k + 1].addr <= c_nexti /\ begins[k + 1].addr \in Int
          BY <5>1, StepTypes DEF RightInv
        <5> QED
          BY <5>2, <2>2, <3>2, <1>3
      <4>2. begins[k].line = c_lineno
        BY <4>1, <1>1 DEF LastInv
      <4>3. a + 1 \in c_nexti + 1 .. c_nexti + size
        BY <3>2, <1>3
      <4> QED
        BY <4>2, <4>3, <1>3
    <3> QED
      BY <3>1, <3>2, <1>3
  <2> QED
    BY <2>1, <2>2, <1>3
<1>8. ReadInv'
  BY <1>1 DEF ReadInv
<1> QED
  BY <1>4, <1>5, <1>6, <1>7, <1>8

(* The reader changes nothing of the table. *)
LEMMA Reading ==
  ASSUME LineInv, UNCHANGED <<emitVars, tableVars>>,
         phase # "table", phase' # "table"
  PROVE  TableInv' /\ LastInv' /\ RightInv' /\ c_nexti' = c_nexti
<1>1. TableInv'
  BY DEF LineInv, TableInv, emitVars, tableVars, c_nexti
<1>2. LastInv'
  BY DEF LineInv, LastInv, emitVars, tableVars
<1>3. RightInv' /\ c_nexti' = c_nexti
  BY DEF LineInv, RightInv, emitVars, tableVars, c_nexti
<1> QED
  BY <1>1, <1>2, <1>3

LEMMA LineStep ==
  ASSUME LineInv, [LineNext]_lineVars
  PROVE  LineInv'
<1> USE DEF LineInv, LineTypes
<1>1. ASSUME NEW lineno \in Lines, BeginLine(lineno)
      PROVE  LineInv'
  BY <1>1, SetLineno
<1>2. ASSUME NEW size \in {1, 3}, EmitCode(size)
      PROVE  LineInv'
  BY <1>2, AddCode
<1>3. ASSUME NEW q \in 0 .. c_nexti - 1, Addr2Line(q)
      PROVE  LineInv'
  <2>1. c_nexti \in Nat
    BY DEF c_nexti
  <2>2. TableInv' /\ LastInv' /\ RightInv' /\ c_nexti' = c_nexti
    BY <1>3, <2>1, Reading DEF Addr2Line
  <2>3. LineTypes'
    BY <1>3, <2>1 DEF Addr2Line, emitVars, tableVars
  <2>4. 1 \in 1 .. Len(begins) /\ begins[1] = [addr |-> 0, line |-> c_firstlineno]
    BY <2>1 DEF TableInv
  <2>5. ReadInv'
    BY <1>3, <2>1, <2>2, <2>4 DEF Addr2Line, ReadInv, emitVars, tableVars
  <2> QED
    BY <2>2, <2>3, <2>5
<1>4. CASE com_add_lnotab
  BY <1>4, AddLnotab
<1>5. CASE LineSet
  BY <1>5, LineIsSet
<1>6. CASE End
  <2>1. TableInv' /\ LastInv' /\ RightInv' /\ c_nexti' = c_nexti
    BY <1>6, Reading DEF End
  <2>2. LineTypes' /\ ReadInv'
    BY <1>6 DEF End, ReadInv, emitVars, tableVars, readVars
  <2> QED
    BY <2>1, <2>2
<1>7. CASE ReadPair
  <2>1. phase = "read" /\ phase' = "read"
    BY <1>7 DEF ReadPair
  <2>2. TableInv' /\ LastInv' /\ RightInv' /\ c_nexti' = c_nexti
    BY <1>7, <2>1, Reading DEF ReadPair
  <2>3. /\ nth \in 1 .. Len(c_lnotab) /\ nth + 1 \in 1 .. Len(begins)
        /\ c_lnotab[nth] \in Step /\ c_lnotab[nth].addr \in Int /\ c_lnotab[nth].line \in Int
        /\ begins[nth + 1].addr = begins[nth].addr + c_lnotab[nth].addr
        /\ begins[nth + 1].line = begins[nth].line + c_lnotab[nth].line
    <3>1. nth \in 1 .. Len(c_lnotab) /\ nth + 1 \in 1 .. Len(begins)
      BY <1>7, <2>1 DEF ReadPair, TableInv
    <3>2. begins[nth + 1] = [addr |-> begins[nth].addr + c_lnotab[nth].addr,
                             line |-> begins[nth].line + c_lnotab[nth].line]
      BY <2>1, <3>1 DEF TableInv
    <3> QED
      BY <3>1, <3>2, StepTypes
  <2>4. LineTypes'
    <3>1. addr' \in Int /\ line' \in Int /\ nth' \in Nat \ {0} /\ addrq' = addrq
      BY <1>7, <2>3 DEF ReadPair
    <3> QED
      BY <1>7, <2>1, <3>1 DEF ReadPair, emitVars, tableVars
  <2>5. ReadInv'
    BY <1>7, <2>1, <2>2, <2>3 DEF ReadPair, ReadInv, emitVars, tableVars
  <2> QED
    BY <2>2, <2>4, <2>5
<1>8. CASE LineFound
  <2>1. phase = "read" /\ phase' = "found"
    BY <1>8 DEF LineFound
  <2>2. TableInv' /\ LastInv' /\ RightInv' /\ c_nexti' = c_nexti
    BY <1>8, <2>1, Reading DEF LineFound
  <2>3. LineTypes'
    BY <1>8 DEF LineFound, emitVars, tableVars, readVars
  <2>4. ASSUME nth < Len(begins)
        PROVE  addrq < begins[nth + 1].addr
    <3>1. nth \in 1 .. Len(c_lnotab)
      BY <2>1, <2>4 DEF TableInv
    <3>2. begins[nth + 1] = [addr |-> begins[nth].addr + c_lnotab[nth].addr,
                             line |-> begins[nth].line + c_lnotab[nth].line]
      BY <2>1, <3>1 DEF TableInv
    <3>3. c_lnotab[nth].addr \in Int
      BY <3>1, StepTypes
    <3> QED
      BY <1>8, <2>1, <3>1, <3>2, <3>3 DEF LineFound, ReadInv
  <2>5. ReadInv'
    BY <1>8, <2>1, <2>2, <2>4 DEF LineFound, ReadInv, emitVars, tableVars, readVars
  <2> QED
    BY <2>2, <2>3, <2>5
<1>9. CASE UNCHANGED lineVars
  <2>1. LineTypes' /\ TableInv'
    BY <1>9 DEF lineVars, emitVars, tableVars, readVars, TableInv, c_nexti
  <2>2. LastInv' /\ RightInv' /\ ReadInv'
    BY <1>9 DEF lineVars, emitVars, tableVars, readVars, LastInv, RightInv, ReadInv, c_nexti
  <2> QED
    BY <2>1, <2>2
<1> QED
  BY <1>1, <1>2, <1>3, <1>4, <1>5, <1>6, <1>7, <1>8, <1>9 DEF LineNext

(* However much code and how many lines there are and however they are     *)
(* interleaved, PyCode_Addr2Line finds the line of each byte that has one  *)
(* in the table that com_set_lineno wrote, if no line comes after a later  *)
(* one and no later line after more code than a byte counts.               *)
THEOREM LinesAreRightAlways == LineSpec => []LinesAreRight
<1>1. LineInv => LinesAreRight
  BY DEF LineInv, ReadInv, RightInv, LinesAreRight
<1> QED
  BY <1>1, LinesBegin, LineStep, PTL DEF LineSpec
================================================================================
