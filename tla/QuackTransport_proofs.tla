----------------------- MODULE QuackTransport_proofs -----------------------
(***************************************************************************)
(* Proofs about QuackTransport, for any addresses, faults and number of    *)
(* messages.                                                               *)
(***************************************************************************)
EXTENDS QuackTransport, FiniteSetTheorems, TLAPS

\* Between two steps of a Send: a message that is being tried has been
\* accepted as often as an accepted connection was reset; one that is posted,
\* once more.  Over https there is no second attempt.
CountInv ==
  /\ pc = "try" => endpoints # <<>> /\ accepted = resets
  /\ pc = "posted" => endpoints # <<>> /\ accepted = resets + 1
  /\ pc = "idle" => accepted \in {resets, resets + 1}
  /\ tls => Len(endpoints) <= 1 /\ accepted <= 1
  /\ tls /\ pc = "try" => accepted = 0

\* The server has run the message at most once for each accepted connection.
RunInv ==
  /\ pc \in {"try", "posted"} => runs <= resets
  /\ pc = "idle" /\ outcome \in {"reply", "serverError"} => runs \in 1..(1 + resets)

\* The addresses before the one that is tried have been tried, and so has the
\* one a message is posted to.
TriedInv ==
  /\ pc = "try" => \A i \in DOMAIN endpoints : i < next => endpoints[i] \in tried
  /\ pc = "posted" => \A i \in DOMAIN endpoints : i <= next => endpoints[i] \in tried
  /\ EveryAddressTried

IInv == TypeOK /\ CountInv /\ RunInv /\ TriedInv
----------------------------------------------------------------------------
LEMMA CandidatesAreLists ==
  /\ \A e \in Candidates :
       /\ e \in Seq(Addresses) /\ e # <<>> /\ 1 \in DOMAIN e
       /\ tls => Len(e) = 1
<1> DEFINE top == IF tls THEN 1 ELSE Cardinality(Addresses)
<1>1. top \in Nat
  BY ConstantsAssumption, FS_CardinalityType
<1>2. SUFFICES ASSUME NEW e \in Candidates
               PROVE  /\ e \in Seq(Addresses) /\ e # <<>> /\ 1 \in DOMAIN e
                      /\ tls => Len(e) = 1
  OBVIOUS
<1>3. PICK n \in 1..top : e \in [1..n -> Addresses]
  BY <1>1 DEF Candidates, Lists
<1>4. n \in Nat /\ 1 <= n /\ n <= top
  BY <1>1, <1>3
<1>5. e \in Seq(Addresses) /\ Len(e) = n /\ DOMAIN e = 1..n
  BY <1>3, <1>4
<1> QED
  BY <1>4, <1>5

LEMMA InitIInv == Init => IInv
BY ConstantsAssumption DEF Init, IInv, TypeOK, CountInv, RunInv, TriedInv, EveryAddressTried, Outcomes

LEMMA SendKeeps == IInv /\ Send => IInv'
<1> SUFFICES ASSUME IInv, Send PROVE IInv'
  OBVIOUS
<1> USE DEF IInv, Send, Return
<1>1. Candidates' = Candidates
  BY DEF Candidates
<1>2. CASE endpoints' \in Candidates /\ pc' = "try" /\ UNCHANGED outcome
  <2>1. endpoints' \in Seq(Addresses) /\ endpoints' # <<>> /\ 1 \in DOMAIN endpoints'
        /\ (tls => Len(endpoints') = 1)
    BY <1>2, CandidatesAreLists
  <2>2. TypeOK'
    BY <1>1, <1>2, <2>1, ConstantsAssumption DEF TypeOK, Outcomes
  <2>3. CountInv'
    <3>1. pc' = "try" /\ accepted' = 0 /\ resets' = 0 /\ tls' = tls
      BY <1>2
    <3>2. tls' => Len(endpoints') <= 1
      <4> HIDE DEF IInv, Send, Return
      <4>1. tls' = tls
        BY <3>1
      <4>2. tls' => Len(endpoints') = 1
        BY <2>1, <4>1, Zenon
      <4>3. Len(endpoints') = 1 => Len(endpoints') <= 1
        BY SMT
      <4> QED
        BY <4>2, <4>3, Zenon
    <3>3. tls' /\ pc' = "try" => accepted' = 0
      BY <3>1
    <3>4. tls' => accepted' <= 1
      BY <3>1
    <3>5. pc' # "posted" /\ pc' # "idle" /\ accepted' = resets' /\ endpoints' # <<>>
      BY <2>1, <3>1
    <3> QED
      BY <3>2, <3>3, <3>4, <3>5, Zenon DEF CountInv
  <2>4. RunInv'
    BY <1>2 DEF RunInv
  <2>5. TriedInv'
    BY <1>2, <2>1 DEF TriedInv, EveryAddressTried
  <2> QED BY <2>2, <2>3, <2>4, <2>5
<1>3. CASE endpoints' = <<>> /\ pc' = "idle" /\ outcome' = "error"
  <2>1. TypeOK'
    BY <1>1, <1>3, ConstantsAssumption DEF TypeOK, Outcomes
  <2>2. CountInv' /\ RunInv' /\ TriedInv'
    BY <1>3 DEF CountInv, RunInv, TriedInv, EveryAddressTried
  <2> QED BY <2>1, <2>2
<1> QED
  BY <1>2, <1>3

\* What a failure that falls through, and one that does not, does to the place.
LEMMA FailedMoves ==
  ASSUME TypeOK, endpoints # <<>>, NEW fault, Failed(fault)
  PROVE  \/ /\ Fallthrough(fault) /\ next < Len(endpoints)
            /\ next' = next + 1 /\ next' \in DOMAIN endpoints
            /\ pc' = "try" /\ outcome' = outcome
         \/ /\ ~Fallthrough(fault) \/ next = Len(endpoints)
            /\ next' = next /\ pc' = "idle" /\ outcome' = "error"
<1>1. endpoints \in Seq(Addresses)
  BY CandidatesAreLists DEF TypeOK
<1>2. next \in 1..Len(endpoints) /\ Len(endpoints) \in Nat
  BY <1>1 DEF TypeOK
<1> QED
  BY <1>1, <1>2 DEF Failed, Return

LEMMA DialFailsKeeps == IInv /\ DialFails => IInv'
<1> SUFFICES ASSUME IInv, DialFails PROVE IInv'
  OBVIOUS
<1>1. TypeOK /\ CountInv /\ RunInv /\ TriedInv /\ endpoints # <<>> /\ pc = "try"
  BY DEF IInv, CountInv, DialFails
<1>2. endpoints \in Seq(Addresses) /\ next \in 1..Len(endpoints) /\ Len(endpoints) \in Nat
  BY <1>1, CandidatesAreLists DEF TypeOK
<1>3. endpoints[next] \in Addresses
  BY <1>2
<1>4. Candidates' = Candidates
  BY DEF Candidates, DialFails
<1>5. Fallthrough("dial")
  BY DEF Fallthrough
<1>6. UNCHANGED <<tls, endpoints, sends, accepted, resets, runs>> /\ tried' = tried \union {endpoints[next]}
  BY DEF DialFails
<1>7. \/ /\ next < Len(endpoints) /\ next' = next + 1 /\ next' \in DOMAIN endpoints
         /\ pc' = "try" /\ outcome' = outcome
      \/ /\ next = Len(endpoints) /\ next' = next /\ pc' = "idle" /\ outcome' = "error"
  BY <1>1, <1>5, FailedMoves DEF DialFails
<1>8. TypeOK'
  BY <1>1, <1>3, <1>4, <1>6, <1>7 DEF TypeOK, Outcomes
<1>9. CountInv'
  BY <1>1, <1>6, <1>7 DEF CountInv, TypeOK
<1>10. RunInv'
  BY <1>1, <1>6, <1>7 DEF RunInv
<1>11. TriedInv'
  <2>1. \A i \in DOMAIN endpoints : i <= next => endpoints[i] \in tried'
    BY <1>1, <1>2, <1>6 DEF TriedInv
  <2> QED
    BY <1>2, <1>6, <1>7, <2>1 DEF TriedInv, EveryAddressTried
<1> QED
  BY <1>8, <1>9, <1>10, <1>11 DEF IInv

LEMMA PostKeeps == IInv /\ Post => IInv'
<1> SUFFICES ASSUME IInv, Post PROVE IInv'
  OBVIOUS
<1>1. endpoints # <<>> /\ endpoints[next] \in Addresses
  BY CandidatesAreLists DEF IInv, CountInv, TypeOK, Post
<1>2. Candidates' = Candidates
  BY DEF Candidates, Post
<1>3. TypeOK'
  BY <1>1, <1>2 DEF IInv, TypeOK, Post
<1>4. CountInv'
  BY DEF IInv, TypeOK, CountInv, Post
<1>5. RunInv'
  BY DEF IInv, RunInv, Post
<1>6. TriedInv'
  <2>1. endpoints \in Seq(Addresses) /\ next \in 1..Len(endpoints) /\ Len(endpoints) \in Nat
    BY <1>1, CandidatesAreLists DEF IInv, TypeOK
  <2>2. \A i \in DOMAIN endpoints : i < next => endpoints[i] \in tried
    BY DEF IInv, TriedInv, Post
  <2> QED
    BY <2>1, <2>2 DEF TriedInv, EveryAddressTried, Post
<1> QED
  BY <1>3, <1>4, <1>5, <1>6 DEF IInv

LEMMA AnsweredKeeps == IInv /\ Answered => IInv'
<1> SUFFICES ASSUME IInv, Answered PROVE IInv'
  OBVIOUS
<1>1. Candidates' = Candidates
  BY DEF Candidates, Answered
<1>2. pc = "posted" /\ pc' = "idle" /\ outcome' \in {"reply", "serverError", "error"} /\ runs' = runs + 1
      /\ UNCHANGED <<tls, endpoints, next, sends, accepted, resets, tried>>
  BY DEF Answered, Return
<1>3. TypeOK'
  BY <1>1, <1>2 DEF IInv, TypeOK, Outcomes
<1>4. CountInv'
  BY <1>2 DEF IInv, TypeOK, CountInv
<1>5. RunInv'
  BY <1>2 DEF IInv, TypeOK, RunInv
<1>6. TriedInv'
  BY <1>2 DEF IInv, TypeOK, CountInv, TriedInv, EveryAddressTried
<1> QED
  BY <1>3, <1>4, <1>5, <1>6 DEF IInv

LEMMA BreaksOffKeeps == IInv /\ BreaksOff => IInv'
<1> SUFFICES ASSUME IInv, BreaksOff PROVE IInv'
  OBVIOUS
<1>1. TypeOK /\ CountInv /\ RunInv /\ TriedInv /\ endpoints # <<>> /\ pc = "posted"
  BY DEF IInv, CountInv, BreaksOff
<1>2. endpoints \in Seq(Addresses) /\ next \in 1..Len(endpoints) /\ Len(endpoints) \in Nat
  BY <1>1, CandidatesAreLists DEF TypeOK
<1>3. Candidates' = Candidates
  BY DEF Candidates, BreaksOff
<1>4. runs' \in {runs, runs + 1} /\ UNCHANGED <<tls, endpoints, sends, accepted, tried>>
  BY DEF BreaksOff
<1>5. \/ /\ resets' = resets + 1 /\ next < Len(endpoints) /\ next' = next + 1
         /\ next' \in DOMAIN endpoints /\ pc' = "try" /\ outcome' = outcome
      \/ /\ resets' \in {resets, resets + 1}
         /\ next' = next /\ pc' = "idle" /\ outcome' = "error"
  BY <1>1, FailedMoves DEF BreaksOff, Fallthrough
<1>6. TypeOK'
  BY <1>1, <1>3, <1>4, <1>5 DEF TypeOK, Outcomes
<1>7. CountInv'
  BY <1>1, <1>2, <1>4, <1>5 DEF CountInv, TypeOK
<1>8. RunInv'
  BY <1>1, <1>4, <1>5 DEF RunInv, TypeOK
<1>9. TriedInv'
  <2>1. \A i \in DOMAIN endpoints : i < next + 1 => endpoints[i] \in tried
    BY <1>1, <1>2 DEF TriedInv
  <2>2. accepted' > 0
    BY <1>1, <1>4 DEF CountInv, TypeOK
  <2> QED
    BY <1>4, <1>5, <2>1, <2>2 DEF TriedInv, EveryAddressTried
<1> QED
  BY <1>6, <1>7, <1>8, <1>9 DEF IInv

LEMMA StepKeeps == IInv /\ [Next]_vars => IInv'
<1> SUFFICES ASSUME IInv, [Next]_vars PROVE IInv'
  OBVIOUS
<1>1. CASE Send
  BY <1>1, SendKeeps
<1>2. CASE DialFails
  BY <1>2, DialFailsKeeps
<1>3. CASE Post
  BY <1>3, PostKeeps
<1>4. CASE Answered
  BY <1>4, AnsweredKeeps
<1>5. CASE BreaksOff
  BY <1>5, BreaksOffKeeps
<1>6. CASE UNCHANGED vars
  BY <1>6 DEF vars, history, IInv, TypeOK, CountInv, RunInv, TriedInv, EveryAddressTried,
              Candidates
<1> QED
  BY <1>1, <1>2, <1>3, <1>4, <1>5, <1>6 DEF Next, Attempt

LEMMA Inductive == Spec => []IInv
<1>1. Init => IInv
  BY InitIInv
<1>2. IInv /\ [Next]_vars => IInv'
  BY StepKeeps
<1> QED
  BY <1>1, <1>2, PTL DEF Spec
----------------------------------------------------------------------------
\* The variables keep their types: no attempt is made beyond the last address.
THEOREM TypeCorrect == Spec => []TypeOK
<1>1. IInv => TypeOK
  BY DEF IInv
<1> QED
  BY <1>1, Inductive, PTL

\* isFallthroughErr lets a message be posted again only after the reset of a
\* connection, and over https never.
THEOREM RepeatsAreResets == Spec => []RepeatsNeedReset
<1>1. IInv => RepeatsNeedReset
  BY DEF IInv, TypeOK, CountInv, RepeatsNeedReset
<1> QED
  BY <1>1, Inductive, PTL

\* Send returns a reply, or the server's error, only for a message that was
\* run, and run once but for the connections that were reset.
THEOREM RepliesAreOfRuns == Spec => []RepliesAreReal
<1>1. IInv => RepliesAreReal
  BY DEF IInv, RunInv, RepliesAreReal
<1> QED
  BY <1>1, Inductive, PTL

\* Send gives up for want of a connection only after the last address.
THEOREM GivesUpLast == Spec => []EveryAddressTried
<1>1. IInv => EveryAddressTried
  BY DEF IInv, TriedInv
<1> QED
  BY <1>1, Inductive, PTL
============================================================================
