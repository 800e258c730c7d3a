---------------------------- MODULE PollsProofs ----------------------------
(***************************************************************************)
(* The invariants of Polls hold for any users, polls, tasks, options and   *)
(* bounds.  Each is inductive with the facts below: what the table allows, *)
(* and what a handler between its two transactions knows.                  *)
(*                                                                         *)
(* In the second half, what a button's data carries: the parsers of        *)
(* Callbacks return the ids that the keyboards wrote, for every id, text,  *)
(* base and number of digits.                                              *)
(***************************************************************************)
EXTENDS Polls, Callbacks, NaturalsInduction, WellFoundedInduction, SequenceTheorems, TLAPS

OneVoteEach ==
    \A v, w \in votes : v.poll = w.poll /\ v.user = w.user => v = w

(* A handler waits for the results only of a vote that is committed.        *)
CommittedFirst ==
    \A t \in Task : task[t].at = "results" => task[t].vote \in votes

ThankedAreIn == thanked \subseteq votes

(* What was shown is part of what the table has now.                        *)
ShownAreIn ==
    \A s \in shown : s.to \in s.counted /\ s.counted \subseteq Results(s.to.poll)

ShownAgree ==
    \A s, r \in shown :
        s.to.poll = r.to.poll => s.counted \subseteq r.counted \/ r.counted \subseteq s.counted

IInv ==
    /\ TypeOK
    /\ OneVoteEach
    /\ CommittedFirst
    /\ ThankedAreIn
    /\ ShownAreIn
    /\ ShownAgree
    /\ RefusalNeedsVoteOrError

-----------------------------------------------------------------------------

LEMMA HandlerForms ==
    /\ Idle \in Handler /\ Idle.at = "idle"
    /\ \A a \in {"insert", "results"}, v \in Vote : [at |-> a, vote |-> v] \in Handler
BY DEF Handler, Idle

LEMMA InitIInv == Init => IInv
BY HandlerForms, FaultsAssumption DEF Init, IInv, TypeOK, OneVoteEach, CommittedFirst,
   ThankedAreIn, ShownAreIn, ShownAgree, RefusalNeedsVoteOrError

(* What a task holds while it is not idle.                                  *)
LEMMA BusyTask ==
    ASSUME TypeOK, NEW t \in Task, task[t].at \in {"insert", "results"}
    PROVE  task[t].vote \in Vote /\ task[t] = [at |-> task[t].at, vote |-> task[t].vote]
BY DEF TypeOK, Handler, Idle

(* The steps that leave the table and the histories of votes alone.         *)
LEMMA QuietStep ==
    ASSUME IInv,
           UNCHANGED <<votes, thanked, refused, shown>>,
           CommittedFirst', TypeOK'
    PROVE  IInv'
BY DEF IInv, OneVoteEach, ThankedAreIn, ShownAreIn, ShownAgree,
       RefusalNeedsVoteOrError, Results

(* A task that becomes idle owes nothing.                                   *)
LEMMA EndsKeeps ==
    ASSUME IInv, NEW t \in Task, Ends(t), votes' = votes
    PROVE  /\ CommittedFirst'
          
           /\ task' \in [Task -> Handler]
<1>1. task' = [task EXCEPT ![t] = Idle] /\ Idle.at = "idle"
  BY HandlerForms DEF Ends
<1>2. task \in [Task -> Handler]
  BY DEF IInv, TypeOK
<1>3. \A o \in Task : task'[o] = Idle \/ task'[o] = task[o]
  BY <1>1, <1>2
<1>4. task' \in [Task -> Handler]
  BY <1>1, <1>2, HandlerForms
<1>. QED
  BY <1>1, <1>3, <1>4 DEF IInv, CommittedFirst

LEMMA NextIInv == IInv /\ [Next]_vars => IInv'
<1>. SUFFICES ASSUME IInv, [Next]_vars PROVE IInv'
  OBVIOUS
<1>t. TypeOK
  BY DEF IInv
<1>1. CASE UNCHANGED vars
  <2>1. TypeOK' /\ CommittedFirst'
    BY <1>1 DEF IInv, vars, history, TypeOK, CommittedFirst
  <2>. QED
    BY <1>1, <2>1, QuietStep DEF vars, history
<1>2. ASSUME NEW p \in Poll, CreatePoll(p) \/ ClosePoll(p) PROVE IInv'
  <2>1. TypeOK' /\ CommittedFirst'
    BY <1>2 DEF IInv, history, TypeOK, CommittedFirst, CreatePoll, ClosePoll
  <2>. QED
    BY <1>2, <2>1, QuietStep DEF CreatePoll, ClosePoll, history
<1>3. ASSUME NEW t \in Task, NEW u \in User, NEW bs \in SUBSET Button, Answers(t, u, bs),
             UNCHANGED <<polls, votes, sent, faults, thanked, refused, shown>>
      PROVE  IInv'
  <2>. DEFINE menu == [at |-> "answer", user |-> u, buttons |-> bs]
  <2>1. task' = [task EXCEPT ![t] = menu] /\ menu \in Handler /\ menu.at = "answer"
    BY <1>3 DEF Answers, Handler
  <2>. HIDE DEF menu
  <2>2. TypeOK'
    BY <1>t, <1>3, <2>1 DEF TypeOK
  <2>3. \A o \in Task : task'[o] = menu \/ task'[o] = task[o]
    BY <1>t, <2>1 DEF TypeOK
  <2>4. CommittedFirst'
    BY <1>3, <2>1, <2>3 DEF IInv, CommittedFirst
  <2>. QED
    BY <1>3, <2>2, <2>4, QuietStep
<1>4. ASSUME NEW t \in Task, NEW u \in User,
             ListPolls(t, u) \/ \E p \in Poll : ViewPoll(t, u, p)
      PROVE  IInv'
  <2>1. CASE ListPolls(t, u)
    <3>1. [name : {"poll"}, poll : ActivePolls] \in SUBSET Button
      BY DEF Button, ActivePolls
    <3>. QED
      BY <1>3, <2>1, <3>1 DEF ListPolls, history
  <2>2. ASSUME NEW p \in Poll, ViewPoll(t, u, p) PROVE IInv'
    <3>1. [name : {"vote"}, poll : {p}, option : 0..(Options - 1)] \in SUBSET Button
      BY DEF Button
    <3>. QED
      BY <1>3, <2>2, <3>1 DEF ViewPoll, history
  <2>. QED
    BY <1>4, <2>1, <2>2
<1>13. ASSUME NEW t \in Task, EditText(t) PROVE IInv'
  <2>1. task[t].user \in User /\ task[t].buttons \in SUBSET Button
    <3>1. task[t] \in Handler /\ task[t].at = "answer"
      BY <1>t, <1>13 DEF TypeOK, EditText, At
    <3>. QED
      BY <3>1 DEF Handler, Idle
  <2>2. /\ sent' = [sent EXCEPT ![task[t].user] = @ \cup task[t].buttons]
        /\ Ends(t)
        /\ UNCHANGED <<polls, votes, faults, thanked, refused, shown>>
    BY <1>13 DEF EditText, history
  <2>3. CommittedFirst' /\ task' \in [Task -> Handler]
    BY <2>2, EndsKeeps
  <2>4. TypeOK'
    BY <1>t, <2>1, <2>2, <2>3 DEF TypeOK
  <2>. QED
    BY <2>2, <2>3, <2>4, QuietStep
<1>5. ASSUME NEW t \in Task, NEW v \in Vote, VoteBegin(t, v) PROVE IInv'
  <2>. DEFINE b == [name |-> "vote", poll |-> v.poll, option |-> v.option]
              held == [at |-> "insert", vote |-> v]
  <2>1. b \in sent[v.user] /\ task' = [task EXCEPT ![t] = held]
        /\ UNCHANGED <<polls, votes, sent, faults, thanked, refused, shown>>
    BY <1>5 DEF VoteBegin, history
  <2>2. TypeOK'
    <3>1. held \in Handler
      BY HandlerForms
    <3>. QED
      BY <1>t, <2>1, <3>1 DEF TypeOK
  <2>3. \A o \in Task : task'[o] = held \/ task'[o] = task[o]
    BY <1>t, <2>1 DEF TypeOK
  <2>4. CommittedFirst'
    BY <2>1, <2>3 DEF IInv, CommittedFirst
  <2>. QED
    BY <2>1, <2>2, <2>4, QuietStep
<1>6. ASSUME NEW t \in Task, VoteInserted(t) PROVE IInv'
  <2>. DEFINE v == task[t].vote
              done == [at |-> "results", vote |-> v]
  <2>1. v \in Vote /\ task[t] = [at |-> "insert", vote |-> v]
    BY <1>6, <1>t, BusyTask DEF VoteInserted, At
  <2>2. /\ ~Voted(v)
        /\ votes' = votes \cup {v}
        /\ task' = [task EXCEPT ![t].at = "results"]
        /\ UNCHANGED <<polls, sent, faults, thanked, refused, shown>>
    BY <1>6 DEF VoteInserted, history
  <2>3. task' = [task EXCEPT ![t] = done]
    <3>1. [task[t] EXCEPT !.at = "results"] = done
      BY <2>1
    <3>2. task' = [task EXCEPT ![t] = [task[t] EXCEPT !.at = "results"]]
      BY <2>2
    <3>. QED
      BY <3>1, <3>2
  <2>4. TypeOK'
    <3>1. done \in Handler
      BY <2>1, HandlerForms
    <3>. QED
      BY <1>t, <2>1, <2>2, <2>3, <3>1 DEF TypeOK
  <2>5. \A o \in Task : task'[o] = done \/ task'[o] = task[o]
    BY <1>t, <2>3 DEF TypeOK
  <2>6. OneVoteEach'
    BY <2>2 DEF IInv, OneVoteEach, Voted
  <2>7. CommittedFirst'
    BY <2>2, <2>5 DEF IInv, CommittedFirst
  <2>8. ThankedAreIn' /\ ShownAreIn' /\ ShownAgree' /\ RefusalNeedsVoteOrError'
    BY <2>2 DEF IInv, ThankedAreIn, ShownAreIn, ShownAgree, RefusalNeedsVoteOrError, Results
  <2>. QED
    BY <2>4, <2>6, <2>7, <2>8 DEF IInv
<1>7. ASSUME NEW t \in Task, NEW failed \in BOOLEAN, At(t, "insert"),
             failed \/ Voted(task[t].vote), Refuses(t, failed), faults' \in 0..MaxFaults
      PROVE  IInv'
  <2>. DEFINE r == [vote |-> task[t].vote, failed |-> failed]
  <2>1. task[t].vote \in Vote
    BY <1>7, <1>t, BusyTask DEF At
  <2>2. refused' = refused \cup {r} /\ Ends(t)
        /\ UNCHANGED <<polls, votes, sent, thanked, shown>>
    BY <1>7 DEF Refuses
  <2>3. CommittedFirst'
        /\ task' \in [Task -> Handler]
    BY <2>2, EndsKeeps
  <2>4. TypeOK'
    BY <1>7, <1>t, <2>1, <2>2, <2>3 DEF TypeOK
  <2>5. RefusalNeedsVoteOrError'
    BY <1>7, <2>2 DEF IInv, RefusalNeedsVoteOrError, Voted
  <2>6. OneVoteEach' /\ ThankedAreIn' /\ ShownAreIn' /\ ShownAgree'
    BY <2>2 DEF IInv, OneVoteEach, ThankedAreIn, ShownAreIn, ShownAgree, Results
  <2>. QED
    BY <2>3, <2>4, <2>5, <2>6 DEF IInv
<1>8. ASSUME NEW t \in Task, ShowResults(t) PROVE IInv'
  <2>. DEFINE v == task[t].vote
              s == [to |-> v, counted |-> Results(v.poll)]
  <2>1. v \in Vote /\ v \in votes
    BY <1>8, <1>t, BusyTask DEF ShowResults, At, IInv, CommittedFirst
  <2>2. thanked' = thanked \cup {v} /\ shown' = shown \cup {s} /\ Ends(t)
        /\ UNCHANGED <<polls, votes, sent, faults, refused>>
    BY <1>8 DEF ShowResults
  <2>3. CommittedFirst'
        /\ task' \in [Task -> Handler]
    BY <2>2, EndsKeeps
  <2>4. Results(v.poll) \subseteq Vote /\ v \in Results(v.poll)
    BY <1>t, <2>1 DEF Results, TypeOK
  <2>5. s \in [to : Vote, counted : SUBSET Vote]
    BY <2>1, <2>4
  <2>6. TypeOK'
    BY <1>t, <2>1, <2>2, <2>3, <2>5 DEF TypeOK
  <2>7. ShownAreIn'
    BY <2>2, <2>4 DEF IInv, ShownAreIn, Results
  <2>8. ShownAgree'
    BY <2>2, <2>4 DEF IInv, ShownAreIn, ShownAgree
  <2>9. OneVoteEach' /\ ThankedAreIn' /\ RefusalNeedsVoteOrError'
    BY <2>1, <2>2 DEF IInv, OneVoteEach, ThankedAreIn, RefusalNeedsVoteOrError
  <2>. QED
    BY <2>3, <2>6, <2>7, <2>8, <2>9 DEF IInv
<1>9. ASSUME NEW t \in Task, HandlerRaises(t) PROVE IInv'
  <2>1. Ends(t) /\ faults' \in 0..MaxFaults
        /\ UNCHANGED <<polls, votes, sent, thanked, refused, shown>>
    BY <1>9, <1>t, FaultsAssumption DEF HandlerRaises, Fault, history, TypeOK
  <2>2. CommittedFirst'
        /\ task' \in [Task -> Handler]
    BY <2>1, EndsKeeps
  <2>3. TypeOK'
    BY <1>t, <2>1, <2>2 DEF TypeOK
  <2>. QED
    BY <2>1, <2>2, <2>3, QuietStep
<1>10. CASE Crash
  <2>1. task' = [o \in Task |-> Idle] /\ faults' \in 0..MaxFaults
        /\ UNCHANGED <<polls, votes, sent, thanked, refused, shown>>
    BY <1>10, <1>t, FaultsAssumption DEF Crash, Fault, history, TypeOK
  <2>2. CommittedFirst'
    BY <2>1 DEF IInv, CommittedFirst, Idle
  <2>3. TypeOK'
    BY <1>t, <2>1, HandlerForms DEF TypeOK
  <2>. QED
    BY <2>1, <2>2, <2>3, QuietStep
<1>11. ASSUME NEW t \in Task, VoteRefused(t) PROVE IInv'
  <2>1. faults' \in 0..MaxFaults
    BY <1>11, <1>t DEF VoteRefused, TypeOK
  <2>. QED
    BY <1>11, <1>7, <2>1 DEF VoteRefused
<1>12. ASSUME NEW t \in Task, InsertFails(t) PROVE IInv'
  <2>1. faults' \in 0..MaxFaults
    BY <1>12, <1>t, FaultsAssumption DEF InsertFails, Fault, TypeOK
  <2>. QED
    BY <1>12, <1>7, <2>1 DEF InsertFails
<1>. QED
  BY <1>1, <1>2, <1>4, <1>5, <1>6, <1>8, <1>9, <1>10, <1>11, <1>12, <1>13 DEF Next

(* Every reachable state satisfies the inductive invariant.                 *)
THEOREM PollsInvariant == Spec => []IInv
BY InitIInv, NextIInv, PTL DEF Spec

-----------------------------------------------------------------------------

(* The type invariant of Polls.                                             *)
THEOREM PollsTypeCorrect == Spec => []TypeOK
<1>1. IInv => TypeOK
  BY DEF IInv
<1>. QED
  BY <1>1, PollsInvariant, PTL

(* "Голос учтён!" holds for ever: the vote is in the table, the only one of *)
(* that user on that poll; and "Вы уже голосовали." is wrong only after an  *)
(* error of the database.                                                   *)
THEOREM AnswersAreTrueHolds == Spec => []AnswersAreTrue
<1>1. IInv => ThankedVotesCount
  BY DEF IInv, ThankedAreIn, OneVoteEach, ThankedVotesCount
<1>2. IInv => AnswersAreTrue
  BY <1>1 DEF IInv, AnswersAreTrue
<1>. QED
  BY <1>2, PollsInvariant, PTL

(* The results shown count the voter, one vote each, and agree.             *)
THEOREM ResultsAreHonestHolds == Spec => []ResultsAreHonest
<1>1. IInv => ResultsAreHonest
  BY DEF IInv, ShownAreIn, ShownAgree, OneVoteEach, Results, ResultsAreHonest
<1>. QED
  BY <1>1, PollsInvariant, PTL

-----------------------------------------------------------------------------
(* Induction and recursion over Nat, with a set in the place of the         *)
(* predicate and a function in that of the step. *)


(* What is in P whenever all below it are is all of Nat: the least natural  *)
(* outside P would be in it.                                                *)
LEMMA StrongInduction ==
    ASSUME NEW P, \A n \in Nat : (\A m \in 0..(n - 1) : m \in P) => n \in P
    PROVE  \A n \in Nat : n \in P
<1> DEFINE T == Nat \ P
<1> SUFFICES ASSUME T # {} PROVE FALSE
  OBVIOUS
<1>1. PICK n \in T : \A m \in T : ~ (<<m, n>> \in OpToRel(<, Nat))
  <2> HIDE DEF T
  <2>1. T \subseteq Nat
    BY DEF T
  <2> QED
    BY <2>1, NatLessThanWellFounded, WFMin
<1>2. ASSUME NEW m \in 0..(n - 1), m \notin P
      PROVE  FALSE
  <2>1. m \in Nat /\ n \in Nat /\ m < n /\ m \in T
    BY <1>2
  <2>2. <<m, n>> \in OpToRel(<, Nat)
    BY <2>1, Zenon DEF OpToRel
  <2> HIDE DEF T
  <2> QED
    BY <1>1, <2>1, <2>2, Zenon
<1> QED
  BY <1>2

(* The same from n to n + 1.                                                *)
LEMMA Induction ==
    ASSUME NEW P, 0 \in P, \A n \in Nat : n \in P => n + 1 \in P
    PROVE  \A n \in Nat : n \in P
<1>1. ASSUME NEW n \in Nat, \A m \in 0..(n - 1) : m \in P
      PROVE  n \in P
  <2>1. CASE n = 0
    BY <2>1
  <2>2. CASE n # 0
    <3>1. n - 1 \in 0..(n - 1) /\ n - 1 \in Nat /\ (n - 1) + 1 = n
      BY <2>2
    <3> QED
      BY <1>1, <3>1
  <2> QED
    BY <2>1, <2>2
<1> QED
  BY <1>1, StrongInduction

(* A function whose value at n in D is computed by step from its value at  *)
(* p[n], which is smaller, and given outright by first outside D, ...       *)
Descends(S, D, first, p, step) ==
    /\ D \subseteq Nat
    /\ first \in [Nat -> S]
    /\ p \in [Nat -> Nat] /\ \A n \in D : p[n] < n
    /\ step \in [Nat -> [S -> S]]

Follows(f, S, D, first, p, step) ==
    /\ f \in [Nat -> S]
    /\ \A n \in Nat : f[n] = IF n \in D THEN step[n][f[p[n]]] ELSE first[n]

(* ... exists.                                                              *)
LEMMA Recursion ==
    ASSUME NEW S, NEW D, NEW first, NEW p, NEW step, Descends(S, D, first, p, step)
    PROVE  \E f : Follows(f, S, D, first, p, step)
<1> USE DEF Descends
<1> DEFINE Solves(f, n) == f[n] = IF n \in D THEN step[n][f[p[n]]] ELSE first[n]
           UpTo(f, k) == \A n \in 0..k : Solves(f, n)
           Some(k) == CHOOSE f \in [Nat -> S] : UpTo(f, k)
(* Two such functions agree as far as both go. *)
<1>1. ASSUME NEW f \in [Nat -> S], NEW g \in [Nat -> S], NEW k \in Nat,
             UpTo(f, k), UpTo(g, k)
      PROVE  \A n \in Nat : n <= k => f[n] = g[n]
  <2> DEFINE P == {n \in Nat : n <= k => f[n] = g[n]}
  <2>1. ASSUME NEW n \in Nat, \A m \in 0..(n - 1) : m \in P
        PROVE  n \in P
    <3> SUFFICES ASSUME n <= k PROVE f[n] = g[n]
      OBVIOUS
    <3>1. Solves(f, n) /\ Solves(g, n)
      BY <1>1
    <3>2. CASE n \in D
      <4>1. p[n] \in 0..(n - 1) /\ p[n] <= k
        BY <3>2
      <4>2. f[p[n]] = g[p[n]]
        BY <2>1, <4>1
      <4> QED
        BY <3>1, <3>2, <4>2
    <3>3. CASE n \notin D
      BY <3>1, <3>3
    <3> QED
      BY <3>2, <3>3
  <2>2. \A n \in Nat : n \in P
    <3> HIDE DEF P
    <3> QED
      BY <2>1, StrongInduction
  <2> QED
    BY <2>2
(* They go as far as one likes. *)
<1>2. \A k \in Nat : \E f \in [Nat -> S] : UpTo(f, k)
  <2> DEFINE P == {k \in Nat : \E f \in [Nat -> S] : UpTo(f, k)}
  <2>1. 0 \in P
    <3>1. 0 \notin D
      <4> SUFFICES ASSUME 0 \in D PROVE FALSE
        OBVIOUS
      <4>1. p[0] \in Nat /\ p[0] < 0
        OBVIOUS
      <4> QED
        BY <4>1
    <3>2. UpTo(first, 0)
      BY <3>1
    <3> QED
      BY <3>2
  <2>2. ASSUME NEW k \in Nat, k \in P PROVE k + 1 \in P
    <3>1. PICK f \in [Nat -> S] : UpTo(f, k)
      BY <2>2
    <3> DEFINE v == IF k + 1 \in D THEN step[k + 1][f[p[k + 1]]] ELSE first[k + 1]
               g == [f EXCEPT ![k + 1] = v]
    <3>2. v \in S
      BY f[p[k + 1]] \in S
    <3>3. g \in [Nat -> S] /\ g[k + 1] = v /\ \A n \in Nat : n # k + 1 => g[n] = f[n]
      BY <3>2
    <3> HIDE DEF g
    <3>4. ASSUME NEW n \in 0..(k + 1) PROVE Solves(g, n)
      <4>1. n \in D => p[n] \in Nat /\ p[n] # k + 1
        OBVIOUS
      <4>2. CASE n = k + 1
        BY <3>3, <4>1, <4>2
      <4>3. CASE n # k + 1
        <5>1. n \in 0..k
          BY <4>3
        <5>2. Solves(f, n)
          BY <3>1, <5>1
        <5>3. g[n] = f[n] /\ (n \in D => g[p[n]] = f[p[n]])
          BY <3>3, <4>1, <4>3
        <5> HIDE DEF v
        <5> QED
          BY <5>2, <5>3
      <4> QED
        BY <4>2, <4>3
    <3> QED
      BY <3>3, <3>4
  <2>3. \A k \in Nat : k \in P
    <3> HIDE DEF P
    <3> QED
      BY <2>1, <2>2, Induction
  <2> QED
    BY <2>3
<1>3. ASSUME NEW k \in Nat
      PROVE  Some(k) \in [Nat -> S] /\ UpTo(Some(k), k)
  <2> HIDE DEF UpTo
  <2> QED
    BY <1>2, Zenon
<1> DEFINE f == [n \in Nat |-> Some(n)[n]]
<1> HIDE DEF Some
<1>4. f \in [Nat -> S]
  BY <1>3
<1>5. ASSUME NEW n \in Nat PROVE Solves(f, n)
  <2>1. Solves(Some(n), n)
    BY <1>3
  <2>2. CASE n \in D
    <3>1. p[n] \in Nat /\ p[n] < n
      BY <2>2
    <3>2. UpTo(Some(n), p[n])
      <4>1. 0..p[n] \subseteq 0..n
        BY <3>1
      <4>2. UpTo(Some(n), n)
        BY <1>3
      <4> HIDE DEF Solves
      <4> QED
        BY <4>1, <4>2
    <3>3. UpTo(Some(p[n]), p[n]) /\ Some(p[n]) \in [Nat -> S] /\ Some(n) \in [Nat -> S]
      BY <1>3, <3>1
    <3>4. Some(n)[p[n]] = Some(p[n])[p[n]]
      <4> DEFINE a == Some(n)
                 b == Some(p[n])
                 k == p[n]
      <4>1. /\ a \in [Nat -> S] /\ b \in [Nat -> S] /\ k \in Nat
            /\ UpTo(a, k) /\ UpTo(b, k)
        <5> HIDE DEF UpTo
        <5> QED
          BY <3>1, <3>2, <3>3
      <4>2. k <= k
        BY <3>1
      <4> HIDE DEF a, b, k, UpTo
      <4>3. a[k] = b[k]
        BY <1>1, <4>1, <4>2
      <4> QED
        BY <4>3 DEF a, b, k
    <3>5. f[p[n]] = Some(p[n])[p[n]] /\ f[n] = Some(n)[n]
      BY <3>1
    <3> QED
      BY <2>1, <2>2, <3>4, <3>5
  <2>3. CASE n \notin D
    BY <2>1, <2>3
  <2> QED
    BY <2>2, <2>3
<1> QED
  BY <1>4, <1>5 DEF Follows

-----------------------------------------------------------------------------
(* Digits and numbers. *)


(* A digit is a number, and its own value.                                  *)
LEMMA ADigit == \A c \in Digit : c \in Nat /\ c >= Foreign /\ Value(c) = c
BY BaseAssumption DEF Digit, Foreign, Value

(* Division by Base leaves a digit and a smaller number.                    *)
LEMMA Divided ==
    ASSUME NEW n \in Nat
    PROVE  /\ n \div Base \in Nat /\ n % Base \in Digit
           /\ n = Base * (n \div Base) + (n % Base)
           /\ n >= Base => n \div Base # 0 /\ n \div Base < n
           /\ n < Base => n % Base = n
BY BaseAssumption DEF Digit

(* A digit put behind a number, and taken off again.                        *)
LEMMA Composed ==
    ASSUME NEW q \in Nat, NEW r \in Digit
    PROVE  /\ Base * q + r \in Nat
           /\ (Base * q + r) \div Base = q /\ (Base * q + r) % Base = r
           /\ Base * q + r < Base <=> q = 0
BY BaseAssumption DEF Digit

(* Multiplication by Base keeps the order.                                  *)
LEMMA TimesBase ==
    ASSUME NEW a \in Nat, NEW b \in Nat
    PROVE  Base * a \in Nat /\ (Base * a < Base * b <=> a < b)
BY BaseAssumption

(* The two cases of Power.                                                  *)
LEMMA PowerStep ==
    Power[0] = 1 /\ \A n \in Nat : Power[n + 1] = Base * Power[n]
<1> DEFINE Def(f) == f = [n \in Nat |-> IF n = 0 THEN 1 ELSE Base * f[n - 1]]
           D == Nat \ {0}
           first == [n \in Nat |-> 1]
           p == [n \in Nat |-> IF n = 0 THEN 0 ELSE n - 1]
           step == [n \in Nat |-> [x \in Nat |-> Base * x]]
<1>1. \E f : Follows(f, Nat, D, first, p, step)
  <2>1. D \in SUBSET Nat /\ first \in [Nat -> Nat] /\ p \in [Nat -> Nat]
    OBVIOUS
  <2>2. step \in [Nat -> [Nat -> Nat]]
    BY TimesBase, BaseAssumption
  <2>3. \A n \in D : p[n] < n
    OBVIOUS
  <2>4. Descends(Nat, D, first, p, step)
    BY <2>1, <2>2, <2>3 DEF Descends
  <2> HIDE DEF D, first, p, step
  <2> QED
    BY <2>4, Recursion
<1>2. PICK f \in [Nat -> Nat] : \A n \in Nat :
           f[n] = IF n \in D THEN step[n][f[p[n]]] ELSE first[n]
  BY <1>1 DEF Follows
<1>3. ASSUME NEW n \in Nat PROVE f[n] = IF n = 0 THEN 1 ELSE Base * f[n - 1]
  <2>1. f[n] = IF n \in D THEN step[n][f[p[n]]] ELSE first[n]
    BY <1>2
  <2>2. p[n] \in Nat /\ f[p[n]] \in Nat
    OBVIOUS
  <2> QED
    BY <2>1, <2>2
<1>4. Def(f)
  BY <1>3
<1>5. Def(Power)
  <2> HIDE DEF Def
  <2>1. Def(CHOOSE g : Def(g))
    BY <1>4, Zenon
  <2> QED
    BY <2>1, Zenon DEF Power, Def
<1>6. \A n \in Nat : Power[n] = IF n = 0 THEN 1 ELSE Base * Power[n - 1]
  BY <1>5, Zenon
<1>7. ASSUME NEW n \in Nat PROVE Power[n + 1] = Base * Power[n]
  <2>1. n + 1 \in Nat /\ n + 1 # 0 /\ (n + 1) - 1 = n
    OBVIOUS
  <2> HIDE DEF Def
  <2> QED
    BY <1>6, <2>1
<1> QED
  BY <1>6, <1>7

(* A power is positive, ...                                                 *)
LEMMA PowerType == \A n \in Nat : Power[n] \in Nat \ {0}
<1> DEFINE P == {n \in Nat : Power[n] \in Nat \ {0}}
<1>1. 0 \in P
  BY PowerStep
<1>2. ASSUME NEW n \in Nat, n \in P PROVE n + 1 \in P
  BY <1>2, PowerStep, BaseAssumption
<1>3. \A n \in Nat : n \in P
  <2> HIDE DEF P
  <2> QED
    BY <1>1, <1>2, Induction
<1> QED
  BY <1>3

(* ... and no smaller than the ones before it.                              *)
LEMMA PowerGrows == \A k \in Nat : \A n \in 0..k : Power[n] <= Power[k]
<1> DEFINE P == {k \in Nat : \A n \in 0..k : Power[n] <= Power[k]}
<1>1. 0 \in P
  BY PowerStep
<1>2. ASSUME NEW k \in Nat, k \in P PROVE k + 1 \in P
  <2>1. Power[k] <= Power[k + 1] /\ Power[k] \in Nat /\ Power[k + 1] \in Nat
    <3>1. Power[k + 1] = Base * Power[k] /\ Power[k] \in Nat \ {0}
      BY PowerStep, PowerType
    <3>2. \A x \in Nat : x <= Base * x /\ Base * x \in Nat
      BY BaseAssumption
    <3> QED
      BY <3>1, <3>2
  <2>2. ASSUME NEW n \in 0..(k + 1) PROVE Power[n] <= Power[k + 1]
    <3>1. CASE n = k + 1
      BY <2>1, <3>1
    <3>2. CASE n # k + 1
      <4>1. n \in 0..k /\ n \in Nat
        BY <3>2
      <4> QED
        BY <1>2, <2>1, <4>1, PowerType
    <3> QED
      BY <3>1, <3>2
  <2> QED
    BY <2>2
<1>3. \A k \in Nat : k \in P
  <2> HIDE DEF P
  <2> QED
    BY <1>1, <1>2, Induction
<1> QED
  BY <1>3

(* The two cases of Decimal.                                                *)
LEMMA DecimalStep ==
    \A n \in Nat :
        /\ n < Base => Decimal[n] = <<n>>
        /\ ~(n < Base) => Decimal[n] = Append(Decimal[n \div Base], n % Base)
<1> DEFINE Def(f) == f = [n \in Nat |-> IF n < Base THEN <<n>>
                                       ELSE Append(f[n \div Base], n % Base)]
           S == Seq(Digit)
           D == {n \in Nat : n >= Base}
           first == [n \in Nat |-> <<n % Base>>]
           p == [n \in Nat |-> n \div Base]
           step == [n \in Nat |-> [x \in S |-> Append(x, n % Base)]]
<1>1. \E f : Follows(f, S, D, first, p, step)
  <2>1. D \in SUBSET Nat /\ first \in [Nat -> S] /\ p \in [Nat -> Nat]
    BY Divided
  <2>2. step \in [Nat -> [S -> S]]
    BY Divided
  <2>3. \A n \in D : p[n] < n
    BY Divided
  <2>4. Descends(S, D, first, p, step)
    BY <2>1, <2>2, <2>3 DEF Descends
  <2> HIDE DEF D, first, p, step, S
  <2> QED
    BY <2>4, Recursion
<1>2. PICK f \in [Nat -> S] : \A n \in Nat :
           f[n] = IF n \in D THEN step[n][f[p[n]]] ELSE first[n]
  BY <1>1 DEF Follows
<1>3. ASSUME NEW n \in Nat
      PROVE  f[n] = IF n < Base THEN <<n>> ELSE Append(f[n \div Base], n % Base)
  <2>1. f[n] = IF n \in D THEN step[n][f[p[n]]] ELSE first[n]
    BY <1>2
  <2>2. n \div Base \in Nat /\ f[n \div Base] \in S /\ (n < Base => n % Base = n)
    BY Divided
  <2>3. n \in D <=> ~(n < Base)
    BY BaseAssumption
  <2>4. CASE n \in D
    BY <2>1, <2>2, <2>3, <2>4
  <2>5. CASE n \notin D
    BY <2>1, <2>2, <2>3, <2>5
  <2> QED
    BY <2>4, <2>5
<1>4. Def(f)
  BY <1>3
<1>5. Def(Decimal)
  <2> HIDE DEF Def
  <2>1. Def(CHOOSE g : Def(g))
    BY <1>4, Zenon
  <2> QED
    BY <2>1, Zenon DEF Decimal, Def
<1>6. \A n \in Nat : Decimal[n] = IF n < Base THEN <<n>>
                                   ELSE Append(Decimal[n \div Base], n % Base)
  BY <1>5, Zenon
<1> QED
  BY <1>6, Zenon

(* The equation that Number(s) solves.                                      *)
Reads(f, s) ==
    f = [i \in 0..Len(s) |->
            IF i = 0 THEN 0
            ELSE IF s[i] >= Foreign THEN Base * f[i - 1] + Value(s[i])
            ELSE f[i - 1]]

(* It has one solution, which Number returns.                               *)
LEMMA NumberIs ==
    ASSUME NEW s \in Seq(Digit), NEW f, Reads(f, s)
    PROVE  Number(s) = f[Len(s)]
<1>1. PICK g : Reads(g, s) /\ Number(s) = g[Len(s)]
  <2>1. Reads(CHOOSE g : Reads(g, s), s)
    BY Zenon
  <2>2. Number(s) = (CHOOSE g : Reads(g, s))[Len(s)]
    BY DEF Number, Reads
  <2> QED
    BY <2>1, <2>2
<1> DEFINE P == {i \in Nat : i <= Len(s) => f[i] = g[i]}
<1>2. 0 \in P
  BY <1>1 DEF Reads
<1>3. ASSUME NEW i \in Nat, i \in P PROVE i + 1 \in P
  BY <1>1, <1>3 DEF Reads
<1>4. \A i \in Nat : i \in P
  <2> HIDE DEF P
  <2> QED
    BY <1>2, <1>3, Induction
<1>5. Len(s) \in Nat
  BY LenProperties
<1> QED
  BY <1>1, <1>4, <1>5

(* It has one, whose values are naturals.                                   *)
LEMMA NumberExists ==
    ASSUME NEW s \in Seq(Digit)
    PROVE  \E f \in [0..Len(s) -> Nat] : Reads(f, s)
<1> DEFINE D == Nat \ {0}
           first == [n \in Nat |-> 0]
           p == [n \in Nat |-> IF n = 0 THEN 0 ELSE n - 1]
           step == [n \in Nat |-> [x \in Nat |->
                       IF n \in 1..Len(s) THEN Base * x + s[n] ELSE 0]]
<1>0. Len(s) \in Nat /\ \A i \in 1..Len(s) : s[i] \in Digit
  BY LenProperties
<1>1. \E f : Follows(f, Nat, D, first, p, step)
  <2>1. D \in SUBSET Nat /\ first \in [Nat -> Nat] /\ p \in [Nat -> Nat]
    OBVIOUS
  <2>2. step \in [Nat -> [Nat -> Nat]]
    BY <1>0, Composed
  <2>3. \A n \in D : p[n] < n
    OBVIOUS
  <2>4. Descends(Nat, D, first, p, step)
    BY <2>1, <2>2, <2>3 DEF Descends
  <2> HIDE DEF D, first, p, step
  <2> QED
    BY <2>4, Recursion
<1>2. PICK f \in [Nat -> Nat] : \A n \in Nat :
           f[n] = IF n \in D THEN step[n][f[p[n]]] ELSE first[n]
  BY <1>1 DEF Follows
<1> DEFINE g == [i \in 0..Len(s) |-> f[i]]
<1>3. ASSUME NEW i \in 1..Len(s)
      PROVE  f[i] = Base * f[i - 1] + s[i] /\ s[i] >= Foreign /\ Value(s[i]) = s[i]
  <2>1. s[i] \in Digit /\ s[i] >= Foreign /\ Value(s[i]) = s[i]
    BY <1>0, ADigit
  <2>2. i \in Nat /\ i # 0 /\ i - 1 \in Nat
    BY <1>0
  <2>3. f[i] = step[i][f[i - 1]] /\ f[i - 1] \in Nat
    BY <1>2, <2>2
  <2> QED
    BY <2>1, <2>2, <2>3
<1>4. f[0] = 0
  <2>1. 0 \in Nat /\ 0 \notin D
    OBVIOUS
  <2> QED
    BY <1>2, <2>1
<1>5. Reads(g, s)
  <2>1. ASSUME NEW i \in 0..Len(s)
        PROVE  g[i] = IF i = 0 THEN 0
                      ELSE IF s[i] >= Foreign THEN Base * g[i - 1] + Value(s[i])
                      ELSE g[i - 1]
    <3>1. CASE i = 0
      BY <1>4, <3>1
    <3>2. CASE i # 0
      <4>1. i \in 1..Len(s) /\ i - 1 \in 0..Len(s)
        BY <1>0, <3>2
      <4> QED
        BY <1>3, <3>2, <4>1
    <3> QED
      BY <3>1, <3>2
  <2> QED
    BY <2>1 DEF Reads
<1>6. g \in [0..Len(s) -> Nat]
  BY <1>0
<1> QED
  BY <1>5, <1>6

(* So a text of digits has a value, ...                                     *)
LEMMA NumberType ==
    ASSUME NEW s \in Seq(Digit)
    PROVE  Number(s) \in Nat
<1>1. PICK f \in [0..Len(s) -> Nat] : Reads(f, s)
  BY NumberExists
<1>2. Len(s) \in 0..Len(s)
  BY LenProperties
<1> QED
  BY <1>1, <1>2, NumberIs

(* ... which is 0 for the empty text ...                                    *)
LEMMA NumberEmpty == Number(<<>>) = 0
<1>1. PICK f : Reads(f, <<>>)
  BY NumberExists, <<>> \in Seq(Digit)
<1>2. f[0] = 0
  BY <1>1 DEF Reads
<1> QED
  BY <1>1, <1>2, NumberIs, <<>> \in Seq(Digit), Len(<<>>) = 0

(* ... and follows the digits from left to right.                           *)
LEMMA NumberAppend ==
    ASSUME NEW s \in Seq(Digit), NEW c \in Digit
    PROVE  Number(Append(s, c)) = Base * Number(s) + c
<1> DEFINE t == Append(s, c)
<1>0. /\ t \in Seq(Digit) /\ Len(s) \in Nat /\ Len(t) = Len(s) + 1
      /\ t[Len(s) + 1] = c /\ \A i \in 1..Len(s) : t[i] = s[i]
  BY LenProperties, AppendProperties
<1>1. PICK f \in [0..Len(s) -> Nat] : Reads(f, s)
  BY NumberExists
<1> DEFINE g == [i \in 0..Len(t) |-> IF i <= Len(s) THEN f[i] ELSE Base * f[Len(s)] + c]
<1>2. c >= Foreign /\ Value(c) = c
  BY BaseAssumption DEF Digit, Foreign, Value
<1> HIDE DEF t
<1>3. ASSUME NEW i \in 0..Len(t)
      PROVE  g[i] = IF i = 0 THEN 0
                    ELSE IF t[i] >= Foreign THEN Base * g[i - 1] + Value(t[i])
                    ELSE g[i - 1]
  <2>1. CASE i <= Len(s)
    <3>1. i \in 0..Len(s) /\ (i # 0 => i \in 1..Len(s) /\ i - 1 \in 0..Len(t) /\ i - 1 <= Len(s))
      BY <1>0, <2>1
    <3>2. f[i] = IF i = 0 THEN 0
                 ELSE IF s[i] >= Foreign THEN Base * f[i - 1] + Value(s[i])
                 ELSE f[i - 1]
      BY <1>1, <3>1 DEF Reads
    <3> QED
      BY <1>0, <2>1, <3>1, <3>2
  <2>2. CASE i = Len(s) + 1
    BY <1>0, <1>2, <2>2
  <2> QED
    BY <1>0, <2>1, <2>2
<1>4. Reads(g, t)
  BY <1>3 DEF Reads
<1>5. Number(t) = g[Len(t)] /\ Number(s) = f[Len(s)]
  <2> HIDE DEF g
  <2> QED
    BY <1>0, <1>1, <1>4, NumberIs
<1> QED
  BY <1>0, <1>5 DEF t

(* A text of digits is empty or ends with one.                              *)
LEMMA LastDigit ==
    ASSUME NEW k \in Nat, NEW s \in Seq(Digit), Len(s) = k + 1
    PROVE  \E t \in Seq(Digit), c \in Digit : s = Append(t, c) /\ Len(t) = k
<1>1. Len(s) # 0
  OBVIOUS
<1>2. PICK t \in Seq(Digit), c \in Digit : s = Append(t, c)
  BY <1>1, EmptySeq, SequenceEmptyOrAppend
<1>3. Len(s) = Len(t) + 1 /\ Len(t) \in Nat
  BY <1>2, AppendProperties, LenProperties
<1> QED
  BY <1>2, <1>3

-----------------------------------------------------------------------------
(* What the texts of digits say. *)

(* The digits of n say n. *)
LEMMA DecimalSaysIt ==
    \A n \in Nat : Decimal[n] \in Seq(Digit) /\ Decimal[n] # <<>> /\ Number(Decimal[n]) = n
<1> DEFINE Good(n) == Decimal[n] \in Seq(Digit) /\ Decimal[n] # <<>> /\ Number(Decimal[n]) = n
           P == {n \in Nat : Good(n)}
<1>1. ASSUME NEW n \in Nat, \A m \in 0..(n - 1) : m \in P
      PROVE  Good(n)
  <2>1. CASE n < Base
    <3>0. Decimal[n] = <<n>> /\ Append(<<>>, n) = <<n>>
      BY <2>1, DecimalStep
    <3>1. Decimal[n] = Append(<<>>, n) /\ n \in Digit
      BY <2>1, <3>0, BaseAssumption DEF Digit
    <3>2. Number(Decimal[n]) = Base * 0 + n
      BY <3>1, NumberEmpty, NumberAppend, <<>> \in Seq(Digit)
    <3>3. Base * 0 + n = n
      BY BaseAssumption
    <3> QED
      BY <3>1, <3>2, <3>3
  <2>2. CASE ~(n < Base)
    <3> DEFINE q == n \div Base
               r == n % Base
    <3>0. /\ q \in Nat /\ r \in Digit /\ n = Base * q + r
          /\ n >= Base => q < n
      BY Divided
    <3>1. q \in 0..(n - 1) /\ q \in Nat /\ r \in Digit /\ n = Base * q + r
      <4> HIDE DEF q, r
      <4>1. n >= Base
        BY <2>2, BaseAssumption
      <4>2. q < n
        BY <3>0, <4>1
      <4> QED
        BY <3>0, <4>2
    <3>2. Decimal[n] = Append(Decimal[q], r)
      BY <2>2, DecimalStep
    <3>3. Good(q)
      BY <1>1, <3>1
    <3> HIDE DEF q, r
    <3>4. Number(Decimal[n]) = n
      BY <3>1, <3>2, <3>3, NumberAppend
    <3>5. Decimal[n] \in Seq(Digit) /\ Decimal[n] # <<>>
      BY <3>1, <3>2, <3>3
    <3> QED
      BY <3>4, <3>5
  <2> QED
    BY <2>1, <2>2
<1>2. \A n \in Nat : n \in P
  <2> HIDE DEF Good
  <2>1. \A n \in Nat : (\A m \in 0..(n - 1) : m \in P) => n \in P
    BY <1>1
  <2> HIDE DEF P
  <2> QED
    BY <2>1, StrongInduction
<1> QED
  BY <1>2

(* It has no more of them than it needs. *)
LEMMA DecimalIsShort ==
    \A k \in Nat \ {0} : \A n \in Nat : n < Power[k] => Len(Decimal[n]) <= k
<1> DEFINE Good(k) == \A n \in Nat : n < Power[k + 1] => Len(Decimal[n]) <= k + 1
           P == {k \in Nat : Good(k)}
<1>0. \A n \in Nat : n < Base => Len(Decimal[n]) = 1
  <2>1. \A n : Len(<<n>>) = 1
    OBVIOUS
  <2> QED
    BY <2>1, DecimalStep
<1>1. 0 \in P
  <2>1. Power[1] = Base
    BY PowerStep, BaseAssumption
  <2>2. 0 + 1 = 1
    OBVIOUS
  <2>3. \A n \in Nat : n < Power[0 + 1] => Len(Decimal[n]) <= 0 + 1
    <3>1. \A n \in Nat : n < Base => Len(Decimal[n]) <= 1
      BY <1>0
    <3> QED
      BY <3>1, <2>1, <2>2
  <2> QED
    BY <2>3
<1>2. ASSUME NEW k \in Nat, k \in P PROVE Good(k + 1)
  <2> SUFFICES ASSUME NEW n \in Nat, n < Power[(k + 1) + 1]
               PROVE  Len(Decimal[n]) <= (k + 1) + 1
    OBVIOUS
  <2>1. CASE n < Base
    <3>1. Len(Decimal[n]) = 1
      BY <1>0, <2>1
    <3> HIDE DEF P
    <3> QED
      BY <3>1
  <2>2. CASE ~(n < Base)
    <3> DEFINE q == n \div Base
               r == n % Base
    <3>0. q \in Nat /\ r \in Digit /\ n = Base * q + r
      BY Divided
    <3>1. q \in Nat /\ Base * q <= n
      <4> HIDE DEF q, r
      <4>1. Base * q \in Nat /\ r \in Nat
        BY <3>0, TimesBase, ADigit
      <4> QED
        BY <3>0, <4>1
    <3>2. Power[(k + 1) + 1] = Base * Power[k + 1] /\ Power[k + 1] \in Nat
      BY PowerStep, PowerType
    <3>3. q < Power[k + 1]
      <4>1. Base * q \in Nat /\ (Base * q < Base * Power[k + 1] <=> q < Power[k + 1])
        BY <3>1, <3>2, TimesBase
      <4> QED
        BY <3>1, <3>2, <4>1, TimesBase
    <3>4. Len(Decimal[q]) <= k + 1 /\ Decimal[q] \in Seq(Digit)
      BY <1>2, <3>1, <3>3, DecimalSaysIt
    <3>5. Decimal[n] = Append(Decimal[q], n % Base)
      BY <2>2, DecimalStep
    <3>6. Len(Decimal[n]) = Len(Decimal[q]) + 1 /\ Len(Decimal[q]) \in Nat
      BY <3>4, <3>5, AppendProperties, LenProperties
    <3> QED
      BY <3>4, <3>6
  <2> QED
    BY <2>1, <2>2
<1>3. \A k \in Nat : k \in P
  <2> HIDE DEF Good
  <2>1. \A k \in Nat : k \in P => k + 1 \in P
    BY <1>2
  <2> HIDE DEF P
  <2> QED
    BY <1>1, <2>1, Induction
<1>4. ASSUME NEW k \in Nat \ {0} PROVE \A n \in Nat : n < Power[k] => Len(Decimal[n]) <= k
  <2>1. k - 1 \in Nat /\ (k - 1) + 1 = k
    OBVIOUS
  <2>2. Good(k - 1)
    BY <1>3, <2>1
  <2> QED
    BY <2>1, <2>2
<1> QED
  BY <1>4

(* What the strict parser ignores in front of an id.                        *)
Zeros(z) == [i \in 1..z |-> 0]

(* One more zero.                                                           *)
LEMMA ZerosAppend ==
    ASSUME NEW z \in Nat
    PROVE  Zeros(z) \in Seq(Digit) /\ Len(Zeros(z)) = z /\ Append(Zeros(z), 0) = Zeros(z + 1)
<1>0. 0 \in Digit
  BY BaseAssumption DEF Digit
<1>1. Zeros(z) \in Seq(Digit) /\ Len(Zeros(z)) = z
  BY <1>0, IsASeq, LenProperties DEF Zeros
<1> QED
  BY <1>0, <1>1, AppendProperties, LenProperties DEF Zeros

(* k digits say a number below the k-th power.                              *)
LEMMA NumberIsBelow ==
    \A k \in Nat : \A s \in Seq(Digit) : Len(s) = k => Number(s) < Power[k]
<1> DEFINE Good(k) == \A s \in Seq(Digit) : Len(s) = k => Number(s) < Power[k]
           P == {k \in Nat : Good(k)}
<1>1. 0 \in P
  <2>1. \A s \in Seq(Digit) : Len(s) = 0 => s = <<>>
    BY EmptySeq
  <2> QED
    BY <2>1, NumberEmpty, PowerStep
<1>2. ASSUME NEW k \in Nat, k \in P PROVE Good(k + 1)
  <2> SUFFICES ASSUME NEW s \in Seq(Digit), Len(s) = k + 1
               PROVE  Number(s) < Power[k + 1]
    OBVIOUS
  <2>1. PICK t \in Seq(Digit), c \in Digit : s = Append(t, c) /\ Len(t) = k
    BY LastDigit
  <2>2. Number(s) = Base * Number(t) + c /\ Power[k + 1] = Base * Power[k]
    BY <2>1, NumberAppend, PowerStep
  <2>3. Number(t) + 1 <= Power[k] /\ Number(t) \in Nat /\ Power[k] \in Nat
    BY <1>2, <2>1, NumberType, PowerType
  <2>4. \A a, b \in Nat : a + 1 <= b => Base * a + c < Base * b
    <3>1. c \in Nat /\ c < Base
      BY BaseAssumption DEF Digit
    <3>2. ASSUME NEW a \in Nat, NEW b \in Nat, a + 1 <= b PROVE Base * a + c < Base * b
      <4>1. Base * (a + 1) <= Base * b /\ Base * (a + 1) = Base * a + Base
        BY <3>2, BaseAssumption
      <4>2. Base * a \in Nat /\ Base * b \in Nat /\ Base \in Nat
        BY BaseAssumption
      <4> QED
        BY <3>1, <4>1, <4>2
    <3> QED
      BY <3>2
  <2> QED
    BY <2>2, <2>3, <2>4
<1>3. \A k \in Nat : k \in P
  <2> HIDE DEF Good
  <2>1. \A k \in Nat : k \in P => k + 1 \in P
    BY <1>2
  <2> HIDE DEF P
  <2> QED
    BY <1>1, <2>1, Induction
<1> QED
  BY <1>3

(* Concatenation of digits is associative, ...                              *)
LEMMA ConcatDigits == \A s, t, u \in Seq(Digit) : (s \o t) \o u = s \o (t \o u)
BY ConcatAssociative

(* ... so a digit goes behind the second of two texts.                      *)
LEMMA ConcatAppend ==
    ASSUME NEW x \in Seq(Digit), NEW y \in Seq(Digit), NEW c \in Digit
    PROVE  Append(x \o y, c) = x \o Append(y, c)
<1>1. x \o y \in Seq(Digit) /\ <<c>> \in Seq(Digit)
  BY ConcatProperties
<1>2. Append(x \o y, c) = (x \o y) \o <<c>> /\ Append(y, c) = y \o <<c>>
  BY <1>1, AppendIsConcat
<1>3. (x \o y) \o <<c>> = x \o (y \o <<c>>)
  BY <1>1, ConcatDigits
<1> QED
  BY <1>2, <1>3

(* Leading zeros aside, a text of digits is the one that its number has.    *)
LEMMA LeadingZeros ==
    ASSUME NEW s \in Seq(Digit), s # <<>>
    PROVE  \E z \in 0..Len(s) : s = Zeros(z) \o Decimal[Number(s)]
<1> DEFINE Good(k) == \A t \in Seq(Digit) : Len(t) = k + 1 =>
                         \E z \in 0..k : t = Zeros(z) \o Decimal[Number(t)]
           P == {k \in Nat : Good(k)}
<1>0. \A c \in Digit : Decimal[c] = <<c>> /\ c \in Nat /\ <<c>> \in Seq(Digit)
  <2>1. \A c \in Digit : c \in Nat /\ c < Base
    BY BaseAssumption DEF Digit
  <2> QED
    BY <2>1, DecimalStep
<1>1. Good(0)
  <2> SUFFICES ASSUME NEW t \in Seq(Digit), Len(t) = 0 + 1
               PROVE  t = Zeros(0) \o Decimal[Number(t)]
    <3>1. 0 \in 0..0
      OBVIOUS
    <3> QED
      BY <3>1
  <2>1. PICK u \in Seq(Digit), c \in Digit : t = Append(u, c) /\ Len(u) = 0
    BY LastDigit
  <2>2. u = <<>> /\ Zeros(0) = <<>>
    BY <2>1, EmptySeq DEF Zeros
  <2>3. Number(t) = Base * 0 + c
    BY <2>1, <2>2, NumberAppend, NumberEmpty
  <2>5. Base * 0 + c = c
    BY <1>0, BaseAssumption
  <2>4. Decimal[Number(t)] = <<c>> /\ t = <<c>>
    <3>1. t = <<c>>
      BY <2>1, <2>2
    <3> QED
      BY <1>0, <2>3, <2>5, <3>1
  <2> QED
    BY <1>0, <2>2, <2>4, ConcatEmptySeq
<1>2. ASSUME NEW k \in Nat, k \in P PROVE Good(k + 1)
  <2> SUFFICES ASSUME NEW t \in Seq(Digit), Len(t) = (k + 1) + 1
               PROVE  \E z \in 0..(k + 1) : t = Zeros(z) \o Decimal[Number(t)]
    OBVIOUS
  <2>0. k + 1 \in Nat
    OBVIOUS
  <2>1. PICK u \in Seq(Digit), c \in Digit : t = Append(u, c) /\ Len(u) = k + 1
    <3> HIDE DEF P
    <3> QED
      BY <2>0, LastDigit
  <2>2. PICK z \in 0..k : u = Zeros(z) \o Decimal[Number(u)]
    BY <1>2, <2>1
  <2>3. Number(t) = Base * Number(u) + c /\ Number(u) \in Nat
    BY <2>1, NumberAppend, NumberType
  <2>4. /\ Number(t) \in Nat /\ (Number(t) < Base <=> Number(u) = 0)
        /\ Number(t) \div Base = Number(u) /\ Number(t) % Base = c
    <3> DEFINE q == Number(u)
    <3>1. q \in Nat /\ Number(t) = Base * q + c
      BY <2>3
    <3> HIDE DEF q, P
    <3>2. /\ Base * q + c \in Nat /\ (Base * q + c < Base <=> q = 0)
          /\ (Base * q + c) \div Base = q /\ (Base * q + c) % Base = c
      BY <3>1, Composed
    <3>3. /\ Number(t) \in Nat /\ (Number(t) < Base <=> q = 0)
          /\ Number(t) \div Base = q /\ Number(t) % Base = c
      BY <3>1, <3>2, Zenon
    <3> QED
      BY <3>3 DEF q
  <2>5. Zeros(z) \in Seq(Digit) /\ z \in Nat
    BY ZerosAppend
  <2>6. CASE Number(u) = 0
    <3>1. 0 \in Digit
      BY BaseAssumption DEF Digit
    <3>2. u = Zeros(z) \o <<0>>
      BY <1>0, <2>2, <2>6, <3>1
    <3>3. u = Zeros(z + 1)
      BY <2>5, <3>1, <3>2, ZerosAppend, AppendIsConcat
    <3>4. Number(t) = c
      BY <2>3, <2>6, <1>0, BaseAssumption
    <3>5. t = Zeros(z + 1) \o <<c>>
      BY <2>1, <3>3, AppendIsConcat
    <3>6. Decimal[Number(t)] = <<c>>
      BY <1>0, <3>4
    <3>7. z + 1 \in 0..(k + 1)
      OBVIOUS
    <3> QED
      BY <3>5, <3>6, <3>7
  <2>7. CASE Number(u) # 0
    <3> DEFINE d == Decimal[Number(u)]
    <3>1. Decimal[Number(t)] = Append(d, c)
      BY <2>4, <2>7, DecimalStep
    <3>2. d \in Seq(Digit)
      BY <2>3, DecimalSaysIt
    <3> HIDE DEF d
    <3>3. Append(Zeros(z) \o d, c) = Zeros(z) \o Append(d, c)
      BY <2>5, <3>2, ConcatAppend
    <3>4. t = Zeros(z) \o Decimal[Number(t)]
      BY <2>1, <2>2, <3>1, <3>3 DEF d
    <3>5. z \in 0..(k + 1)
      OBVIOUS
    <3> QED
      BY <3>4, <3>5
  <2> QED
    BY <2>6, <2>7
<1>3. \A k \in Nat : k \in P
  <2> HIDE DEF Good
  <2>0. 0 \in P
    BY <1>1
  <2>1. \A k \in Nat : k \in P => k + 1 \in P
    BY <1>2
  <2> HIDE DEF P
  <2> QED
    BY <2>0, <2>1, Induction
<1>4. Len(s) \in Nat \ {0}
  BY EmptySeq
<1>5. Len(s) - 1 \in Nat /\ Len(s) = (Len(s) - 1) + 1 /\ 0..(Len(s) - 1) \subseteq 0..Len(s)
  BY <1>4
<1>6. Good(Len(s) - 1)
  BY <1>3, <1>5
<1> QED
  BY <1>5, <1>6

(* int() takes a text of digits as it is. *)
LEMMA IntReadsDigits ==
    ASSUME NEW s \in Seq(Digit), s # <<>>
    PROVE  IntAccepts(s) /\ PyInt(s) = Number(s)
<1>1. Len(s) \in Nat \ {0} /\ \A i \in 1..Len(s) : s[i] \in Digit
  BY EmptySeq, LenProperties
<1>2. \A i \in 1..Len(s) : s[i] # Space /\ s[i] # Minus /\ s[i] >= Foreign
  BY <1>1, ADigit DEF Space, Minus, Foreign
<1>3. Stripped(s) = s
  <2>1. {i \in 1..Len(s) : s[i] # Space} = 1..Len(s)
    BY <1>2
  <2>2. Min(1..Len(s)) = 1
    <3>1. \A x \in 1..Len(s) : (\A y \in 1..Len(s) : x <= y) <=> x = 1
      BY <1>1
    <3>2. 1 \in 1..Len(s)
      BY <1>1
    <3> QED
      BY <3>1, <3>2 DEF Min
  <2>3. Max(1..Len(s)) = Len(s)
    <3>1. \A x \in 1..Len(s) : (\A y \in 1..Len(s) : x >= y) <=> x = Len(s)
      BY <1>1
    <3>2. Len(s) \in 1..Len(s)
      BY <1>1
    <3> QED
      BY <3>1, <3>2 DEF Max
  <2>4. 1..Len(s) # {}
    BY <1>1
  <2>5. SubSeq(s, 1, Len(s)) = s
    BY SubSeqFull
  <2> QED
    BY <2>1, <2>2, <2>3, <2>4, <2>5 DEF Stripped
<1>4. s[1] # Minus
  BY <1>1, <1>2
<1>5. Unsigned(s) = s
  BY <1>4 DEF Unsigned
<1> QED
  BY <1>2, <1>3, <1>4, <1>5 DEF IntAccepts, PyInt

(* What the strict parser returns. *)
LEMMA StrictlyParsed ==
    ASSUME NEW s \in Seq(Char)
    PROVE  /\ ParseCallbackInt(s) # None => s \in Seq(Digit) /\ Len(s) \in 1..MaxDigits
           /\ s \in Seq(Digit) /\ Len(s) \in 1..MaxDigits =>
                ParseCallbackInt(s) = Number(s) /\ Number(s) \in Ids
<1>0. Len(s) \in Nat
  BY LenProperties
<1>1. ASSUME ParseCallbackInt(s) # None
      PROVE  s \in Seq(Digit) /\ Len(s) \in 1..MaxDigits
  <2>1. Len(s) \in 1..MaxDigits /\ \A i \in 1..Len(s) : s[i] \in Digit
    BY <1>1 DEF ParseCallbackInt
  <2>2. s = [i \in 1..Len(s) |-> s[i]]
    BY LenProperties
  <2>3. [i \in 1..Len(s) |-> s[i]] \in Seq(Digit)
    BY <1>0, <2>1, IsASeq
  <2> QED
    BY <2>1, <2>2, <2>3
<1>2. ASSUME s \in Seq(Digit), Len(s) \in 1..MaxDigits
      PROVE  ParseCallbackInt(s) = Number(s) /\ Number(s) \in Ids
  <2>1. \A i \in 1..Len(s) : s[i] \in Digit
    BY <1>2, LenProperties
  <2>2. ParseCallbackInt(s) = Number(s)
    BY <1>2, <2>1 DEF ParseCallbackInt
  <2>3. Number(s) < Power[Len(s)] /\ Number(s) \in Nat
    BY <1>0, <1>2, NumberIsBelow, NumberType
  <2>4. Power[Len(s)] <= Power[MaxDigits] /\ Power[Len(s)] \in Nat /\ Power[MaxDigits] \in Nat
    BY <1>0, <1>2, PowerGrows, PowerType, BaseAssumption
  <2>5. Number(s) \in Ids
    BY <2>3, <2>4 DEF Ids
  <2> QED
    BY <2>2, <2>5
<1> QED
  BY <1>1, <1>2

(* Texts of digits are texts.                                               *)
LEMMA DigitsAreChars == \A s \in Seq(Digit) : s \in Seq(Char)
<1>1. Digit \subseteq Char
  BY DEF Char
<1> QED
  BY <1>1, SeqMonotonic

(* The button of an id is read as that id. *)
LEMMA ButtonParsed ==
    ASSUME NEW n \in Ids
    PROVE  /\ n \in Nat /\ n # None
           /\ Decimal[n] \in Seq(Digit) /\ Len(Decimal[n]) \in 1..MaxDigits
           /\ ParseCallbackInt(Decimal[n]) = n
<1>1. Power[MaxDigits] \in Nat /\ MaxDigits \in Nat \ {0}
  BY PowerType, BaseAssumption
<1>2. n \in Nat /\ n < Power[MaxDigits] /\ n # None
  BY <1>1 DEF Ids, None
<1>3. Decimal[n] \in Seq(Digit) /\ Decimal[n] # <<>> /\ Number(Decimal[n]) = n
  BY <1>2, DecimalSaysIt
<1>4. Len(Decimal[n]) \in Nat \ {0} /\ Len(Decimal[n]) <= MaxDigits
  BY <1>1, <1>2, <1>3, DecimalIsShort, EmptySeq
<1>5. Len(Decimal[n]) \in 1..MaxDigits
  BY <1>1, <1>4
<1>6. Decimal[n] \in Seq(Char)
  BY <1>3, DigitsAreChars
<1> QED
  BY <1>2, <1>3, <1>5, <1>6, StrictlyParsed

TextTyped == text \in Seq(Char)

(* The state is a text.                                                     *)
LEMMA TextKeepsType == TextSpec => []TextTyped
<1>1. TextInit => TextTyped
  BY DEF TextInit, TextTyped
<1>2. TextTyped /\ [TextNext]_text => TextTyped'
  BY DEF TextNext, Lengthen, TextTyped
<1> QED
  BY <1>1, <1>2, PTL DEF TextSpec

(* The strict parser reads what the keyboards write and nothing more, on    *)
(* every text.                                                              *)
THEOREM ParsesIdsExactlyHolds == TextSpec => []ParsesIdsExactly
<1>1. TextTyped => ParsesIdsExactly
  <2> SUFFICES ASSUME text \in Seq(Char)
               PROVE  ParsesIdsExactly
    BY DEF TextTyped
  <2> DEFINE id == ParseCallbackInt(text)
  <2>1. ASSUME NEW n \in Ids, text = Decimal[n] PROVE id = n
    BY <2>1, ButtonParsed
  <2>2. ASSUME id # None
        PROVE  /\ id \in Ids
               /\ \E z \in 0..Len(text) : text = [i \in 1..z |-> 0] \o Decimal[id]
               /\ IntAccepts(text) /\ PyInt(text) = id
    <3>1. text \in Seq(Digit) /\ Len(text) \in 1..MaxDigits
      BY <2>2, StrictlyParsed
    <3>2. id = Number(text) /\ id \in Ids
      BY <3>1, StrictlyParsed
    <3>3. text # <<>>
      BY <3>1, EmptySeq
    <3>4. \E z \in 0..Len(text) : text = Zeros(z) \o Decimal[Number(text)]
      BY <3>1, <3>3, LeadingZeros
    <3>5. IntAccepts(text) /\ PyInt(text) = Number(text)
      BY <3>1, <3>3, IntReadsDigits
    <3> HIDE DEF id
    <3> QED
      BY <3>2, <3>4, <3>5 DEF Zeros
  <2> HIDE DEF id
  <2>3. (\A n \in Ids : text = Decimal[n] => id = n) /\
        (id # None =>
               /\ id \in Ids
               /\ \E z \in 0..Len(text) : text = [i \in 1..z |-> 0] \o Decimal[id]
               /\ IntAccepts(text) /\ PyInt(text) = id)
    BY <2>1, <2>2
  <2> QED
    BY <2>3 DEF ParsesIdsExactly, id
<1> QED
  BY <1>1, TextKeepsType, PTL

(* The only colon is where vote cuts. *)
LEMMA VoteCuts ==
    ASSUME NEW s \in Seq(Char), NEW i \in 1..Len(s), s[i] = Colon,
           \A j \in 1..Len(s) : j # i => s[j] # Colon
    PROVE  /\ Cut(s, 1) = i
           /\ PollPart(s) = SubSeq(s, 1, i - 1)
           /\ OptionPart(s) = SubSeq(s, i + 1, Len(s))
<1>0. Len(s) \in Nat /\ i \in Nat /\ i <= Len(s)
  BY LenProperties
<1>1. Cut(s, 1) = i
  <2>1. {j \in 1..Len(s) : s[j] = Colon} \cup {Len(s) + 1} = {i, Len(s) + 1}
    OBVIOUS
  <2>2. \A x \in {i, Len(s) + 1} : (\A y \in {i, Len(s) + 1} : x <= y) <=> x = i
    BY <1>0
  <2>3. Min({i, Len(s) + 1}) = i
    BY <2>2 DEF Min
  <2> QED
    BY <2>1, <2>3 DEF Cut
<1>2. Cut(s, i + 1) = Len(s) + 1
  <2>1. {j \in (i + 1)..Len(s) : s[j] = Colon} = {}
    BY <1>0
  <2>2. {j \in (i + 1)..Len(s) : s[j] = Colon} \cup {Len(s) + 1} = {Len(s) + 1}
    BY <2>1
  <2>3. Min({Len(s) + 1}) = Len(s) + 1
    BY <1>0 DEF Min
  <2> QED
    BY <2>2, <2>3 DEF Cut
<1>3. (Len(s) + 1) - 1 = Len(s)
  BY <1>0
<1> QED
  BY <1>1, <1>2, <1>3 DEF PollPart, OptionPart

(* Two ids about a colon are the vote that the handler reads. *)
LEMMA VoteRead ==
    ASSUME NEW s \in Seq(Char), NEW i \in 1..Len(s), s[i] = Colon,
           ParseCallbackInt(SubSeq(s, 1, i - 1)) # None,
           ParseCallbackInt(SubSeq(s, i + 1, Len(s))) # None
    PROVE  /\ ~VoteRaises(s)
           /\ VoteParsed(s) = [poll   |-> ParseCallbackInt(SubSeq(s, 1, i - 1)),
                               option |-> ParseCallbackInt(SubSeq(s, i + 1, Len(s)))]
<1> DEFINE l == SubSeq(s, 1, i - 1)
           r == SubSeq(s, i + 1, Len(s))
<1>0. Len(s) \in Nat /\ i \in Nat /\ i >= 1 /\ i <= Len(s) /\ \A j \in 1..Len(s) : s[j] \in Char
  BY LenProperties
<1>1. /\ l \in Seq(Char) /\ Len(l) = i - 1
      /\ \A j \in 1..(i - 1) : l[j] = s[j]
  <2>1. 1 \in Int /\ i - 1 \in Int /\ \A j \in 1..(i - 1) : s[j] \in Char
    BY <1>0
  <2>2. /\ l \in Seq(Char) /\ Len(l) = IF 1 <= i - 1 THEN (i - 1) - 1 + 1 ELSE 0
        /\ \A j \in 1..((i - 1) - 1 + 1) : l[j] = s[1 + j - 1]
    BY <2>1, SubSeqProperties
  <2> HIDE DEF l
  <2>3. ASSUME NEW j \in 1..(i - 1) PROVE l[j] = s[j]
    <3>1. j \in 1..((i - 1) - 1 + 1) /\ 1 + j - 1 = j
      BY <1>0
    <3> QED
      BY <2>2, <3>1
  <2> QED
    BY <1>0, <2>2, <2>3
<1>2. /\ r \in Seq(Char) /\ Len(r) = Len(s) - i
      /\ \A j \in (i + 1)..Len(s) : j - i \in 1..Len(r) /\ r[j - i] = s[j]
  <2>1. i + 1 \in Int /\ Len(s) \in Int /\ \A j \in (i + 1)..Len(s) : s[j] \in Char
    BY <1>0
  <2>2. /\ r \in Seq(Char) /\ Len(r) = IF i + 1 <= Len(s) THEN Len(s) - (i + 1) + 1 ELSE 0
        /\ \A j \in 1..(Len(s) - (i + 1) + 1) : r[j] = s[i + 1 + j - 1]
    BY <2>1, SubSeqProperties
  <2> HIDE DEF r
  <2>3. Len(r) = Len(s) - i
    BY <1>0, <2>2
  <2>4. ASSUME NEW j \in (i + 1)..Len(s) PROVE j - i \in 1..Len(r) /\ r[j - i] = s[j]
    <3>1. j - i \in 1..(Len(s) - (i + 1) + 1) /\ i + 1 + (j - i) - 1 = j /\ j - i \in 1..Len(r)
      BY <1>0, <2>3
    <3> QED
      BY <2>2, <3>1
  <2> QED
    BY <2>2, <2>3, <2>4
<1>3. /\ l \in Seq(Digit) /\ l # <<>> /\ r \in Seq(Digit) /\ r # <<>>
      /\ ParseCallbackInt(l) = Number(l) /\ ParseCallbackInt(r) = Number(r)
  <2> HIDE DEF l, r
  <2>1. ParseCallbackInt(l) # None /\ ParseCallbackInt(r) # None
    BY DEF l, r
  <2> QED
    BY <1>1, <1>2, <2>1, StrictlyParsed, EmptySeq
<1> HIDE DEF l, r
<1>4. \A j \in 1..Len(s) : j # i => s[j] # Colon
  <2> SUFFICES ASSUME NEW j \in 1..Len(s), j # i
               PROVE  s[j] \in Digit
    BY BaseAssumption DEF Digit, Colon
  <2>1. CASE j < i
    <3>1. j \in 1..(i - 1)
      BY <1>0, <2>1
    <3>2. l[j] \in Digit
      BY <1>1, <1>3, <3>1, ElementOfSeq
    <3> QED
      BY <1>1, <3>1, <3>2
  <2>2. CASE j > i
    <3>1. j \in (i + 1)..Len(s)
      BY <1>0, <2>2
    <3>2. r[j - i] \in Digit
      BY <1>2, <1>3, <3>1, ElementOfSeq
    <3> QED
      BY <1>2, <3>1, <3>2
  <2> QED
    BY <1>0, <2>1, <2>2
<1>5. Cut(s, 1) = i /\ PollPart(s) = l /\ OptionPart(s) = r
  BY <1>4, VoteCuts DEF l, r
<1>6. IntAccepts(l) /\ PyInt(l) = Number(l) /\ IntAccepts(r) /\ PyInt(r) = Number(r)
  BY <1>3, IntReadsDigits
<1>7. ~VoteRaises(s)
  BY <1>0, <1>5, <1>6 DEF VoteRaises
<1>8. VoteParsed(s) = [poll |-> ParseCallbackInt(l), option |-> ParseCallbackInt(r)]
  BY <1>3, <1>5, <1>6 DEF VoteParsed
<1> QED
  BY <1>7, <1>8 DEF l, r

(* The vote's parsing agrees with it on every text where that accepts both  *)
(* ids.                                                                     *)
THEOREM ParsersAgreeHolds == TextSpec => []ParsersAgree
<1>1. TextTyped => ParsersAgree
  BY VoteRead, Zenon DEF TextTyped, ParsersAgree
<1> QED
  BY <1>1, TextKeepsType, PTL

(* The round trip of a button: an id of up to MaxDigits digits comes back as *)
(* the same id from the strict parser, and the two of a vote from int() and *)
(* split(":"), which never raise on them.                                   *)
THEOREM ButtonsComeBack ==
    \A poll, option \in Ids :
        LET vote == (Decimal[poll] \o <<Colon>>) \o Decimal[option]
        IN  /\ ParseCallbackInt(Decimal[poll]) = poll
            /\ ~VoteRaises(vote)
            /\ VoteParsed(vote) = [poll |-> poll, option |-> option]
<1> SUFFICES ASSUME NEW poll \in Ids, NEW option \in Ids
             PROVE  LET vote == (Decimal[poll] \o <<Colon>>) \o Decimal[option]
                    IN  /\ ParseCallbackInt(Decimal[poll]) = poll
                        /\ ~VoteRaises(vote)
                        /\ VoteParsed(vote) = [poll |-> poll, option |-> option]
  OBVIOUS
<1> DEFINE p == Decimal[poll]
           o == Decimal[option]
           c == <<Colon>>
           vote == (p \o c) \o o
           i == Len(p) + 1
<1>1. /\ p \in Seq(Char) /\ Len(p) \in 1..MaxDigits
      /\ o \in Seq(Char) /\ Len(o) \in 1..MaxDigits
      /\ ParseCallbackInt(p) = poll /\ poll # None
      /\ ParseCallbackInt(o) = option /\ option # None
  BY ButtonParsed, DigitsAreChars
<1>2. c \in Seq(Char) /\ Len(c) = 1 /\ c[1] = Colon
  BY DEF Char
<1> HIDE DEF p, o, c, vote
<1>3. Len(p) \in Nat \ {0} /\ Len(o) \in Nat \ {0}
  BY <1>1
<1> DEFINE a == p \o c
<1>4. a \in Seq(Char) /\ Len(a) = i /\ a[i] = Colon
  <2>1. /\ a \in Seq(Char) /\ Len(a) = Len(p) + Len(c)
        /\ \A j \in 1..(Len(p) + Len(c)) : a[j] = IF j <= Len(p) THEN p[j] ELSE c[j - Len(p)]
    BY <1>1, <1>2, ConcatProperties
  <2>2. i \in 1..(Len(p) + Len(c)) /\ i - Len(p) = 1 /\ ~(i <= Len(p))
    BY <1>2, <1>3
  <2> QED
    BY <1>2, <2>1, <2>2
<1>5. vote = a \o o
  BY DEF vote
<1>6. SubSeq(vote, 1, i - 1) = p
  <2>1. c \o o \in Seq(Char) /\ vote = p \o (c \o o)
    <3>1. c \o o \in Seq(Char)
      BY <1>1, <1>2, ConcatProperties
    <3>2. (p \o c) \o o = p \o (c \o o)
      <4>1. \A s, t, u \in Seq(Char) : (s \o t) \o u = s \o (t \o u)
        BY ConcatAssociative
      <4> QED
        BY <1>1, <1>2, <4>1
    <3> QED
      BY <1>5, <3>1, <3>2
  <2>2. 1 \in 1..Len(p) /\ Len(p) \in 1..Len(p) /\ i - 1 = Len(p)
    BY <1>3
  <2>3. SubSeq(p \o (c \o o), 1, Len(p)) = SubSeq(p, 1, Len(p))
    BY <1>1, <2>1, <2>2, SubSeqOfConcat1
  <2> QED
    BY <1>1, <2>1, <2>2, <2>3, SubSeqFull
<1> HIDE DEF a
<1>7. vote \in Seq(Char) /\ Len(vote) = i + Len(o) /\ vote[i] = Colon
  <2>1. /\ a \o o \in Seq(Char) /\ Len(a \o o) = Len(a) + Len(o)
        /\ \A j \in 1..(Len(a) + Len(o)) : (a \o o)[j] = IF j <= Len(a) THEN a[j] ELSE o[j - Len(a)]
    BY <1>1, <1>4, ConcatProperties
  <2>2. i \in 1..(i + Len(o)) /\ i <= i
    BY <1>3
  <2> HIDE DEF i
  <2> QED
    BY <1>4, <1>5, <2>1, <2>2
<1>8. SubSeq(vote, i + 1, Len(vote)) = o
  <2>1. i \in Nat /\ Len(o) \in Nat \ {0}
    BY <1>3
  <2> HIDE DEF i
  <2>2. /\ i + 1 \in (Len(a) + 1)..(Len(a) + Len(o))
        /\ i + Len(o) \in (Len(a) + 1)..(Len(a) + Len(o))
        /\ (i + 1) - Len(a) = 1 /\ (i + Len(o)) - Len(a) = Len(o)
    BY <1>4, <2>1
  <2>3. SubSeq(a \o o, i + 1, i + Len(o)) = SubSeq(o, 1, Len(o))
    <3>1. SubSeq(a \o o, i + 1, i + Len(o)) =
             SubSeq(o, (i + 1) - Len(a), (i + Len(o)) - Len(a))
      <4>1. \A s, t \in Seq(Char) :
               \A m, n \in (Len(s) + 1)..(Len(s) + Len(t)) :
                  SubSeq(s \o t, m, n) = SubSeq(t, m - Len(s), n - Len(s))
        BY SubSeqOfConcat2
      <4> QED
        BY <1>1, <1>4, <2>2, <4>1
    <3> QED
      BY <2>2, <3>1
  <2> QED
    BY <1>1, <1>5, <1>7, <2>3, SubSeqFull
<1>9. /\ ~VoteRaises(vote)
      /\ VoteParsed(vote) = [poll   |-> ParseCallbackInt(SubSeq(vote, 1, i - 1)),
                             option |-> ParseCallbackInt(SubSeq(vote, i + 1, Len(vote)))]
  <2> HIDE DEF i
  <2>1. /\ ParseCallbackInt(SubSeq(vote, 1, i - 1)) # None
        /\ ParseCallbackInt(SubSeq(vote, i + 1, Len(vote))) # None
    BY <1>1, <1>6, <1>8
  <2>2. i \in 1..Len(vote)
    <3>1. i \in 1..(i + Len(o))
      BY <1>3 DEF i
    <3> QED
      BY <1>7, <3>1
  <2> QED
    BY <1>7, <2>1, <2>2, VoteRead
<1>10. ~VoteRaises(vote) /\ VoteParsed(vote) = [poll |-> poll, option |-> option]
  BY <1>1, <1>6, <1>8, <1>9
<1> QED
  BY <1>1, <1>10 DEF p, o, c, vote

(* With the code's values what the strict parser returns is a rowid: it is  *)
(* below 10^18, and 2^63, where the keys of the database end, is 9.2 * 10^18. *)
THEOREM IdsAreRowids ==
    ASSUME Base = 10, MaxDigits = 18
    PROVE  \A s \in Seq(Char) : ParseCallbackInt(s) # None =>
              ParseCallbackInt(s) \in Nat /\ ParseCallbackInt(s) < 1000000000000000000
<1>1. \A n \in Nat : Power[n + 3] = 1000 * Power[n]
  <2> SUFFICES ASSUME NEW n \in Nat PROVE Power[n + 3] = 1000 * Power[n]
    BY SMT
  <2>1. n + 1 \in Nat /\ n + 2 \in Nat /\ (n + 1) + 1 = n + 2 /\ (n + 2) + 1 = n + 3
    BY SMT
  <2>2. /\ Power[n + 1] = 10 * Power[n]
        /\ Power[(n + 1) + 1] = 10 * Power[n + 1]
        /\ Power[(n + 2) + 1] = 10 * Power[n + 2]
    BY <2>1, PowerStep, SMT
  <2>3. Power[n] \in Nat
    BY PowerType, SMT
  <2> QED
    BY <2>1, <2>2, <2>3, SMT
<1>2. Power[0] = 1
  BY PowerStep
<1>3. Power[3] = 1000
  BY <1>1, <1>2, 0 + 3 = 3, SMT
<1>4. Power[6] = 1000000
  BY <1>1, <1>3, 3 + 3 = 6, SMT
<1>5. Power[9] = 1000000000
  BY <1>1, <1>4, 6 + 3 = 9, SMT
<1>6. Power[12] = 1000000000000
  BY <1>1, <1>5, 9 + 3 = 12, SMT
<1>7. Power[15] = 1000000000000000
  BY <1>1, <1>6, 12 + 3 = 15, SMT
<1>8. Power[18] = 1000000000000000000
  BY <1>1, <1>7, 15 + 3 = 18, SMT
<1>9. ASSUME NEW s \in Seq(Char), ParseCallbackInt(s) # None
      PROVE  ParseCallbackInt(s) \in Nat /\ ParseCallbackInt(s) < Power[18]
  <2>1. ParseCallbackInt(s) \in 0..(Power[18] - 1)
    BY <1>9, StrictlyParsed DEF Ids
  <2>2. Power[18] \in Nat
    BY PowerType
  <2> QED
    BY <2>1, <2>2
<1> QED
  BY <1>8, <1>9, SMT

=============================================================================
