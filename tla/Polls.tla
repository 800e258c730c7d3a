------------------------------- MODULE Polls -------------------------------
(***************************************************************************)
(* The polls: create_poll, vote_poll, get_poll_results and                 *)
(* get_active_polls of src/membership/service.py, and the handlers         *)
(* list_polls, view_poll and vote of src/membership/handlers.py.           *)
(*                                                                         *)
(* A vote is two transactions of one handler, and a menu is shown after it *)
(* has been read, with other handlers in between.  Buttons stay in the     *)
(* chats: any button ever sent to a user may be pressed by that user at    *)
(* any later time.  Nothing the program runs closes a poll (or calls       *)
(* create_poll): the operator does.                                        *)
(***************************************************************************)
EXTENDS Naturals, FiniteSets

CONSTANTS
    User,      \* Telegram users
    Poll,      \* ids of polls (bound)
    Options,   \* how many options a poll has
    Task,      \* handlers running at the same time (bound)
    MaxFaults  \* bound: errors of the database or of Telegram, and deaths

ASSUME OptionsAssumption == Options \in Nat \ {0}
ASSUME FaultsAssumption == MaxFaults \in Nat

VARIABLES
    polls,     \* polls[p]: is p in the table, and is_active
    votes,     \* the table poll_votes
    sent,      \* sent[u]: the buttons u has been sent
    task,      \* task[t]: the menu that t is to send, or the vote that it
               \* handles and how far it is
    faults,    \* faults so far
    thanked,   \* history: the votes answered with "Голос учтён!"
    refused,   \* history: the votes answered with "Вы уже голосовали."
    shown      \* history: the results shown

history == <<thanked, refused, shown>>
vars == <<polls, votes, sent, task, faults, history>>

Vote == [poll : Poll, user : User, option : 0..(Options - 1)]
Button == [name : {"poll"}, poll : Poll]
          \cup [name : {"vote"}, poll : Poll, option : 0..(Options - 1)]
Idle == [at |-> "idle"]
Handler ==
    {Idle} \cup [at : {"insert", "results"}, vote : Vote]
           \cup [at : {"answer"}, user : User, buttons : SUBSET Button]

TypeOK ==
    /\ polls \in [Poll -> {"none", "open", "closed"}]
    /\ votes \subseteq Vote
    /\ sent \in [User -> SUBSET Button]
    /\ task \in [Task -> Handler]
    /\ faults \in 0..MaxFaults
    /\ thanked \subseteq Vote
    /\ refused \subseteq [vote : Vote, failed : BOOLEAN]
    /\ shown \subseteq [to : Vote, counted : SUBSET Vote]

Init ==
    /\ polls = [p \in Poll |-> "none"]
    /\ votes = {}
    /\ sent = [u \in User |-> {}]
    /\ task = [t \in Task |-> Idle]
    /\ faults = 0
    /\ thanked = {} /\ refused = {} /\ shown = {}

Fault == faults < MaxFaults /\ faults' = faults + 1

-----------------------------------------------------------------------------
(* The tables. *)

CreatePoll(p) ==
    /\ polls[p] = "none"
    /\ polls' = [polls EXCEPT ![p] = "open"]
    /\ UNCHANGED <<votes, sent, task, faults, history>>

ClosePoll(p) ==
    /\ polls[p] = "open"
    /\ polls' = [polls EXCEPT ![p] = "closed"]
    /\ UNCHANGED <<votes, sent, task, faults, history>>

ActivePolls == {p \in Poll : polls[p] = "open"}

(* Mutants of Voted: UNIQUE(poll_id), and UNIQUE(poll_id, user_id, option). *)
VotedAnyone(v) == \E w \in votes : w.poll = v.poll
VotedSame(v) == v \in votes

(* UNIQUE(poll_id, user_id)                                                 *)
Voted(v) == \E w \in votes : w.poll = v.poll /\ w.user = v.user

Results(p) == {v \in votes : v.poll = p}

-----------------------------------------------------------------------------
(* The handlers. *)

At(t, stage) == task[t].at = stage
Ends(t) == task' = [task EXCEPT ![t] = Idle]
Answers(t, u, bs) ==
    task' = [task EXCEPT ![t] = [at |-> "answer", user |-> u, buttons |-> bs]]

ListPolls(t, u) ==
    /\ At(t, "idle")
    /\ Answers(t, u, [name : {"poll"}, poll : ActivePolls])
    /\ UNCHANGED <<polls, votes, sent, faults, history>>

(* A button of a poll that is not active is answered without a menu.        *)
ViewPoll(t, u, p) ==
    /\ At(t, "idle")
    /\ [name |-> "poll", poll |-> p] \in sent[u]
    /\ p \in ActivePolls
    /\ Answers(t, u, [name : {"vote"}, poll : {p}, option : 0..(Options - 1)])
    /\ UNCHANGED <<polls, votes, sent, faults, history>>

(* edit_text: the menu shows what was read before it.                       *)
EditText(t) ==
    /\ At(t, "answer")
    /\ sent' = [sent EXCEPT ![task[t].user] = @ \cup task[t].buttons]
    /\ Ends(t)
    /\ UNCHANGED <<polls, votes, faults, history>>

VoteBegin(t, v) ==
    /\ At(t, "idle")
    /\ [name |-> "vote", poll |-> v.poll, option |-> v.option] \in sent[v.user]
    /\ task' = [task EXCEPT ![t] = [at |-> "insert", vote |-> v]]
    /\ UNCHANGED <<polls, votes, sent, faults, history>>

(* Mutant of VoteInserted: the transaction is not committed.                *)
VoteNotCommitted(t) ==
    /\ At(t, "insert")
    /\ ~Voted(task[t].vote)
    /\ task' = [task EXCEPT ![t].at = "results"]
    /\ UNCHANGED <<polls, votes, sent, faults, history>>

(* Neither vote nor vote_poll looks at polls.                               *)
VoteInserted(t) ==
    /\ At(t, "insert")
    /\ ~Voted(task[t].vote)
    /\ votes' = votes \cup {task[t].vote}
    /\ task' = [task EXCEPT ![t].at = "results"]
    /\ UNCHANGED <<polls, sent, faults, history>>

Refuses(t, failed) ==
    /\ refused' = refused \cup {[vote |-> task[t].vote, failed |-> failed]}
    /\ Ends(t)
    /\ UNCHANGED <<polls, votes, sent, thanked, shown>>

VoteRefused(t) ==
    /\ At(t, "insert")
    /\ Voted(task[t].vote)
    /\ Refuses(t, FALSE)
    /\ UNCHANGED faults

(* Every exception of the INSERT counts as the constraint's.                *)
InsertFails(t) == At(t, "insert") /\ Fault /\ Refuses(t, TRUE)

ShowResults(t) ==
    /\ At(t, "results")
    /\ thanked' = thanked \cup {task[t].vote}
    /\ shown' = shown \cup {[to |-> task[t].vote, counted |-> Results(task[t].vote.poll)]}
    /\ Ends(t)
    /\ UNCHANGED <<polls, votes, sent, faults, refused>>

(* The commit, the results or the answer raises, and nothing is answered.   *)
HandlerRaises(t) ==
    /\ ~At(t, "idle")
    /\ Fault
    /\ Ends(t)
    /\ UNCHANGED <<polls, votes, sent, history>>

Crash ==
    /\ Fault
    /\ task' = [t \in Task |-> Idle]
    /\ UNCHANGED <<polls, votes, sent, history>>

Next ==
    \/ \E p \in Poll : CreatePoll(p) \/ ClosePoll(p)
    \/ \E t \in Task :
          \/ \E u \in User : ListPolls(t, u) \/ \E p \in Poll : ViewPoll(t, u, p)
          \/ EditText(t)
          \/ \E v \in Vote : VoteBegin(t, v)
          \/ VoteInserted(t) \/ VoteRefused(t) \/ InsertFails(t)
          \/ ShowResults(t) \/ HandlerRaises(t)
    \/ Crash

Spec == Init /\ [][Next]_vars

-----------------------------------------------------------------------------
(* Properties. *)

(* A user who was thanked has exactly that vote in the table, for ever,     *)
(* whatever further buttons are pressed, in parallel or later.              *)
ThankedVotesCount ==
    \A v \in thanked : {w \in votes : w.poll = v.poll /\ w.user = v.user} = {v}

(* The results shown to a voter count the voter's own vote, one vote per    *)
(* user, and two results of a poll never contradict each other: the later   *)
(* counts all that the earlier did (vote inserts in one transaction and     *)
(* counts in another).                                                      *)
ResultsAreHonest ==
    /\ \A s \in shown : s.to \in s.counted
    /\ \A s, r \in shown :
          s.to.poll = r.to.poll => s.counted \subseteq r.counted \/ r.counted \subseteq s.counted
    /\ \A s \in shown : \A v, w \in s.counted : v.user = w.user => v = w

(* Without an error of the database in that very call, "Вы уже голосовали." *)
(* is said only to a user whose vote on that poll is counted.               *)
RefusalNeedsVoteOrError ==
    \A r \in refused :
        r.failed \/ \E w \in votes : w.poll = r.vote.poll /\ w.user = r.vote.user

(* What a voter is told is true and stays true: "Голос учтён!" as well as   *)
(* "Вы уже голосовали.", the latter with the exception of that error.       *)
AnswersAreTrue == ThankedVotesCount /\ RefusalNeedsVoteOrError

=============================================================================
