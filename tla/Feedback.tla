------------------------------- MODULE Feedback -------------------------------
(***************************************************************************)
(* Search feedback (packages/ranking/src/feedback): the bounded store of   *)
(* votes with their expiry, the review queue that votes are imported into, *)
(* and the handlers of the API that reach both (apps/api/src/routes.ts).   *)
(*                                                                         *)
(* Abstractions: of a vote its id and its time are kept, of a candidate    *)
(* case that there is one; time is counted in ticks.                       *)
(***************************************************************************)
EXTENDS Integers, Sequences, FiniteSets, SequencesExt

CONSTANTS
  VoteId,           \* feedbackId, which a client may choose
  MaxStoredRecords,
  Retention,        \* maxRetentionDays, in ticks
  BurstThreshold, BurstWindow,
  MaxVotes, MaxDay  \* bounds: votes submitted, ticks

ASSUME FeedbackAssumption ==
  /\ MaxStoredRecords \in Nat \ {0} /\ Retention \in Nat \ {0}
  /\ BurstThreshold \in Nat /\ BurstWindow \in Nat /\ MaxVotes \in Nat /\ MaxDay \in Nat

VARIABLES
  day,
  votes,      \* records of FeedbackStorage, the oldest first
  review,     \* items of FeedbackReviewQueue, in the order of their import
  \* history
  submitted   \* all votes, in their order, and whether they were deleted

feedbackVars == <<day, votes, review, submitted>>

Vote   == [id : VoteId, at : 0..MaxDay]
Status == {"pending", "approved_for_evaluation"}   \* of the five

FeedbackTypeOK ==
  /\ day \in 0..MaxDay
  /\ votes \in Seq(Vote) /\ Len(votes) <= MaxStoredRecords
  /\ \A i \in DOMAIN review : review[i] \in
       [vote : Vote, status : Status, candidate : BOOLEAN, burst : BOOLEAN]
  /\ \A i \in DOMAIN submitted : submitted[i] \in [vote : Vote, deleted : BOOLEAN]

FeedbackInit ==
  /\ day = 0 /\ votes = <<>> /\ review = <<>> /\ submitted = <<>>

DayPasses ==
  /\ day < MaxDay /\ day' = day + 1
  /\ UNCHANGED <<votes, review, submitted>>

(***************************************************************************)
(* FeedbackStorage                                                         *)
(***************************************************************************)
\* purgeExpired
Unexpired(s) ==
  LET kept[n \in 0..Len(s)] ==
        IF n = 0 THEN <<>>
        ELSE IF s[n].at + Retention > day THEN Append(kept[n - 1], s[n]) ELSE kept[n - 1]
  IN  kept[Len(s)]

\* addRecord: at capacity the oldest makes room
Stored(s, v) == Append(IF Len(s) >= MaxStoredRecords THEN Tail(s) ELSE s, v)

SubmitFeedback(id) ==
  LET v == [id |-> id, at |-> day] IN
  /\ Len(submitted) < MaxVotes
  /\ votes' = Stored(Unexpired(votes), v)
  /\ submitted' = Append(submitted, [vote |-> v, deleted |-> FALSE])
  /\ UNCHANGED <<day, review>>

\* getAllRecords, exportToJson and getStats purge first
ExportFeedback ==
  /\ votes' = Unexpired(votes)
  /\ UNCHANGED <<day, review, submitted>>

\* deleteById deletes the first vote of that id
DeleteRecord(id) ==
  /\ \E i \in DOMAIN votes :
       /\ votes[i].id = id /\ \A j \in 1..i - 1 : votes[j].id # id
       /\ votes' = RemoveAt(votes, i)
       /\ submitted' = [n \in DOMAIN submitted |->
            IF submitted[n].vote = votes[i] THEN [submitted[n] EXCEPT !.deleted = TRUE] ELSE submitted[n]]
  /\ UNCHANGED <<day, review>>

PurgeAllRecords ==
  /\ votes' = <<>>
  /\ submitted' = [n \in DOMAIN submitted |-> [submitted[n] EXCEPT !.deleted = TRUE]]
  /\ UNCHANGED <<day, review>>

(***************************************************************************)
(* FeedbackReviewQueue                                                     *)
(***************************************************************************)
Near(t, at) == t - at \in -BurstWindow..BurstWindow

\* evaluateRecord, among the votes in the queue and the others of the batch: a vote
\* that is in both counts twice
InWindow(batch, v) ==
  1 + Cardinality({i \in DOMAIN review : Near(review[i].vote.at, v.at)})
    + Cardinality({i \in DOMAIN batch : Near(batch[i].at, v.at)}) - 1
IsBurst(batch, v) == InWindow(batch, v) > BurstThreshold

Imported(items, id) == \E i \in DOMAIN items : items[i].vote.id = id

\* importRecords
NewItem(batch, v) == [vote |-> v, status |-> "pending", candidate |-> FALSE, burst |-> IsBurst(batch, v)]
ItemsAfter(batch) ==
  LET items[n \in 0..Len(batch)] ==
        IF n = 0 THEN review
        ELSE IF Imported(items[n - 1], batch[n].id) THEN items[n - 1]
        ELSE Append(items[n - 1], NewItem(batch, batch[n]))
  IN  items[Len(batch)]

\* what an earlier export may have held
Slice(m, n) == [i \in 1..n - m |-> submitted[m + i].vote]
Exported == {Slice(q[1], q[2]) : q \in {p \in (0..Len(submitted)) \X (0..Len(submitted)) :
                                          p[1] < p[2] /\ p[2] - p[1] <= MaxStoredRecords}}

\* the votes the service has, or those of an earlier export
ImportFeedback ==
  \/ /\ votes' = Unexpired(votes) /\ review' = ItemsAfter(votes')
     /\ UNCHANGED <<day, submitted>>
  \/ /\ \E batch \in Exported : review' = ItemsAfter(batch)
     /\ UNCHANGED <<day, votes, submitted>>

\* any status may be set, whatever it was
UpdateStatus(i, status) ==
  /\ review' = [review EXCEPT ![i].status = status]
  /\ UNCHANGED <<day, votes, submitted>>

ApproveEvaluationCase(i) ==
  /\ review' = [review EXCEPT ![i].status = "approved_for_evaluation", ![i].candidate = TRUE]
  /\ UNCHANGED <<day, votes, submitted>>

FeedbackNext ==
  \/ DayPasses \/ ExportFeedback \/ PurgeAllRecords \/ ImportFeedback
  \/ \E id \in VoteId : SubmitFeedback(id) \/ DeleteRecord(id)
  \/ \E i \in DOMAIN review : ApproveEvaluationCase(i) \/ \E s \in Status : UpdateStatus(i, s)

FeedbackSpec == FeedbackInit /\ [][FeedbackNext]_feedbackVars

(***************************************************************************)
(* Properties                                                              *)
(***************************************************************************)
Newer(n) == Len(submitted) - n

\* A vote is still stored until it has expired, was deleted, or as many newer votes
\* as the buffer holds have come in.
RecentFeedbackKept ==
  \A n \in DOMAIN submitted :
    LET v == submitted[n].vote IN
      \/ submitted[n].deleted \/ v.at + Retention <= day \/ Newer(n) >= MaxStoredRecords
      \/ v \in ToSet(votes)

\* "Duplicate sourceFeedbackIds are ignored to preserve idempotency": however often and
\* from wherever votes are imported, the queue has one item for each id.
ImportedOnce ==
  \A i, j \in DOMAIN review : review[i].vote.id = review[j].vote.id => i = j

\* Votes reach the queue a batch at a time: when the queue holds more votes of one
\* window than the threshold, the last of them is marked as part of a burst.
BurstsAreMarked ==
  \A i \in DOMAIN review :
    Cardinality({j \in 1..i : Near(review[j].vote.at, review[i].vote.at)}) > BurstThreshold
      => review[i].burst
===============================================================================
