------------------------------ MODULE Ratings -------------------------------
(***************************************************************************)
(* The ratings of a business and the prompt that asks a customer for one.  *)
(* A rating and the counters of the business are written by one            *)
(* transaction: a row, unique for the customer, then the counters, raised  *)
(* in place while the row of the business is locked.  Whether to ask is    *)
(* decided from three reads that run side by side.                         *)
(***************************************************************************)
EXTENDS Integers, FiniteSets, FiniteSetsExt

CONSTANTS
    Raters,       \* customers
    Given,        \* scores given
    Pens,        \* requests at work
    Rest,         \* days a dismissed prompt rests: 30
    LastRest,      \* bound: days
    MaxRatings,  \* bound: ratings sent
    MaxDismissed, \* bound: dismissals
    Nil           \* nothing

Scores == 1 .. 5

ASSUME RatingsAssumption ==
    /\ Given \subseteq Scores
    /\ Rest \in Nat /\ LastRest \in Nat /\ MaxRatings \in Nat /\ MaxDismissed \in Nat
    /\ Nil \notin Scores /\ IsFiniteSet(Raters)

-----------------------------------------------------------------------------
VARIABLES
    score,      \* each customer's rating of the business, as committed, or Nil
    business,   \* its counters: reviews, stars, and the average as points over reviews
    hold,       \* the request that locks the row of the business, or Nil
    rating,     \* each request to rate, or Nil
    sent,       \* ratings sent so far
    announced,       \* customers whose rating was announced to the owner
    day,
    served,     \* customers with a completed appointment
    dismissed,  \* the days on which each customer dismissed the prompt
    prompt      \* the question whether to ask a customer, or Nil

ratingsVars == <<score, business, hold, rating, sent, announced, day, served, dismissed, prompt>>

Rated == {u \in Raters : score[u] # Nil}

RatingsInit ==
    /\ score = [u \in Raters |-> Nil]
    /\ business = [reviews |-> 0, stars |-> [s \in Scores |-> 0], points |-> 0, over |-> 1]
    /\ hold = Nil /\ rating = [x \in Pens |-> Nil]
    /\ sent = 0 /\ announced = {}
    /\ day = 0 /\ served = {} /\ dismissed = [u \in Raters |-> {}]
    /\ prompt = Nil

-----------------------------------------------------------------------------
(* RateBusinessUseCase.                                                    *)
Points(stars) ==
    stars[1] * 1 + stars[2] * 2 + stars[3] * 3 + stars[4] * 4 + stars[5] * 5

\* Mutant: the average is of the stars before this one.
CountedLate(b, s) ==
    [reviews |-> b.reviews + 1, stars |-> [b.stars EXCEPT ![s] = b.stars[s] + 1],
     points |-> Points(b.stars), over |-> b.reviews + 1]

Counted(b, s) ==
    LET stars == [b.stars EXCEPT ![s] = b.stars[s] + 1]
    IN [reviews |-> b.reviews + 1, stars |-> stars, points |-> Points(stars), over |-> b.reviews + 1]

RatingAt(x, step) == rating[x] # Nil /\ rating[x].at = step
RatingGoes(x, step) == rating' = [rating EXCEPT ![x] = [at |-> step, by |-> rating[x].by, score |-> rating[x].score]]
RatingDone(x) == rating' = [rating EXCEPT ![x] = Nil]

\* Who has rated is refused.
SendRating(x, u, s) ==
    /\ rating[x] = Nil /\ sent < MaxRatings
    /\ sent' = sent + 1
    /\ rating' = [rating EXCEPT ![x] = IF score[u] # Nil THEN Nil ELSE [at |-> "insert", by |-> u, score |-> s]]
    /\ UNCHANGED <<score, business, hold, announced, day, served, dismissed, prompt>>

\* The unique index makes a second row wait for the first, and refuses it
\* when the first is committed.
InsertRating(x) ==
    /\ RatingAt(x, "insert")
    /\ ~ \E y \in Pens \ {x} :
            /\ rating[y] # Nil /\ rating[y].by = rating[x].by
            /\ rating[y].at \in {"count", "commit"}
    /\ IF score[rating[x].by] # Nil THEN RatingDone(x) ELSE RatingGoes(x, "count")
    /\ UNCHANGED <<score, business, hold, sent, announced, day, served, dismissed, prompt>>

CountRating(x) ==
    /\ RatingAt(x, "count") /\ hold = Nil
    /\ hold' = x
    /\ RatingGoes(x, "commit")
    /\ UNCHANGED <<score, business, sent, announced, day, served, dismissed, prompt>>

CommitRating(x) ==
    /\ RatingAt(x, "commit")
    /\ score' = [score EXCEPT ![rating[x].by] = rating[x].score]
    /\ business' = Counted(business, rating[x].score)
    /\ hold' = Nil
    /\ RatingGoes(x, "tell")
    /\ UNCHANGED <<sent, announced, day, served, dismissed, prompt>>

\* The transaction fails or takes too long, or the gateway stops.
FailRating(x) ==
    /\ rating[x] # Nil
    /\ RatingDone(x)
    /\ hold' = IF hold = x THEN Nil ELSE hold
    /\ UNCHANGED <<score, business, sent, announced, day, served, dismissed, prompt>>

\* The owner is not told of his own rating, nor without a profile.
TellOwner(x) ==
    /\ RatingAt(x, "tell")
    /\ announced' \in {announced, announced \cup {rating[x].by}}
    /\ RatingDone(x)
    /\ UNCHANGED <<score, business, hold, sent, day, served, dismissed, prompt>>

-----------------------------------------------------------------------------
(* GetRatingPromptUseCase.  "put" is what the customer did before asking.  *)
Reads == {"served", "rated", "dismissed"}
NoDay == -1

LatestDismissal(u) == IF dismissed[u] = {} THEN NoDay ELSE Max(dismissed[u])

AskForRating(u) ==
    /\ prompt = Nil
    /\ prompt' = [user |-> u, left |-> Reads, served |-> FALSE, rated |-> FALSE, last |-> NoDay, show |-> FALSE,
                  rests |-> \E d \in dismissed[u] : day - d < Rest, done |-> score[u] # Nil]
    /\ UNCHANGED <<score, business, hold, rating, sent, announced, day, served, dismissed>>

ReadPrompt(r) ==
    /\ prompt # Nil /\ r \in prompt.left
    /\ prompt' = [prompt EXCEPT
            !.left = prompt.left \ {r},
            !.served = IF r = "served" THEN prompt.user \in served ELSE prompt.served,
            !.rated = IF r = "rated" THEN score[prompt.user] # Nil ELSE prompt.rated,
            !.last = IF r = "dismissed" THEN LatestDismissal(prompt.user) ELSE prompt.last]
    /\ UNCHANGED <<score, business, hold, rating, sent, announced, day, served, dismissed>>

PromptDue == prompt.served /\ ~prompt.rated /\ (prompt.last # NoDay => day - prompt.last >= Rest)

AnswerPrompt ==
    /\ prompt # Nil /\ prompt.left = {} /\ ~prompt.show
    /\ prompt' = IF PromptDue THEN [prompt EXCEPT !.show = TRUE] ELSE Nil
    /\ UNCHANGED <<score, business, hold, rating, sent, announced, day, served, dismissed>>

\* DismissRatingPromptUseCase: one more row each time.
DismissPrompt(u) ==
    /\ day \notin dismissed[u]
    /\ Cardinality(dismissed[u]) < MaxDismissed
    /\ dismissed' = [dismissed EXCEPT ![u] = dismissed[u] \cup {day}]
    /\ UNCHANGED <<score, business, hold, rating, sent, announced, day, served, prompt>>

ClosePrompt ==
    /\ prompt # Nil /\ prompt.show
    /\ prompt' = Nil
    /\ UNCHANGED <<score, business, hold, rating, sent, announced, day, served, dismissed>>

\* An appointment of his is completed: module Agenda.
ServeCustomer(u) ==
    /\ u \notin served
    /\ served' = served \cup {u}
    /\ UNCHANGED <<score, business, hold, rating, sent, announced, day, dismissed, prompt>>

RatingsNextDay ==
    /\ day < LastRest
    /\ day' = day + 1
    \* A prompt that is up stays up; one that is decided takes less than a day.
    /\ prompt # Nil => prompt.show
    /\ UNCHANGED <<score, business, hold, rating, sent, announced, served, dismissed, prompt>>

RatingsNext ==
    \/ \E x \in Pens, u \in Raters, s \in Given : SendRating(x, u, s)
    \/ \E x \in Pens :
        InsertRating(x) \/ CountRating(x) \/ CommitRating(x) \/ FailRating(x) \/ TellOwner(x)
    \/ \E u \in Raters : AskForRating(u) \/ DismissPrompt(u) \/ ServeCustomer(u)
    \/ \E r \in Reads : ReadPrompt(r)
    \/ AnswerPrompt \/ ClosePrompt \/ RatingsNextDay

RatingsSpec == RatingsInit /\ [][RatingsNext]_ratingsVars

-----------------------------------------------------------------------------
(* The counters and the average are those of the ratings that are there,   *)
(* whoever rates at the same time and whichever transaction fails; and the *)
(* owner is told of no other.                                              *)
StarsAddUp ==
    /\ business.reviews = Cardinality(Rated)
    /\ \A s \in Scores : business.stars[s] = Cardinality({u \in Raters : score[u] = s})
    /\ business.points = Points(business.stars)
    /\ Rated # {} => business.over = business.reviews
    /\ announced \subseteq Rated

(* Nobody is asked who has rated the business, or who dismissed the prompt *)
(* within the last thirty days, before the question came up.               *)
NotAskedAgain == prompt # Nil /\ prompt.show => ~prompt.rests /\ ~prompt.done

(* What has been rated counts once, and is not asked for again.            *)
RatingsHold == StarsAddUp /\ NotAskedAgain
=============================================================================
