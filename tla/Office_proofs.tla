--------------------------- MODULE Office_proofs ----------------------------
(***************************************************************************)
(* Theorems about parts that the office run explores side by side: the     *)
(* live streams, the ratings, the customers, the confirmations, the lists  *)
(* read by pages, the messages, the prompts of the home screen, the        *)
(* catalogue and the reports.  They share no variable; each has its own    *)
(* inductive invariant.                                                    *)
(***************************************************************************)
EXTENDS Streams, Ratings, People, Confirmations, Listings, Messaging,
        Prompts, Catalogue, Reports, FiniteSetTheorems, WellFoundedInduction, TLAPS

-----------------------------------------------------------------------------
(* Streams.  A stream lies in the bucket of its business exactly as long   *)
(* as it has a heartbeat, and every stream that was opened has one or is   *)
(* over.                                                                   *)
StreamsInv ==
    /\ bucket \in [Offices -> SUBSET Streams] /\ meta \subseteq Streams
    /\ office \in [Streams -> Offices \cup {Unopened}]
    /\ \A b \in Offices, s \in Streams : s \in bucket[b] <=> s \in meta /\ office[s] = b
    /\ listening \subseteq meta /\ meta \cap over = {}
    /\ \A s \in Streams : s \in meta \cup over <=> office[s] # Unopened
    /\ DOMAIN heard = Streams /\ heard = owed

LEMMA OpenStreamInv ==
  ASSUME StreamsInv, NEW s \in Streams, NEW b \in Offices, OpenStream(s, b) PROVE StreamsInv'
<1>1. /\ office[s] = Unopened /\ office' = [office EXCEPT ![s] = b]
      /\ bucket' = [bucket EXCEPT ![b] = bucket[b] \cup {s}] /\ meta' = meta \cup {s}
      /\ UNCHANGED <<listening, over, events, heard, owed>>
  BY DEF OpenStream
<1>2. bucket' \in [Offices -> SUBSET Streams] /\ meta' \subseteq Streams
  BY <1>1 DEF StreamsInv
<1>3. office' \in [Streams -> Offices \cup {Unopened}]
  BY <1>1 DEF StreamsInv
<1>4. s \notin meta \cup over
  BY <1>1 DEF StreamsInv
<1>5. \A a \in Offices, t \in Streams : t \in bucket'[a] <=> t \in meta' /\ office'[t] = a
  <2> SUFFICES ASSUME NEW a \in Offices, NEW t \in Streams
               PROVE  t \in bucket'[a] <=> t \in meta' /\ office'[t] = a
    OBVIOUS
  <2>1. bucket'[a] = IF a = b THEN bucket[b] \cup {s} ELSE bucket[a]
    BY <1>1 DEF StreamsInv
  <2>2. office'[t] = IF t = s THEN b ELSE office[t]
    BY <1>1 DEF StreamsInv
  <2> QED BY <1>1, <1>4, <2>1, <2>2 DEF StreamsInv
<1>6. \A t \in Streams : t \in meta' \cup over' <=> office'[t] # Unopened
  BY <1>1, StreamsAssumption DEF StreamsInv
<1>7. listening' \subseteq meta' /\ meta' \cap over' = {}
  BY <1>1, <1>4 DEF StreamsInv
<1> QED BY <1>1, <1>2, <1>3, <1>5, <1>6, <1>7 DEF StreamsInv

LEMMA PublishEventInv ==
  ASSUME StreamsInv, NEW b \in Offices, PublishEvent(b) PROVE StreamsInv'
<1>1. UNCHANGED <<bucket, meta, office, listening, over>>
  BY DEF PublishEvent
<1>2. \A s \in Streams : s \in bucket[b] \cap listening <=> office[s] = b /\ s \in listening
  BY DEF StreamsInv
<1>3. heard' = owed' /\ DOMAIN heard' = Streams
  BY <1>2 DEF PublishEvent, StreamsInv
<1> QED BY <1>1, <1>3 DEF StreamsInv

LEMMA CloseStreamInv ==
  ASSUME StreamsInv, NEW s \in Streams, CloseStream(s) PROVE StreamsInv'
<1>1. /\ s \in meta
      /\ listening' = listening \ {s} /\ over' = over \cup {s} /\ meta' = meta \ {s}
      /\ bucket' = [bucket EXCEPT ![office[s]] = bucket[office[s]] \ {s}]
      /\ UNCHANGED <<office, events, heard, owed>>
  BY DEF CloseStream, Without, StreamsInv
<1>2. office[s] \in Offices
  BY <1>1 DEF StreamsInv
<1>3. bucket' \in [Offices -> SUBSET Streams] /\ meta' \subseteq Streams
  BY <1>1, <1>2 DEF StreamsInv
<1>4. \A a \in Offices, t \in Streams : t \in bucket'[a] <=> t \in meta' /\ office'[t] = a
  <2> SUFFICES ASSUME NEW a \in Offices, NEW t \in Streams
               PROVE  t \in bucket'[a] <=> t \in meta' /\ office[t] = a
    BY <1>1
  <2>1. bucket'[a] = IF a = office[s] THEN bucket[a] \ {s} ELSE bucket[a]
    BY <1>1, <1>2 DEF StreamsInv
  <2> QED BY <1>1, <2>1 DEF StreamsInv
<1>5. \A t \in Streams : t \in meta' \cup over' <=> office'[t] # Unopened
  BY <1>1 DEF StreamsInv
<1>6. listening' \subseteq meta' /\ meta' \cap over' = {}
  BY <1>1 DEF StreamsInv
<1> QED BY <1>1, <1>3, <1>4, <1>5, <1>6 DEF StreamsInv

LEMMA ShutdownInv ==
  ASSUME StreamsInv, Shutdown PROVE StreamsInv'
BY DEF Shutdown, StreamsInv

\* Every step keeps the maps of one mind.
THEOREM StreamsStep == StreamsInv /\ [StreamsNext]_streamsVars => StreamsInv'
<1> SUFFICES ASSUME StreamsInv, [StreamsNext]_streamsVars PROVE StreamsInv'
  OBVIOUS
<1>1. ASSUME NEW s \in Streams, NEW b \in Offices, OpenStream(s, b) PROVE StreamsInv'
  BY <1>1, OpenStreamInv
<1>2. ASSUME NEW s \in Streams, Subscribe(s) PROVE StreamsInv'
  BY <1>2 DEF Subscribe, StreamsInv
<1>3. ASSUME NEW s \in Streams, CloseStream(s) PROVE StreamsInv'
  BY <1>3, CloseStreamInv
<1>4. ASSUME NEW b \in Offices, PublishEvent(b) PROVE StreamsInv'
  BY <1>4, PublishEventInv
<1>5. CASE Shutdown
  BY <1>5, ShutdownInv
<1>6. CASE UNCHANGED streamsVars
  BY <1>6 DEF streamsVars, StreamsInv
<1> QED BY <1>1, <1>2, <1>3, <1>4, <1>5, <1>6 DEF StreamsNext

\* For any number of streams and businesses: a stream hears what is published
\* for its business while it listens, and the maps keep no stream that is over.
THEOREM StreamsHear == StreamsSpec => []HeardWhileConnected
<1>1. StreamsInit => StreamsInv
  BY DEF StreamsInit, StreamsInv
<1>2. StreamsInv => HeardWhileConnected
  BY StreamsAssumption DEF StreamsInv, HeardWhileConnected
<1> QED BY <1>1, <1>2, StreamsStep, PTL DEF StreamsSpec

-----------------------------------------------------------------------------
(* Ratings.  A transaction that got past the unique index is the only one  *)
(* of its customer, who has no rating yet; and a prompt under way has not  *)
(* forgotten what was true when it came up.                                *)
RatingSteps == {"insert", "count", "commit", "tell"}
RatingRow == [at : RatingSteps, by : Raters, score : Given]
Inside(x) == RatingAt(x, "count") \/ RatingAt(x, "commit")

RatingRowsOK ==
    /\ DOMAIN rating = Pens
    /\ \A x \in Pens : rating[x] # Nil =>
          /\ rating[x] \in RatingRow
          /\ Inside(x) => score[rating[x].by] = Nil
          /\ Inside(x) => \A y \in Pens \ {x} : Inside(y) => rating[y].by # rating[x].by
          /\ rating[x].at = "tell" => score[rating[x].by] # Nil

Stars(s) == {u \in Raters : score[u] = s}

CountersOK ==
    /\ score \in [Raters -> Given \cup {Nil}]
    /\ business.stars \in [Scores -> Nat] /\ business.reviews \in Nat
    /\ StarsAddUp

DaysOK ==
    /\ day \in Nat /\ dismissed \in [Raters -> SUBSET Nat]
    /\ \A u \in Raters : /\ \A d \in dismissed[u] : d <= day
                         /\ \/ dismissed[u] = {}
                            \/ \E m \in dismissed[u] : \A d \in dismissed[u] : d <= m

PromptRow ==
    [user : Raters, left : SUBSET Reads, served : BOOLEAN, rated : BOOLEAN, last : Nat \cup {NoDay},
     show : BOOLEAN, rests : BOOLEAN, done : BOOLEAN]

PromptOK ==
    prompt # Nil =>
        /\ prompt \in PromptRow
        /\ prompt.done = TRUE => score[prompt.user] # Nil /\ ("rated" \in prompt.left \/ prompt.rated = TRUE)
        /\ prompt.rests = TRUE =>
              /\ \E d \in dismissed[prompt.user] : day - d < Rest
              /\ "dismissed" \in prompt.left \/ (prompt.last # NoDay /\ day - prompt.last < Rest)
        /\ prompt.show = TRUE => prompt.rests = FALSE /\ prompt.done = FALSE

RatingsInv == RatingRowsOK /\ CountersOK /\ DaysOK /\ PromptOK

LEMMA RatingsInitInv == RatingsInit => RatingsInv
<1> SUFFICES ASSUME RatingsInit PROVE RatingsInv
  OBVIOUS
<1>1. RatingRowsOK
  BY DEF RatingsInit, RatingRowsOK
<1>2. DaysOK
  BY DEF RatingsInit, DaysOK
<1>3. PromptOK
  BY DEF RatingsInit, PromptOK
<1>4. CountersOK
  <2>1. score = [u \in Raters |-> Nil] /\ business = [reviews |-> 0, stars |-> [s \in Scores |-> 0], points |-> 0, over |-> 1]
        /\ announced = {}
    BY DEF RatingsInit
  <2>2. Rated = {} /\ \A s \in Scores : {u \in Raters : score[u] = s} = {}
    BY <2>1, RatingsAssumption DEF Rated
  <2>3. Cardinality({}) = 0
    BY FS_EmptySet
  <2>4. Points(business.stars) = 0
    BY <2>1 DEF Points, Scores
  <2>5. StarsAddUp
    BY <2>1, <2>2, <2>3, <2>4 DEF StarsAddUp
  <2>6. score \in [Raters -> Given \cup {Nil}] /\ business.stars \in [Scores -> Nat] /\ business.reviews \in Nat
    BY <2>1 DEF Scores
  <2> QED BY <2>5, <2>6 DEF CountersOK
<1> QED BY <1>1, <1>2, <1>3, <1>4 DEF RatingsInv

\* A request that goes on, or none.
LEMMA RatingGoesOK ==
  ASSUME RatingRowsOK, NEW x \in Pens, NEW step \in RatingSteps, rating[x] # Nil, RatingGoes(x, step)
  PROVE  /\ DOMAIN rating' = Pens /\ \A y \in Pens \ {x} : rating'[y] = rating[y]
         /\ rating'[x] \in RatingRow
         /\ rating'[x].at = step /\ rating'[x].by = rating[x].by /\ rating'[x].score = rating[x].score
<1>1. rating[x] \in RatingRow
  BY DEF RatingRowsOK
<1> DEFINE r == [at |-> step, by |-> rating[x].by, score |-> rating[x].score]
<1>2. r \in RatingRow /\ r.at = step /\ r.by = rating[x].by /\ r.score = rating[x].score
  BY <1>1 DEF RatingRow
<1>3. rating' = [rating EXCEPT ![x] = r]
  BY DEF RatingGoes
<1> HIDE DEF r
<1> QED BY <1>2, <1>3 DEF RatingRowsOK

\* Only the requests change, and none goes past the index.
LEMMA OutsideInv ==
  ASSUME RatingsInv, NEW x \in Pens,
         DOMAIN rating' = Pens, \A y \in Pens \ {x} : rating'[y] = rating[y],
         rating'[x] # Nil => rating'[x] \in RatingRow /\ rating'[x].at = "insert",
         UNCHANGED <<score, business, announced, day, dismissed, prompt>>
  PROVE  RatingsInv'
<1>1. RatingRowsOK'
  BY DEF RatingsInv, RatingRowsOK, RatingAt, Inside
<1>2. CountersOK' /\ DaysOK' /\ PromptOK'
  BY DEF RatingsInv, CountersOK, StarsAddUp, Rated, DaysOK, PromptOK
<1> QED BY <1>1, <1>2 DEF RatingsInv

LEMMA SendRatingInv ==
  ASSUME RatingsInv, NEW x \in Pens, NEW u \in Raters, NEW s \in Given, SendRating(x, u, s)
  PROVE  RatingsInv'
<1> DEFINE r == [at |-> "insert", by |-> u, score |-> s]
<1>1. /\ rating' = [rating EXCEPT ![x] = IF score[u] # Nil THEN Nil ELSE r]
      /\ UNCHANGED <<score, business, announced, day, dismissed, prompt>>
  BY DEF SendRating
<1>2. r \in RatingRow /\ r.at = "insert"
  BY DEF RatingRow, RatingSteps
<1> HIDE DEF r
<1>3. /\ DOMAIN rating' = Pens /\ \A y \in Pens \ {x} : rating'[y] = rating[y]
      /\ rating'[x] # Nil => rating'[x] \in RatingRow /\ rating'[x].at = "insert"
  BY <1>1, <1>2 DEF RatingsInv, RatingRowsOK
<1> QED BY <1>1, <1>3, OutsideInv

LEMMA RatingDoneInv ==
  ASSUME RatingsInv, NEW x \in Pens, RatingDone(x),
         UNCHANGED <<score, business, announced, day, dismissed, prompt>>
  PROVE  RatingsInv'
<1>1. DOMAIN rating' = Pens /\ rating'[x] = Nil /\ \A y \in Pens \ {x} : rating'[y] = rating[y]
  BY DEF RatingDone, RatingsInv, RatingRowsOK
<1> QED BY <1>1, OutsideInv

\* The index lets nobody past whose customer has a rating, or another inside.
LEMMA InsertRatingInv ==
  ASSUME RatingsInv, NEW x \in Pens, InsertRating(x) PROVE RatingsInv'
<1>1. /\ rating[x] # Nil /\ rating[x].at = "insert"
      /\ \A y \in Pens \ {x} : Inside(y) => rating[y].by # rating[x].by
      /\ UNCHANGED <<score, business, announced, day, dismissed, prompt>>
  BY DEF InsertRating, RatingAt, Inside
<1>2. CASE score[rating[x].by] # Nil
  BY <1>1, <1>2, RatingDoneInv DEF InsertRating
<1>3. CASE score[rating[x].by] = Nil
  <2>1. RatingGoes(x, "count")
    BY <1>3 DEF InsertRating
  <2>2. /\ DOMAIN rating' = Pens /\ \A y \in Pens \ {x} : rating'[y] = rating[y]
        /\ rating'[x] \in RatingRow
        /\ rating'[x].at = "count" /\ rating'[x].by = rating[x].by
    BY <1>1, <2>1, RatingGoesOK DEF RatingsInv, RatingSteps
  <2>3. \A y \in Pens \ {x} : Inside(y)' <=> Inside(y)
    BY <2>2 DEF Inside, RatingAt
  <2>4. RatingRowsOK'
    BY <1>1, <1>3, <2>2, <2>3 DEF RatingsInv, RatingRowsOK
  <2>5. CountersOK' /\ DaysOK' /\ PromptOK'
    BY <1>1 DEF RatingsInv, CountersOK, StarsAddUp, Rated, DaysOK, PromptOK
  <2> QED BY <2>4, <2>5 DEF RatingsInv
<1> QED BY <1>2, <1>3

LEMMA CountRatingInv ==
  ASSUME RatingsInv, NEW x \in Pens, CountRating(x) PROVE RatingsInv'
<1>1. /\ rating[x] # Nil /\ Inside(x) /\ RatingGoes(x, "commit")
      /\ UNCHANGED <<score, business, announced, day, dismissed, prompt>>
  BY DEF CountRating, RatingAt, Inside
<1>2. /\ DOMAIN rating' = Pens /\ \A y \in Pens \ {x} : rating'[y] = rating[y]
      /\ rating'[x] \in RatingRow
      /\ rating'[x].at = "commit" /\ rating'[x].by = rating[x].by
  BY <1>1, RatingGoesOK DEF RatingsInv, RatingSteps
<1>3. \A y \in Pens : Inside(y)' => Inside(y)
  BY <1>1, <1>2 DEF Inside, RatingAt
<1>4. RatingRowsOK'
  BY <1>1, <1>2, <1>3 DEF RatingsInv, RatingRowsOK
<1>5. CountersOK' /\ DaysOK' /\ PromptOK'
  BY <1>1 DEF RatingsInv, CountersOK, StarsAddUp, Rated, DaysOK, PromptOK
<1> QED BY <1>4, <1>5 DEF RatingsInv

\* One more star for one more customer.
LEMMA CommitRatingInv ==
  ASSUME RatingsInv, NEW x \in Pens, CommitRating(x) PROVE RatingsInv'
<1>21. /\ rating[x] # Nil /\ Inside(x) /\ rating[x] \in RatingRow
  BY DEF CommitRating, RatingAt, Inside, RatingsInv, RatingRowsOK
<1>3. PICK u \in Raters, g \in Given : u = rating[x].by /\ g = rating[x].score
  BY <1>21 DEF RatingRow
<1> DEFINE stars == [business.stars EXCEPT ![g] = business.stars[g] + 1]
<1>1. /\ rating[x] # Nil /\ Inside(x) /\ RatingGoes(x, "tell")
      /\ score' = [score EXCEPT ![u] = g] /\ business' = Counted(business, g)
      /\ UNCHANGED <<announced, day, dismissed, prompt>>
  BY <1>3, <1>21 DEF CommitRating
<1>2. /\ DOMAIN rating' = Pens /\ \A y \in Pens \ {x} : rating'[y] = rating[y]
      /\ rating'[x] \in RatingRow
      /\ rating'[x].at = "tell" /\ rating'[x].by = u
  BY <1>1, <1>3, RatingGoesOK DEF RatingsInv, RatingSteps
<1>4. g \in Scores /\ g # Nil
  BY <1>3, RatingsAssumption
<1>5. score[u] = Nil /\ \A y \in Pens \ {x} : Inside(y) => rating[y].by # u
  BY <1>1, <1>3 DEF RatingsInv, RatingRowsOK
<1>6. score \in [Raters -> Given \cup {Nil}]
  BY DEF RatingsInv, CountersOK
<1>7. /\ business'.reviews = business.reviews + 1 /\ business'.stars = stars
      /\ business'.points = Points(stars) /\ business'.over = business.reviews + 1
  BY <1>1 DEF Counted
<1>8. /\ business.stars \in [Scores -> Nat] /\ business.reviews \in Nat
      /\ business.reviews = Cardinality(Rated)
      /\ \A s \in Scores : business.stars[s] = Cardinality(Stars(s))
      /\ announced \subseteq Rated
  BY DEF RatingsInv, CountersOK, StarsAddUp, Stars
<1>9. /\ stars \in [Scores -> Nat] /\ stars[g] = business.stars[g] + 1
      /\ \A s \in Scores \ {g} : stars[s] = business.stars[s]
  BY <1>4, <1>8
<1> HIDE DEF stars
<1>10. /\ score' \in [Raters -> Given \cup {Nil}] /\ score'[u] = g
       /\ \A v \in Raters \ {u} : score'[v] = score[v]
  BY <1>1, <1>3, <1>6
<1>11. Rated' = Rated \cup {u} /\ u \notin Rated
  BY <1>3, <1>4, <1>5, <1>10 DEF Rated
<1>12. /\ Stars(g)' = Stars(g) \cup {u} /\ u \notin Stars(g)
       /\ \A s \in Scores \ {g} : Stars(s)' = Stars(s)
  BY <1>3, <1>4, <1>5, <1>10, RatingsAssumption DEF Stars
<1>13. IsFiniteSet(Rated) /\ IsFiniteSet(Stars(g))
  <2>1. Rated \subseteq Raters /\ Stars(g) \subseteq Raters
    BY DEF Rated, Stars
  <2> QED BY <2>1, RatingsAssumption, FS_Subset
<1>14. Cardinality(Rated') = business.reviews + 1
  BY <1>8, <1>11, <1>13, FS_AddElement
<1>15. \A s \in Scores : stars[s] = Cardinality(Stars(s)')
  <2>1. Cardinality(Stars(g)') = stars[g]
    BY <1>4, <1>8, <1>9, <1>12, <1>13, FS_AddElement
  <2>2. \A s \in Scores \ {g} : stars[s] = Cardinality(Stars(s)')
    BY <1>8, <1>9, <1>12
  <2> QED BY <2>1, <2>2
<1>16. CountersOK'
  <2>1. StarsAddUp'
    BY <1>1, <1>7, <1>8, <1>11, <1>14, <1>15 DEF StarsAddUp, Stars
  <2> QED BY <1>7, <1>8, <1>9, <1>10, <2>1 DEF CountersOK
<1>17. \A y \in Pens : Inside(y)' => y # x /\ Inside(y)
  BY <1>2 DEF Inside, RatingAt
<1>18. RatingRowsOK'
  <2> SUFFICES ASSUME NEW y \in Pens, rating'[y] # Nil
               PROVE  /\ rating'[y] \in RatingRow
                      /\ Inside(y)' => score'[rating'[y].by] = Nil
                      /\ Inside(y)' => \A z \in Pens \ {y} : Inside(z)' => rating'[z].by # rating'[y].by
                      /\ rating'[y].at = "tell" => score'[rating'[y].by] # Nil
    BY <1>2 DEF RatingRowsOK
  <2>1. CASE y = x
    BY <1>2, <1>4, <1>10, <1>17, <2>1
  <2>2. CASE y # x
    <3>1. rating'[y] = rating[y] /\ rating[y] \in RatingRow /\ rating[y].by \in Raters
      BY <1>2, <2>2 DEF RatingsInv, RatingRowsOK, RatingRow
    <3>2. Inside(y)' => score[rating[y].by] = Nil /\ rating[y].by # u
      BY <1>5, <1>17, <2>2, <3>1 DEF RatingsInv, RatingRowsOK
    <3>3. Inside(y)' => \A z \in Pens \ {y} : Inside(z)' => rating'[z].by # rating'[y].by
      BY <1>2, <1>17, <2>2, <3>1 DEF RatingsInv, RatingRowsOK
    <3>4. rating[y].at = "tell" => score[rating[y].by] # Nil
      BY <3>1 DEF RatingsInv, RatingRowsOK
    <3> QED BY <1>4, <1>10, <3>1, <3>2, <3>3, <3>4
  <2> QED BY <2>1, <2>2
<1>19. DaysOK'
  BY <1>1 DEF RatingsInv, DaysOK
<1>20. PromptOK'
  <2>1. prompt # Nil => prompt.user \in Raters
    BY DEF RatingsInv, PromptOK, PromptRow
  <2> QED BY <1>1, <1>4, <1>10, <2>1 DEF RatingsInv, PromptOK
<1> QED BY <1>16, <1>18, <1>19, <1>20 DEF RatingsInv

LEMMA TellOwnerInv ==
  ASSUME RatingsInv, NEW x \in Pens, TellOwner(x) PROVE RatingsInv'
<1>1. /\ rating[x] # Nil /\ rating[x].at = "tell" /\ RatingDone(x)
      /\ announced' \in {announced, announced \cup {rating[x].by}}
      /\ UNCHANGED <<score, business, day, dismissed, prompt>>
  BY DEF TellOwner, RatingAt
<1>2. rating[x].by \in Rated
  BY <1>1 DEF RatingsInv, RatingRowsOK, RatingRow, Rated
<1>3. DOMAIN rating' = Pens /\ rating'[x] = Nil /\ \A y \in Pens \ {x} : rating'[y] = rating[y]
  BY <1>1 DEF RatingDone, RatingsInv, RatingRowsOK
<1>4. RatingRowsOK'
  BY <1>1, <1>3 DEF RatingsInv, RatingRowsOK, RatingAt, Inside
<1>5. CountersOK'
  <2>1. Rated' = Rated
    BY <1>1 DEF Rated
  <2>2. announced' \subseteq Rated
    BY <1>1, <1>2 DEF RatingsInv, CountersOK, StarsAddUp
  <2> QED BY <1>1, <2>1, <2>2 DEF RatingsInv, CountersOK, StarsAddUp
<1>6. DaysOK' /\ PromptOK'
  BY <1>1 DEF RatingsInv, DaysOK, PromptOK
<1> QED BY <1>4, <1>5, <1>6 DEF RatingsInv

-----------------------------------------------------------------------------
(* The prompt.                                                             *)

\* Steps that leave the ratings alone.
LEMMA CountersKept ==
  ASSUME RatingsInv, UNCHANGED <<score, business, rating, announced>>
  PROVE  RatingRowsOK' /\ CountersOK'
BY DEF RatingsInv, RatingRowsOK, RatingAt, Inside, CountersOK, StarsAddUp, Rated

\* The last dismissal is none, or as late as any.
LEMMA LatestIsLast ==
  ASSUME DaysOK, NEW u \in Raters
  PROVE  /\ LatestDismissal(u) \in Nat \cup {NoDay}
         /\ dismissed[u] # {} => /\ LatestDismissal(u) \in dismissed[u] /\ LatestDismissal(u) \in Nat
                                 /\ \A d \in dismissed[u] : d <= LatestDismissal(u)
<1>1. CASE dismissed[u] = {}
  BY <1>1 DEF LatestDismissal
<1>2. CASE dismissed[u] # {}
  <2>1. dismissed[u] \subseteq Nat
    BY DEF DaysOK
  <2>2. \E m \in dismissed[u] : \A d \in dismissed[u] : m >= d
    BY <1>2, <2>1 DEF DaysOK
  <2>3. LatestDismissal(u) = CHOOSE m \in dismissed[u] : \A d \in dismissed[u] : m >= d
    BY <1>2 DEF LatestDismissal, Max
  <2>4. LatestDismissal(u) \in dismissed[u] /\ \A d \in dismissed[u] : LatestDismissal(u) >= d
    BY <2>2, <2>3
  <2> QED BY <1>2, <2>1, <2>4
<1> QED BY <1>1, <1>2

LEMMA AskForRatingInv ==
  ASSUME RatingsInv, NEW u \in Raters, AskForRating(u) PROVE RatingsInv'
<1>1. /\ prompt' = [user |-> u, left |-> Reads, served |-> FALSE, rated |-> FALSE, last |-> NoDay, show |-> FALSE,
                    rests |-> \E d \in dismissed[u] : day - d < Rest, done |-> score[u] # Nil]
      /\ UNCHANGED <<score, business, rating, announced, day, dismissed>>
  BY DEF AskForRating
<1>2. RatingRowsOK' /\ CountersOK'
  BY <1>1, CountersKept
<1>3. DaysOK'
  BY <1>1 DEF RatingsInv, DaysOK
<1>4. prompt' \in PromptRow
  BY <1>1 DEF PromptRow
<1>5. /\ prompt'.user = u /\ prompt'.left = Reads /\ prompt'.show = FALSE
      /\ prompt'.rests = TRUE => \E d \in dismissed[u] : day - d < Rest
      /\ prompt'.done = TRUE => score[u] # Nil
  BY <1>1
<1>6. PromptOK'
  BY <1>1, <1>4, <1>5 DEF PromptOK, Reads
<1> QED BY <1>2, <1>3, <1>6 DEF RatingsInv

\* A read notes what is still true: a rating stays, and no day passes.
LEMMA ReadPromptInv ==
  ASSUME RatingsInv, NEW r \in Reads, ReadPrompt(r) PROVE RatingsInv'
<1>1. /\ prompt # Nil /\ r \in prompt.left
      /\ prompt' = [prompt EXCEPT
            !.left = prompt.left \ {r},
            !.served = IF r = "served" THEN prompt.user \in served ELSE prompt.served,
            !.rated = IF r = "rated" THEN score[prompt.user] # Nil ELSE prompt.rated,
            !.last = IF r = "dismissed" THEN LatestDismissal(prompt.user) ELSE prompt.last]
      /\ UNCHANGED <<score, business, rating, announced, day, dismissed>>
  BY DEF ReadPrompt
<1>2. prompt \in PromptRow
  BY <1>1 DEF RatingsInv, PromptOK
<1>3. prompt.user \in Raters
  BY <1>2 DEF PromptRow
<1>4. LatestDismissal(prompt.user) \in Nat \cup {NoDay}
  BY <1>3, LatestIsLast DEF RatingsInv
<1>10. PICK served1 \in BOOLEAN, rated1 \in BOOLEAN, last1 \in Nat \cup {NoDay} :
         /\ prompt' = [prompt EXCEPT !.left = prompt.left \ {r}, !.served = served1,
                                     !.rated = rated1, !.last = last1]
         /\ rated1 = IF r = "rated" THEN score[prompt.user] # Nil ELSE prompt.rated
         /\ last1 = IF r = "dismissed" THEN LatestDismissal(prompt.user) ELSE prompt.last
  <2>1. (IF r = "served" THEN prompt.user \in served ELSE prompt.served) \in BOOLEAN
    <3>1. prompt.served \in BOOLEAN
      BY <1>2 DEF PromptRow
    <3>2. (prompt.user \in served) \in BOOLEAN
      OBVIOUS
    <3>3. CASE r = "served"
      BY <3>2, <3>3, Zenon
    <3>4. CASE r # "served"
      BY <3>1, <3>4, Zenon
    <3> QED BY <3>3, <3>4, Zenon
  <2>2. (IF r = "rated" THEN score[prompt.user] # Nil ELSE prompt.rated) \in BOOLEAN
    BY <1>2 DEF PromptRow
  <2>3. (IF r = "dismissed" THEN LatestDismissal(prompt.user) ELSE prompt.last) \in Nat \cup {NoDay}
    BY <1>2, <1>4 DEF PromptRow
  <2> QED BY <1>1, <2>1, <2>2, <2>3, Zenon
<1>5. /\ prompt' \in PromptRow /\ prompt'.user = prompt.user /\ prompt'.left = prompt.left \ {r}
      /\ prompt'.show = prompt.show /\ prompt'.rests = prompt.rests /\ prompt'.done = prompt.done
      /\ prompt'.last = IF r = "dismissed" THEN LatestDismissal(prompt.user) ELSE prompt.last
      /\ prompt'.rated = IF r = "rated" THEN score[prompt.user] # Nil ELSE prompt.rated
  BY <1>2, <1>10 DEF PromptRow
<1>6. RatingRowsOK' /\ CountersOK' /\ DaysOK'
  BY <1>1, CountersKept DEF RatingsInv, DaysOK
<1>7. prompt.done = TRUE => score[prompt.user] # Nil /\ ("rated" \in prompt'.left \/ prompt'.rated = TRUE)
  BY <1>1, <1>5 DEF RatingsInv, PromptOK
<1>8. prompt.rests = TRUE => "dismissed" \in prompt'.left \/ (prompt'.last # NoDay /\ day - prompt'.last < Rest)
  <2> SUFFICES ASSUME prompt.rests = TRUE
               PROVE  "dismissed" \in prompt'.left \/ (prompt'.last # NoDay /\ day - prompt'.last < Rest)
    OBVIOUS
  <2>1. CASE r = "dismissed"
    <3>1. PICK d \in dismissed[prompt.user] : day - d < Rest
      BY <1>1 DEF RatingsInv, PromptOK
    <3>2. d \in Nat /\ day \in Nat
      BY <1>3, <3>1 DEF RatingsInv, DaysOK
    <3>3. LatestDismissal(prompt.user) \in Nat /\ d <= LatestDismissal(prompt.user)
      BY <1>3, <3>1, LatestIsLast DEF RatingsInv
    <3> QED BY <1>5, <2>1, <3>1, <3>2, <3>3, RatingsAssumption DEF NoDay
  <2>2. CASE r # "dismissed"
    BY <1>1, <1>5, <2>2 DEF RatingsInv, PromptOK
  <2> QED BY <2>1, <2>2
<1>9. PromptOK'
  BY <1>1, <1>5, <1>7, <1>8 DEF RatingsInv, PromptOK
<1> QED BY <1>6, <1>9 DEF RatingsInv

\* Who rests, or has rated, is found out by the reads.
LEMMA AnswerPromptInv ==
  ASSUME RatingsInv, AnswerPrompt PROVE RatingsInv'
<1>1. /\ prompt # Nil /\ prompt.left = {}
      /\ prompt' = IF PromptDue THEN [prompt EXCEPT !.show = TRUE] ELSE Nil
      /\ UNCHANGED <<score, business, rating, announced, day, dismissed>>
  BY DEF AnswerPrompt
<1>2. RatingRowsOK' /\ CountersOK' /\ DaysOK'
  BY <1>1, CountersKept DEF RatingsInv, DaysOK
<1>3. CASE ~ PromptDue
  BY <1>1, <1>2, <1>3 DEF RatingsInv, PromptOK
<1>4. CASE PromptDue
  <2>1. prompt \in PromptRow
    BY <1>1 DEF RatingsInv, PromptOK
  <2>2. /\ prompt' \in PromptRow /\ prompt'.user = prompt.user /\ prompt'.left = {}
        /\ prompt'.last = prompt.last /\ prompt'.rated = prompt.rated
        /\ prompt'.rests = prompt.rests /\ prompt'.done = prompt.done
    BY <1>1, <1>4, <2>1 DEF PromptRow
  <2>3. ~ prompt.rated /\ (prompt.last # NoDay => day - prompt.last >= Rest)
    BY <1>4 DEF PromptDue
  <2>4. day \in Nat /\ (prompt.last # NoDay => prompt.last \in Nat)
    BY <2>1 DEF RatingsInv, DaysOK, PromptRow
  <2>5. prompt.rests = FALSE
    <3>1. prompt.rests \in BOOLEAN
      BY <2>1 DEF PromptRow
    <3>2. prompt.rests = TRUE => prompt.last # NoDay /\ day - prompt.last < Rest
      BY <1>1 DEF RatingsInv, PromptOK
    <3> QED BY <2>3, <2>4, <3>1, <3>2, RatingsAssumption
  <2>6. prompt.done = FALSE
    <3>1. prompt.done \in BOOLEAN
      BY <2>1 DEF PromptRow
    <3>2. prompt.done = TRUE => prompt.rated = TRUE
      BY <1>1 DEF RatingsInv, PromptOK
    <3> QED BY <2>3, <3>1, <3>2
  <2>7. PromptOK'
    BY <1>1, <2>2, <2>5, <2>6 DEF PromptOK
  <2> QED BY <1>2, <2>7 DEF RatingsInv
<1> QED BY <1>3, <1>4

LEMMA DismissPromptInv ==
  ASSUME RatingsInv, NEW u \in Raters, DismissPrompt(u) PROVE RatingsInv'
<1>1. /\ dismissed' = [dismissed EXCEPT ![u] = dismissed[u] \cup {day}]
      /\ UNCHANGED <<score, business, rating, announced, day, prompt>>
  BY DEF DismissPrompt
<1>2. RatingRowsOK' /\ CountersOK'
  BY <1>1, CountersKept
<1>3. day \in Nat /\ dismissed \in [Raters -> SUBSET Nat]
  BY DEF RatingsInv, DaysOK
<1>4. /\ dismissed' \in [Raters -> SUBSET Nat] /\ dismissed'[u] = dismissed[u] \cup {day}
      /\ \A v \in Raters \ {u} : dismissed'[v] = dismissed[v]
  BY <1>1, <1>3
<1>5. \A d \in dismissed[u] : d <= day
  BY DEF RatingsInv, DaysOK
<1>6. \A d \in dismissed'[u] : d <= day
  BY <1>3, <1>4, <1>5
<1>7. DaysOK'
  BY <1>1, <1>3, <1>4, <1>6 DEF RatingsInv, DaysOK
<1>8. PromptOK'
  <2>1. prompt # Nil => prompt.user \in Raters
    BY DEF RatingsInv, PromptOK, PromptRow
  <2>2. \A v \in Raters : dismissed[v] \subseteq dismissed'[v]
    BY <1>4
  <2> QED BY <1>1, <2>1, <2>2 DEF RatingsInv, PromptOK
<1> QED BY <1>2, <1>7, <1>8 DEF RatingsInv

\* The night falls only on a prompt that is up.
LEMMA RatingsNextDayInv ==
  ASSUME RatingsInv, RatingsNextDay PROVE RatingsInv'
<1>1. /\ day' = day + 1 /\ (prompt # Nil => prompt.show)
      /\ UNCHANGED <<score, business, rating, announced, dismissed, prompt>>
  BY DEF RatingsNextDay
<1>2. RatingRowsOK' /\ CountersOK'
  BY <1>1, CountersKept
<1>3. day \in Nat /\ \A u \in Raters : dismissed[u] \subseteq Nat
  BY DEF RatingsInv, DaysOK
<1>4. DaysOK'
  BY <1>1, <1>3 DEF RatingsInv, DaysOK
<1>5. prompt # Nil => prompt.rests = FALSE
  <2>1. prompt # Nil => prompt.show = TRUE
    BY <1>1 DEF RatingsInv, PromptOK, PromptRow
  <2> QED BY <2>1 DEF RatingsInv, PromptOK
<1>6. PromptOK'
  BY <1>1, <1>5 DEF RatingsInv, PromptOK
<1> QED BY <1>2, <1>4, <1>6 DEF RatingsInv

\* Every step keeps the counters and what the prompt knows.
THEOREM RatingsStep == RatingsInv /\ [RatingsNext]_ratingsVars => RatingsInv'
<1> SUFFICES ASSUME RatingsInv, [RatingsNext]_ratingsVars PROVE RatingsInv'
  OBVIOUS
<1>1. ASSUME NEW x \in Pens, NEW u \in Raters, NEW s \in Given, SendRating(x, u, s) PROVE RatingsInv'
  BY <1>1, SendRatingInv
<1>2. ASSUME NEW x \in Pens, InsertRating(x) PROVE RatingsInv'
  BY <1>2, InsertRatingInv
<1>3. ASSUME NEW x \in Pens, CountRating(x) PROVE RatingsInv'
  BY <1>3, CountRatingInv
<1>4. ASSUME NEW x \in Pens, CommitRating(x) PROVE RatingsInv'
  BY <1>4, CommitRatingInv
<1>5. ASSUME NEW x \in Pens, FailRating(x) PROVE RatingsInv'
  BY <1>5, RatingDoneInv DEF FailRating
<1>6. ASSUME NEW x \in Pens, TellOwner(x) PROVE RatingsInv'
  BY <1>6, TellOwnerInv
<1>7. ASSUME NEW u \in Raters, AskForRating(u) PROVE RatingsInv'
  BY <1>7, AskForRatingInv
<1>8. ASSUME NEW u \in Raters, DismissPrompt(u) PROVE RatingsInv'
  BY <1>8, DismissPromptInv
<1>9. ASSUME NEW u \in Raters, ServeCustomer(u) PROVE RatingsInv'
  <2>1. UNCHANGED <<score, business, rating, announced, day, dismissed, prompt>>
    BY <1>9 DEF ServeCustomer
  <2> QED BY <2>1, CountersKept DEF RatingsInv, DaysOK, PromptOK
<1>10. ASSUME NEW r \in Reads, ReadPrompt(r) PROVE RatingsInv'
  BY <1>10, ReadPromptInv
<1>11. CASE AnswerPrompt
  BY <1>11, AnswerPromptInv
<1>12. CASE ClosePrompt
  <2>1. prompt' = Nil /\ UNCHANGED <<score, business, rating, announced, day, dismissed>>
    BY <1>12 DEF ClosePrompt
  <2> QED BY <2>1, CountersKept DEF RatingsInv, DaysOK, PromptOK
<1>13. CASE RatingsNextDay
  BY <1>13, RatingsNextDayInv
<1>14. CASE UNCHANGED ratingsVars
  <2>1. UNCHANGED <<score, business, rating, announced, day, dismissed, prompt>>
    BY <1>14 DEF ratingsVars
  <2> QED BY <2>1, CountersKept DEF RatingsInv, DaysOK, PromptOK
<1> QED BY <1>1, <1>2, <1>3, <1>4, <1>5, <1>6, <1>7, <1>8, <1>9, <1>10, <1>11, <1>12, <1>13, <1>14
        DEF RatingsNext

\* For any number of customers and requests: the counters and the average are
\* those of the ratings that are there, and no prompt is shown to who had rated
\* or was resting when it came up.
THEOREM RatingsStayTrue == RatingsSpec => []RatingsHold
<1>1. RatingsInv => RatingsHold
  <2>1. RatingsInv => NotAskedAgain
    <3> SUFFICES ASSUME RatingsInv, prompt # Nil, prompt.show PROVE ~ prompt.rests /\ ~ prompt.done
      BY DEF NotAskedAgain
    <3>1. prompt.show = TRUE
      BY DEF RatingsInv, PromptOK, PromptRow
    <3> QED BY <3>1 DEF RatingsInv, PromptOK
  <2> QED BY <2>1 DEF RatingsInv, CountersOK, RatingsHold
<1> QED BY <1>1, RatingsInitInv, RatingsStep, PTL DEF RatingsSpec
-----------------------------------------------------------------------------
(* Customers.  No two persons have one e-mail and no two accounts one      *)
(* person; the person of an account has its e-mail unless the account is   *)
(* noted as strayed; and whatever is linked, being linked or booked for is *)
(* a person that exists.                                                   *)
OneMail ==
    \A p, q \in People :
        person[p] # Absent /\ person[q] # Absent /\ person[p].mail # Absent /\ person[p].mail = person[q].mail
            => p = q

AccountsMatch ==
    \A u \in Customers : account[u] # Absent =>
        /\ person[account[u].person] # Absent
        /\ u \notin strayed => person[account[u].person].mail = account[u].mail

OwnPersons ==
    \A u, v \in Customers :
        account[u] # Absent /\ account[v] # Absent /\ account[u].person = account[v].person => u = v

PersonsExist ==
    /\ \A s \in Shops, p \in People : link[<<s, p>>] # Absent => person[p] # Absent
    /\ \A c \in Clerks : clerk[c] # Absent /\ clerk[c].at = "link" => person[clerk[c].person] # Absent
    /\ \A c \in Clerks : clerk[c] # Absent /\ clerk[c].at = "edit" => account[clerk[c].user] # Absent
    /\ \A k \in Checks : check[k] # Absent => person[check[k].person] # Absent

PeopleInv ==
    PeopleTypeOK /\ OneMail /\ AccountsMatch /\ OwnPersons /\ PersonsExist /\ BookedIsLinked

LEMMA PeopleInitInv == PeopleInit => PeopleInv
<1> SUFFICES ASSUME PeopleInit PROVE PeopleInv
  OBVIOUS
<1>1. PeopleTypeOK
  BY DEF PeopleInit, PeopleTypeOK
<1>2. OneMail /\ AccountsMatch /\ OwnPersons /\ BookedIsLinked
  BY DEF PeopleInit, OneMail, AccountsMatch, OwnPersons, BookedIsLinked
<1>3. PersonsExist
  <2>1. \A s \in Shops, p \in People : link[<<s, p>>] = Absent
    BY DEF PeopleInit
  <2> QED BY <2>1 DEF PeopleInit, PersonsExist
<1> QED BY <1>1, <1>2, <1>3 DEF PeopleInv

\* What an edit leaves is a row, with the e-mail sent if one was.
LEMMA EditedRows ==
  ASSUME NEW r \in PersonRow, NEW m \in Mails \cup {Absent}, NEW t \in Phones
  PROVE  /\ Edited(r, m, t) \in PersonRow
         /\ Edited(r, m, t).mail = (IF m = Absent THEN r.mail ELSE m)
         /\ Erased(Edited(r, m, t)) \in PersonRow
         /\ Erased(Edited(r, m, t)).mail = (IF m = Absent THEN r.mail ELSE m)
<1>1. Absent \in Phones
  BY DEF Phones
<1> QED BY <1>1 DEF Edited, Erased, PersonRow

LEMMA FormsKept ==
  ASSUME NEW t \in Phones PROVE normalizePhoneBR(t) \in Phones /\ toE164(t) \in Phones
<1>1. CASE t = Absent
  BY <1>1 DEF normalizePhoneBR, toE164
<1>2. CASE t # Absent
  <2>1. t \in [number : Numbers, form : Forms]
    BY <1>2 DEF Phones
  <2>2. [t EXCEPT !.form = "plain"] \in [number : Numbers, form : Forms]
    BY <2>1 DEF Forms
  <2>3. [t EXCEPT !.form = "+55"] \in [number : Numbers, form : Forms]
    BY <2>1 DEF Forms
  <2> QED BY <1>2, <2>2, <2>3 DEF normalizePhoneBR, toE164, Phones
<1> QED BY <1>1, <1>2

\* A row that passes the unique indexes is written: e-mails stay unique and
\* nobody who existed is lost.
LEMMA PersonWritten ==
  ASSUME PeopleTypeOK, OneMail, NEW p \in People, NEW r \in PersonRow, WithMail(r.mail) \subseteq {p},
         person' = [person EXCEPT ![p] = r]
  PROVE  /\ person' \in [People -> {Absent} \cup PersonRow]
         /\ OneMail'
         /\ person'[p] = r /\ r # Absent
         /\ \A q \in People : q # p => person'[q] = person[q]
         /\ \A q \in People : person[q] # Absent => person'[q] # Absent
<1>1. person \in [People -> {Absent} \cup PersonRow]
  BY DEF PeopleTypeOK
<1>2. r # Absent
  BY PeopleAssumption
<1>3. /\ person' \in [People -> {Absent} \cup PersonRow]
      /\ person'[p] = r
      /\ \A q \in People : q # p => person'[q] = person[q]
  BY <1>1
<1>4. \A q \in People : person[q] # Absent => person'[q] # Absent
  BY <1>2, <1>3
<1>5. \A q \in People : person[q] # Absent /\ r.mail # Absent /\ person[q].mail = r.mail => q = p
  BY DEF WithMail, Known
<1>6. OneMail'
  BY <1>3, <1>5 DEF OneMail
<1> QED BY <1>2, <1>3, <1>4, <1>6

\* A request moves on and writes nothing.
LEMMA ClerkMoves ==
  ASSUME PeopleInv, NEW c \in Clerks, NEW r \in {Absent} \cup ClerkRow, clerk' = [clerk EXCEPT ![c] = r],
         r # Absent /\ r.at = "link" => person[r.person] # Absent,
         r # Absent /\ r.at = "edit" => account[r.user] # Absent,
         UNCHANGED <<person, link, account, check, strayed>>
  PROVE  PeopleInv'
<1>1. PeopleTypeOK'
  BY DEF PeopleInv, PeopleTypeOK
<1>2. OneMail' /\ AccountsMatch' /\ OwnPersons' /\ BookedIsLinked'
  BY DEF PeopleInv, OneMail, AccountsMatch, OwnPersons, BookedIsLinked
<1>3. \A d \in Clerks : clerk'[d] = IF d = c THEN r ELSE clerk[d]
  BY DEF PeopleInv, PeopleTypeOK
<1>4. PersonsExist'
  BY <1>3 DEF PeopleInv, PersonsExist
<1> QED BY <1>1, <1>2, <1>4 DEF PeopleInv

\* A request ends, having written a person or an account or not: what it
\* wrote is judged apart.
LEMMA ClerkLeaves ==
  ASSUME PeopleInv, NEW c \in Clerks, Leaves(c),
         \A p \in People : person[p] # Absent => person'[p] # Absent,
         \A u \in Customers : account[u] # Absent => account'[u] # Absent,
         UNCHANGED <<link, check>>
  PROVE  /\ clerk' \in [Clerks -> {Absent} \cup ClerkRow]
         /\ PersonsExist' /\ BookedIsLinked'
<1>1. clerk \in [Clerks -> {Absent} \cup ClerkRow]
  BY DEF PeopleInv, PeopleTypeOK
<1>2. /\ clerk' \in [Clerks -> {Absent} \cup ClerkRow]
      /\ \A d \in Clerks : clerk'[d] # Absent => clerk'[d] = clerk[d]
  BY <1>1 DEF Leaves
<1>3. \A d \in Clerks : clerk[d] # Absent /\ clerk[d].at = "link" => clerk[d].person \in People
  BY <1>1 DEF ClerkRow
<1>4. \A d \in Clerks : clerk[d] # Absent /\ clerk[d].at = "edit" => clerk[d].user \in Customers
  BY <1>1 DEF ClerkRow
<1>5. \A k \in Checks : check[k] # Absent => check[k].person \in People
  BY DEF PeopleInv, PeopleTypeOK, CheckRow
<1>6. PersonsExist'
  <2>1. \A s \in Shops, p \in People : link'[<<s, p>>] # Absent => person'[p] # Absent
    BY DEF PeopleInv, PersonsExist
  <2>2. \A d \in Clerks : clerk'[d] # Absent /\ clerk'[d].at = "link" => person'[clerk'[d].person] # Absent
    BY <1>2, <1>3 DEF PeopleInv, PersonsExist
  <2>3. \A d \in Clerks : clerk'[d] # Absent /\ clerk'[d].at = "edit" => account'[clerk'[d].user] # Absent
    BY <1>2, <1>4 DEF PeopleInv, PersonsExist
  <2>4. \A k \in Checks : check'[k] # Absent => person'[check'[k].person] # Absent
    BY <1>5 DEF PeopleInv, PersonsExist
  <2> QED BY <2>1, <2>2, <2>3, <2>4 DEF PersonsExist
<1>7. BookedIsLinked'
  BY DEF PeopleInv, BookedIsLinked
<1> QED BY <1>2, <1>6, <1>7

LEMMA RegisterInv ==
  ASSUME PeopleInv, NEW c \in Clerks, NEW s \in Shops, NEW m \in Mails \cup {Absent}, NEW t \in Phones,
         Register(c, s, m, t)
  PROVE  PeopleInv'
<1>1. UNCHANGED <<person, link, account, check, strayed>>
  BY DEF Register
<1>2. CASE WithMail(m) = {}
  <2> DEFINE r == [at |-> "by phone", shop |-> s, mail |-> m, phone |-> normalizePhoneBR(t)]
  <2>1. clerk' = [clerk EXCEPT ![c] = r]
    BY <1>2 DEF Register, Enters
  <2>2. r \in ClerkRow
    BY FormsKept DEF ClerkRow
  <2>3. r.at # "link" /\ r.at # "edit"
    OBVIOUS
  <2> HIDE DEF r
  <2> QED BY <1>1, <2>1, <2>2, <2>3, ClerkMoves
<1>3. CASE WithMail(m) # {}
  <2>1. PICK p \in WithMail(m) : clerk' = [clerk EXCEPT ![c] = [at |-> "link", shop |-> s, person |-> p]]
    BY <1>3 DEF Register, Enters
  <2>2. p \in People /\ person[p] # Absent
    BY DEF WithMail, Known
  <2> DEFINE r == [at |-> "link", shop |-> s, person |-> p]
  <2>3. r \in ClerkRow /\ r.at = "link" /\ r.person = p
    BY <2>2 DEF ClerkRow
  <2>4. clerk' = [clerk EXCEPT ![c] = r]
    BY <2>1
  <2> HIDE DEF r
  <2> QED BY <1>1, <2>2, <2>3, <2>4, ClerkMoves
<1> QED BY <1>2, <1>3

LEMMA FindByPhoneInv ==
  ASSUME PeopleInv, NEW c \in Clerks, FindByPhone(c) PROVE PeopleInv'
<1>1. /\ clerk[c] # Absent /\ clerk[c].at = "by phone"
      /\ UNCHANGED <<person, link, account, check, strayed>>
  BY DEF FindByPhone, ClerkAt
<1>2. clerk[c] \in [at : {"by phone", "create person"}, shop : Shops, mail : Mails \cup {Absent}, phone : Phones]
  BY <1>1 DEF PeopleInv, PeopleTypeOK, ClerkRow
<1>3. CASE WithPhone(clerk[c].phone) = {}
  <2> DEFINE r == [clerk[c] EXCEPT !.at = "create person"]
  <2>1. clerk' = [clerk EXCEPT ![c] = r]
    BY <1>3 DEF FindByPhone
  <2>2. r \in ClerkRow /\ r.at = "create person"
    BY <1>2 DEF ClerkRow
  <2> HIDE DEF r
  <2> QED BY <1>1, <2>1, <2>2, ClerkMoves
<1>4. CASE WithPhone(clerk[c].phone) # {}
  <2>1. PICK p \in WithPhone(clerk[c].phone) :
           clerk' = [clerk EXCEPT ![c] = [at |-> "link", shop |-> clerk[c].shop, person |-> p]]
    BY <1>4 DEF FindByPhone
  <2>2. p \in People /\ person[p] # Absent
    BY DEF WithPhone, Known
  <2> DEFINE r == [at |-> "link", shop |-> clerk[c].shop, person |-> p]
  <2>3. r \in ClerkRow /\ r.at = "link" /\ r.person = p
    BY <1>2, <2>2 DEF ClerkRow
  <2>4. clerk' = [clerk EXCEPT ![c] = r]
    BY <2>1
  <2> HIDE DEF r
  <2> QED BY <1>1, <2>2, <2>3, <2>4, ClerkMoves
<1> QED BY <1>3, <1>4

LEMMA CreatePersonInv ==
  ASSUME PeopleInv, NEW c \in Clerks, NEW p \in People, CreatePerson(c, p) PROVE PeopleInv'
<1> DEFINE r == [mail |-> clerk[c].mail, phone |-> clerk[c].phone]
<1>1. /\ clerk[c] # Absent /\ clerk[c].at = "create person" /\ person[p] = Absent
      /\ UNCHANGED <<link, account, check, strayed>>
  BY DEF CreatePerson, ClerkAt
<1>2. clerk[c] \in [at : {"by phone", "create person"}, shop : Shops, mail : Mails \cup {Absent}, phone : Phones]
  BY <1>1 DEF PeopleInv, PeopleTypeOK, ClerkRow
<1>3. r \in PersonRow
  BY <1>2 DEF PersonRow
<1>4. CASE Unique(p, r)
  <2>1. person' = [person EXCEPT ![p] = r]
        /\ clerk' = [clerk EXCEPT ![c] = [at |-> "link", shop |-> clerk[c].shop, person |-> p]]
    BY <1>4 DEF CreatePerson
  <2>2. WithMail(r.mail) \subseteq {p}
    BY <1>4 DEF Unique
  <2> HIDE DEF r
  <2>3. /\ person' \in [People -> {Absent} \cup PersonRow]
        /\ OneMail' /\ person'[p] # Absent
        /\ \A q \in People : q # p => person'[q] = person[q]
        /\ \A q \in People : person[q] # Absent => person'[q] # Absent
    BY <1>3, <2>1, <2>2, PersonWritten DEF PeopleInv
  <2> DEFINE w == [at |-> "link", shop |-> clerk[c].shop, person |-> p]
  <2>4. w \in ClerkRow /\ w.at = "link" /\ w.person = p
    BY <1>2 DEF ClerkRow
  <2>5. clerk' = [clerk EXCEPT ![c] = w]
    BY <2>1
  <2> HIDE DEF w
  <2>6. clerk' \in [Clerks -> {Absent} \cup ClerkRow] /\ \A d \in Clerks : clerk'[d] = IF d = c THEN w ELSE clerk[d]
    BY <2>4, <2>5 DEF PeopleInv, PeopleTypeOK
  <2>7. PeopleTypeOK'
    BY <1>1, <2>3, <2>6 DEF PeopleInv, PeopleTypeOK
  <2>8. AccountsMatch'
    <3>1. \A u \in Customers : account[u] # Absent => account[u].person \in People /\ account[u].person # p
      BY <1>1 DEF PeopleInv, PeopleTypeOK, AccountRow, AccountsMatch
    <3> QED BY <1>1, <2>3, <3>1 DEF PeopleInv, AccountsMatch
  <2>9. OwnPersons' /\ BookedIsLinked'
    BY <1>1 DEF PeopleInv, OwnPersons, BookedIsLinked
  <2>10. PersonsExist'
    <3>1. \A s \in Shops, q \in People : link'[<<s, q>>] # Absent => person'[q] # Absent
      BY <1>1, <2>3 DEF PeopleInv, PersonsExist
    <3>2. \A d \in Clerks : clerk'[d] # Absent /\ clerk'[d].at = "link" => person'[clerk'[d].person] # Absent
      <4>1. \A d \in Clerks : clerk[d] # Absent /\ clerk[d].at = "link" => clerk[d].person \in People
        BY DEF PeopleInv, PeopleTypeOK, ClerkRow
      <4> QED BY <2>3, <2>4, <2>6, <4>1 DEF PeopleInv, PersonsExist
    <3>3. \A d \in Clerks : clerk'[d] # Absent /\ clerk'[d].at = "edit" => account'[clerk'[d].user] # Absent
      BY <1>1, <2>4, <2>6 DEF PeopleInv, PersonsExist
    <3>4. \A k \in Checks : check'[k] # Absent => person'[check'[k].person] # Absent
      <4>1. \A k \in Checks : check[k] # Absent => check[k].person \in People
        BY DEF PeopleInv, PeopleTypeOK, CheckRow
      <4> QED BY <1>1, <2>3, <4>1 DEF PeopleInv, PersonsExist
    <3> QED BY <3>1, <3>2, <3>3, <3>4 DEF PersonsExist
  <2> QED BY <2>3, <2>7, <2>8, <2>9, <2>10 DEF PeopleInv
<1>5. CASE ~ Unique(p, r)
  <2>1. clerk' = [clerk EXCEPT ![c] = Absent] /\ UNCHANGED person
    BY <1>5 DEF CreatePerson, Leaves
  <2> QED BY <1>1, <2>1, ClerkMoves
<1> QED BY <1>4, <1>5

\* A link is made to a person that exists, and none is ever taken away.
LEMMA LinkMade ==
  ASSUME PeopleInv, NEW s \in Shops, NEW p \in People, NEW v \in BOOLEAN, person[p] # Absent,
         link' = IF link[<<s, p>>] = Absent THEN [link EXCEPT ![<<s, p>>] = [verified |-> v]] ELSE link
  PROVE  /\ link' \in [Shops \X People -> {Absent} \cup LinkRow]
         /\ link'[<<s, p>>] # Absent
         /\ \A a \in Shops, q \in People : link[<<a, q>>] # Absent => link'[<<a, q>>] # Absent
         /\ \A a \in Shops, q \in People : link'[<<a, q>>] # Absent => person[q] # Absent
<1>1. link \in [Shops \X People -> {Absent} \cup LinkRow] /\ <<s, p>> \in Shops \X People
  BY DEF PeopleInv, PeopleTypeOK
<1> DEFINE w == [verified |-> v]
<1>2. w \in LinkRow /\ w # Absent
  BY PeopleAssumption DEF LinkRow
<1>3. link' = IF link[<<s, p>>] = Absent THEN [link EXCEPT ![<<s, p>>] = w] ELSE link
  OBVIOUS
<1> HIDE DEF w
<1>4. /\ link' \in [Shops \X People -> {Absent} \cup LinkRow]
      /\ link'[<<s, p>>] # Absent
      /\ \A l \in Shops \X People : l # <<s, p>> => link'[l] = link[l]
  BY <1>1, <1>2, <1>3
<1>5. \A a \in Shops, q \in People : <<a, q>> \in Shops \X People /\ (<<a, q>> = <<s, p>> => a = s /\ q = p)
  OBVIOUS
<1>6. \A a \in Shops, q \in People : link[<<a, q>>] # Absent => link'[<<a, q>>] # Absent
  BY <1>4, <1>5
<1>7. \A a \in Shops, q \in People : link'[<<a, q>>] # Absent => person[q] # Absent
  BY <1>4, <1>5 DEF PeopleInv, PersonsExist
<1> QED BY <1>4, <1>6, <1>7

LEMMA LinkPersonInv ==
  ASSUME PeopleInv, NEW c \in Clerks, LinkPerson(c) PROVE PeopleInv'
<1>1. /\ clerk[c] # Absent /\ clerk[c].at = "link" /\ clerk' = [clerk EXCEPT ![c] = Absent]
      /\ link' = IF link[<<clerk[c].shop, clerk[c].person>>] = Absent
                 THEN [link EXCEPT ![<<clerk[c].shop, clerk[c].person>>] = [verified |-> FALSE]] ELSE link
      /\ UNCHANGED <<person, account, check, strayed>>
  BY DEF LinkPerson, ClerkAt, Leaves
<1>2. clerk[c].shop \in Shops /\ clerk[c].person \in People
  BY <1>1 DEF PeopleInv, PeopleTypeOK, ClerkRow
<1>3. person[clerk[c].person] # Absent
  BY <1>1 DEF PeopleInv, PersonsExist
<1>4. FALSE \in BOOLEAN
  OBVIOUS
<1>5. /\ link' \in [Shops \X People -> {Absent} \cup LinkRow]
      /\ \A a \in Shops, q \in People : link[<<a, q>>] # Absent => link'[<<a, q>>] # Absent
      /\ \A a \in Shops, q \in People : link'[<<a, q>>] # Absent => person[q] # Absent
  BY <1>1, <1>2, <1>3, <1>4, LinkMade
<1>6. clerk' \in [Clerks -> {Absent} \cup ClerkRow] /\ \A d \in Clerks : clerk'[d] # Absent => clerk'[d] = clerk[d]
  BY <1>1 DEF PeopleInv, PeopleTypeOK
<1>7. PeopleTypeOK' /\ OneMail' /\ AccountsMatch' /\ OwnPersons'
  BY <1>1, <1>5, <1>6 DEF PeopleInv, PeopleTypeOK, OneMail, AccountsMatch, OwnPersons
<1>8. PersonsExist'
  BY <1>1, <1>5, <1>6 DEF PeopleInv, PersonsExist
<1>9. BookedIsLinked'
  <2>1. \A k \in Checks : check[k] # Absent => check[k].shop \in Shops /\ check[k].person \in People
    BY DEF PeopleInv, PeopleTypeOK, CheckRow
  <2> QED BY <1>1, <1>5, <2>1 DEF PeopleInv, BookedIsLinked
<1> QED BY <1>7, <1>8, <1>9 DEF PeopleInv

\* Whoever had the account of the person whose e-mail is changed is noted.
LEMMA UpdateCustomerInv ==
  ASSUME PeopleInv, NEW s \in Shops, NEW p \in People, NEW m \in Mails \cup {Absent}, NEW t \in Phones,
         UpdateCustomer(s, p, m, t)
  PROVE  PeopleInv'
<1>1. /\ link[<<s, p>>] # Absent
      /\ strayed' = strayed \cup {u \in OfPerson(p) : m # Absent /\ m # account[u].mail}
      /\ UNCHANGED <<link, account, clerk, check>>
  BY DEF UpdateCustomer
<1>2. person[p] # Absent /\ person[p] \in PersonRow
  BY <1>1 DEF PeopleInv, PeopleTypeOK, PersonsExist
<1>3. PICK r \in {Edited(person[p], m, toE164(t)), Erased(Edited(person[p], m, Absent))} :
         Unique(p, r) /\ person' = [person EXCEPT ![p] = r]
  BY DEF UpdateCustomer
<1>4. r \in PersonRow /\ r.mail = (IF m = Absent THEN person[p].mail ELSE m)
  <2>1. toE164(t) \in Phones /\ Absent \in Phones
    BY FormsKept DEF Phones
  <2>2. /\ Edited(person[p], m, toE164(t)) \in PersonRow
        /\ Edited(person[p], m, toE164(t)).mail = (IF m = Absent THEN person[p].mail ELSE m)
    BY <1>2, <2>1, EditedRows
  <2>3. /\ Erased(Edited(person[p], m, Absent)) \in PersonRow
        /\ Erased(Edited(person[p], m, Absent)).mail = (IF m = Absent THEN person[p].mail ELSE m)
    BY <1>2, <2>1, EditedRows
  <2>4. r = Edited(person[p], m, toE164(t)) \/ r = Erased(Edited(person[p], m, Absent))
    BY <1>3
  <2> QED BY <2>2, <2>3, <2>4
<1>5. WithMail(r.mail) \subseteq {p}
  BY <1>3 DEF Unique
<1>6. /\ person' \in [People -> {Absent} \cup PersonRow]
      /\ OneMail' /\ person'[p] = r
      /\ \A q \in People : q # p => person'[q] = person[q]
      /\ \A q \in People : person[q] # Absent => person'[q] # Absent
  BY <1>3, <1>4, <1>5, PersonWritten DEF PeopleInv
<1>7. PeopleTypeOK'
  BY <1>1, <1>6 DEF PeopleInv, PeopleTypeOK, OfPerson
<1>8. AccountsMatch'
  <2> SUFFICES ASSUME NEW u \in Customers, account[u] # Absent
               PROVE  /\ person'[account[u].person] # Absent
                      /\ u \notin strayed' => person'[account[u].person].mail = account[u].mail
    BY <1>1 DEF AccountsMatch
  <2>1. account[u].person \in People /\ account[u].mail \in Mails
    BY DEF PeopleInv, PeopleTypeOK, AccountRow
  <2>2. person[account[u].person] # Absent
    BY DEF PeopleInv, AccountsMatch
  <2>3. u \notin strayed => person[account[u].person].mail = account[u].mail
    BY DEF PeopleInv, AccountsMatch
  <2>4. ASSUME u \notin strayed' PROVE person'[account[u].person].mail = account[u].mail
    <3>1. u \notin strayed
      BY <1>1, <2>4
    <3>2. CASE account[u].person = p
      <4>1. m = Absent \/ m = account[u].mail
        BY <1>1, <2>4, <3>2 DEF OfPerson
      <4> QED BY <1>4, <1>6, <2>3, <3>1, <3>2, <4>1
    <3>3. CASE account[u].person # p
      BY <1>6, <2>1, <2>3, <3>1, <3>3
    <3> QED BY <3>2, <3>3
  <2> QED BY <1>6, <2>1, <2>2, <2>4
<1>9. OwnPersons' /\ BookedIsLinked'
  BY <1>1 DEF PeopleInv, OwnPersons, BookedIsLinked
<1>10. PersonsExist'
  <2>1. \A d \in Clerks : clerk[d] # Absent /\ clerk[d].at = "link" => clerk[d].person \in People
    BY DEF PeopleInv, PeopleTypeOK, ClerkRow
  <2>2. \A k \in Checks : check[k] # Absent => check[k].person \in People
    BY DEF PeopleInv, PeopleTypeOK, CheckRow
  <2> QED BY <1>1, <1>6, <2>1, <2>2 DEF PeopleInv, PersonsExist
<1> QED BY <1>6, <1>7, <1>8, <1>9, <1>10 DEF PeopleInv

LEMMA CheckNewMailInv ==
  ASSUME PeopleInv, NEW c \in Clerks, NEW u \in Customers, NEW m \in Mails, NEW t \in Phones,
         CheckNewMail(c, u, m, t)
  PROVE  PeopleInv'
<1> DEFINE r == [at |-> "open", user |-> u, mail |-> m, phone |-> t]
<1>1. clerk' = [clerk EXCEPT ![c] = r] /\ UNCHANGED <<person, link, account, check, strayed>>
  BY DEF CheckNewMail, Enters
<1>2. r \in ClerkRow /\ r.at = "open"
  BY DEF ClerkRow
<1> HIDE DEF r
<1> QED BY <1>1, <1>2, ClerkMoves

LEMMA CheckEditInv ==
  ASSUME PeopleInv, NEW c \in Clerks, NEW u \in Customers, NEW m \in Mails \cup {Absent}, NEW t \in Phones,
         CheckEdit(c, u, m, t)
  PROVE  PeopleInv'
<1> DEFINE r == [at |-> "edit", user |-> u, mail |-> m, phone |-> t]
<1>1. clerk' = [clerk EXCEPT ![c] = r] /\ UNCHANGED <<person, link, account, check, strayed>>
      /\ account[u] # Absent
  BY DEF CheckEdit, Enters
<1>2. r \in ClerkRow /\ r.at = "edit" /\ r.user = u
  BY DEF ClerkRow
<1> HIDE DEF r
<1> QED BY <1>1, <1>2, ClerkMoves

\* A new account takes a person nobody has, found or made.
LEMMA OpenAccountInv ==
  ASSUME PeopleInv, NEW c \in Clerks, NEW new \in People, OpenAccount(c, new) PROVE PeopleInv'
<1> DEFINE r == clerk[c]
           found == Match(r.mail, r.phone)
<1>1. /\ r # Absent /\ r.at = "open" /\ person[new] = Absent
      /\ Leaves(c) /\ UNCHANGED <<link, check>>
  BY DEF OpenAccount, ClerkAt
<1>2. r.user \in Customers /\ r.mail \in Mails /\ r.phone \in Phones
  BY <1>1 DEF PeopleInv, PeopleTypeOK, ClerkRow
<1>3. PICK p \in (IF found = {} THEN {new} ELSE found) :
         IF OfPerson(p) = {} /\ OfMail(r.mail) = {} /\ account[r.user] = Absent
         THEN /\ account' = [account EXCEPT ![r.user] = [mail |-> r.mail, person |-> p]]
              /\ person' = IF p = new THEN [person EXCEPT ![p] = [mail |-> r.mail, phone |-> r.phone]]
                           ELSE person
              /\ strayed' = IF p # new /\ person[p].mail # r.mail THEN strayed \cup {r.user} ELSE strayed
         ELSE UNCHANGED <<account, person, strayed>>
  BY DEF OpenAccount
<1>4. CASE ~ (OfPerson(p) = {} /\ OfMail(r.mail) = {} /\ account[r.user] = Absent)
  <2>1. UNCHANGED <<account, person, strayed>> /\ clerk' = [clerk EXCEPT ![c] = Absent]
    BY <1>1, <1>3, <1>4 DEF Leaves
  <2> QED BY <1>1, <2>1, ClerkMoves
<1>5. CASE OfPerson(p) = {} /\ OfMail(r.mail) = {} /\ account[r.user] = Absent
  <2> DEFINE a == [mail |-> r.mail, person |-> p]
             w == [mail |-> r.mail, phone |-> r.phone]
  <2>1. p \in People /\ (p # new => person[p] # Absent) /\ (p = new => WithMail(r.mail) = {})
    BY <1>1, <1>3 DEF Match, WithMail, WithPhone, Known
  <2>2. /\ account' = [account EXCEPT ![r.user] = a]
        /\ person' = IF p = new THEN [person EXCEPT ![p] = w] ELSE person
        /\ strayed' = IF p # new /\ person[p].mail # r.mail THEN strayed \cup {r.user} ELSE strayed
    BY <1>3, <1>5
  <2>3. /\ w \in PersonRow /\ w.mail = r.mail
        /\ a \in AccountRow /\ a.mail = r.mail /\ a.person = p /\ a # Absent
    BY <1>2, <2>1, PeopleAssumption DEF PersonRow, AccountRow
  <2> HIDE DEF a, w
  <2>4. /\ account' \in [Customers -> {Absent} \cup AccountRow]
        /\ \A u \in Customers : account'[u] = IF u = r.user THEN a ELSE account[u]
    BY <1>2, <2>2, <2>3 DEF PeopleInv, PeopleTypeOK
  <2>5. /\ person' \in [People -> {Absent} \cup PersonRow]
        /\ OneMail' /\ person'[p] # Absent
        /\ p = new => person'[p].mail = r.mail
        /\ \A q \in People : q # p => person'[q] = person[q]
        /\ \A q \in People : person[q] # Absent => person'[q] # Absent
        /\ p # new => person'[p] = person[p]
    <3>1. CASE p = new
      <4>1. WithMail(w.mail) \subseteq {p} /\ person' = [person EXCEPT ![p] = w]
        BY <2>1, <2>2, <2>3, <3>1
      <4> QED BY <2>1, <2>3, <3>1, <4>1, PersonWritten DEF PeopleInv
    <3>2. CASE p # new
      BY <2>1, <2>2, <3>2 DEF PeopleInv, PeopleTypeOK, OneMail
    <3> QED BY <3>1, <3>2
  <2>6. \A u \in Customers : account[u] # Absent =>
           u # r.user /\ account[u].person \in People /\ account[u].person # p
    BY <1>5 DEF OfPerson, PeopleInv, PeopleTypeOK, AccountRow
  <2>7. strayed' \subseteq Customers /\ \A u \in Customers : u # r.user => (u \in strayed' <=> u \in strayed)
    BY <1>2, <2>2 DEF PeopleInv, PeopleTypeOK
  <2>8. AccountsMatch'
    <3> SUFFICES ASSUME NEW u \in Customers, account'[u] # Absent
                 PROVE  /\ person'[account'[u].person] # Absent
                        /\ u \notin strayed' => person'[account'[u].person].mail = account'[u].mail
      BY DEF AccountsMatch
    <3>1. CASE u = r.user
      <4>1. account'[u].person = p /\ account'[u].mail = r.mail
        BY <2>3, <2>4, <3>1
      <4>2. u \notin strayed' => p = new \/ person[p].mail = r.mail
        BY <2>2, <3>1
      <4> QED BY <2>5, <4>1, <4>2
    <3>2. CASE u # r.user
      BY <2>4, <2>5, <2>6, <2>7, <3>2 DEF PeopleInv, AccountsMatch
    <3> QED BY <3>1, <3>2
  <2>9. OwnPersons'
    BY <2>3, <2>4, <2>6 DEF PeopleInv, OwnPersons
  <2>10. \A u \in Customers : account[u] # Absent => account'[u] # Absent
    BY <2>3, <2>4
  <2>11. clerk' \in [Clerks -> {Absent} \cup ClerkRow] /\ PersonsExist' /\ BookedIsLinked'
    BY <1>1, <2>5, <2>10, ClerkLeaves
  <2>12. PeopleTypeOK'
    BY <1>1, <2>4, <2>5, <2>7, <2>11 DEF PeopleInv, PeopleTypeOK
  <2> QED BY <2>5, <2>8, <2>9, <2>11, <2>12 DEF PeopleInv
<1> QED BY <1>4, <1>5

\* Account and person get the e-mail together.
LEMMA EditProfileInv ==
  ASSUME PeopleInv, NEW c \in Clerks, EditProfile(c) PROVE PeopleInv'
<1> DEFINE r == clerk[c]
           u == r.user
           p == account[u].person
           row == EditedRow(person[p], r.mail, r.phone)
<1>1. /\ r # Absent /\ r.at = "edit" /\ Leaves(c) /\ UNCHANGED <<link, check>>
  BY DEF EditProfile, ClerkAt
<1>2. u \in Customers /\ r.mail \in Mails \cup {Absent} /\ r.phone \in Phones
  BY <1>1 DEF PeopleInv, PeopleTypeOK, ClerkRow
<1>3. /\ account[u] # Absent /\ p \in People /\ account[u].mail \in Mails
      /\ person[p] # Absent /\ person[p] \in PersonRow
      /\ u \notin strayed => person[p].mail = account[u].mail
  <2>1. account[u] # Absent
    BY <1>1 DEF PeopleInv, PersonsExist
  <2>2. p \in People /\ account[u].mail \in Mails
    BY <1>2, <2>1 DEF PeopleInv, PeopleTypeOK, AccountRow
  <2> QED BY <1>2, <2>1, <2>2 DEF PeopleInv, PeopleTypeOK, AccountsMatch
<1>4. row \in PersonRow /\ row.mail = (IF r.mail = Absent THEN person[p].mail ELSE r.mail)
  BY <1>2, <1>3, EditedRows DEF EditedRow
<1>5. CASE ~ (Unique(p, row) /\ (r.mail # Absent => OfMail(r.mail) \subseteq {u}))
  <2>1. UNCHANGED <<account, person, strayed>> /\ clerk' = [clerk EXCEPT ![c] = Absent]
    BY <1>1, <1>5 DEF EditProfile, Leaves
  <2> QED BY <1>1, <2>1, ClerkMoves
<1>6. CASE Unique(p, row) /\ (r.mail # Absent => OfMail(r.mail) \subseteq {u})
  <2>1. /\ person' = [person EXCEPT ![p] = row]
        /\ account' = IF r.mail = Absent THEN account ELSE [account EXCEPT ![u].mail = r.mail]
        /\ strayed' = IF r.mail = Absent THEN strayed ELSE strayed \ {u}
    BY <1>6 DEF EditProfile
  <2>2. WithMail(row.mail) \subseteq {p}
    BY <1>6 DEF Unique
  <2>3. PICK row1 \in PersonRow : row1 = row
    BY <1>4
  <2>4. /\ person' \in [People -> {Absent} \cup PersonRow]
        /\ OneMail' /\ person'[p] = row1
        /\ \A q \in People : q # p => person'[q] = person[q]
        /\ \A q \in People : person[q] # Absent => person'[q] # Absent
    BY <1>3, <1>4, <2>1, <2>2, <2>3, PersonWritten DEF PeopleInv
  <2>5. \A v \in Customers : account[v] # Absent =>
           /\ account[v].person \in People
           /\ v # u => account[v].person # p
    BY <1>2, <1>3 DEF PeopleInv, PeopleTypeOK, AccountRow, OwnPersons
  <2>6. /\ account' \in [Customers -> {Absent} \cup AccountRow]
        /\ account'[u] # Absent /\ account'[u].person = p
        /\ account'[u].mail = IF r.mail = Absent THEN account[u].mail ELSE r.mail
        /\ \A v \in Customers : v # u => account'[v] = account[v]
    <3>1. CASE r.mail = Absent
      BY <1>3, <2>1, <3>1 DEF PeopleInv, PeopleTypeOK
    <3>2. CASE r.mail # Absent
      <4> DEFINE a == [account[u] EXCEPT !.mail = r.mail]
      <4>1. account[u] \in AccountRow
        BY <1>2, <1>3 DEF PeopleInv, PeopleTypeOK
      <4>2. r.mail \in Mails
        BY <1>2, <3>2
      <4>3. a \in AccountRow /\ a # Absent /\ a.person = p /\ a.mail = r.mail
        BY <4>1, <4>2, PeopleAssumption DEF AccountRow
      <4>4. account' = [account EXCEPT ![u] = a]
        BY <2>1, <3>2
      <4> HIDE DEF a
      <4> QED BY <1>2, <3>2, <4>3, <4>4 DEF PeopleInv, PeopleTypeOK
    <3> QED BY <3>1, <3>2
  <2>7. strayed' \subseteq Customers /\ \A v \in Customers : v # u => (v \in strayed' <=> v \in strayed)
    BY <2>1 DEF PeopleInv, PeopleTypeOK
  <2>8. AccountsMatch'
    <3> SUFFICES ASSUME NEW v \in Customers, account'[v] # Absent
                 PROVE  /\ person'[account'[v].person] # Absent
                        /\ v \notin strayed' => person'[account'[v].person].mail = account'[v].mail
      BY DEF AccountsMatch
    <3>1. CASE v = u
      <4>1. row1.mail = (IF r.mail = Absent THEN person[p].mail ELSE r.mail)
        BY <1>4, <2>3
      <4>2. v \notin strayed' => r.mail # Absent \/ v \notin strayed
        BY <2>1
      <4>3. person'[p] # Absent
        BY <1>3, <2>4
      <4> QED BY <1>3, <2>4, <2>6, <3>1, <4>1, <4>2, <4>3
    <3>2. CASE v # u
      BY <2>4, <2>5, <2>6, <2>7, <3>2 DEF PeopleInv, AccountsMatch
    <3> QED BY <3>1, <3>2
  <2>9. OwnPersons'
    BY <2>5, <2>6, <1>3 DEF PeopleInv, OwnPersons
  <2>10. \A v \in Customers : account[v] # Absent => account'[v] # Absent
    BY <2>6
  <2>11. clerk' \in [Clerks -> {Absent} \cup ClerkRow] /\ PersonsExist' /\ BookedIsLinked'
    BY <1>1, <2>4, <2>10, ClerkLeaves
  <2>12. PeopleTypeOK'
    BY <1>1, <2>4, <2>6, <2>7, <2>11 DEF PeopleInv, PeopleTypeOK
  <2> QED BY <2>4, <2>8, <2>9, <2>11, <2>12 DEF PeopleInv
<1> QED BY <1>5, <1>6

\* A message moves on and no link is made: it is not dealt with unless the
\* link is there.
LEMMA CheckMoves ==
  ASSUME PeopleInv, NEW k \in Checks, NEW r \in CheckRow, check' = [check EXCEPT ![k] = r],
         person[r.person] # Absent, r.at = "done" => link[<<r.shop, r.person>>] # Absent,
         UNCHANGED <<person, link, account, clerk, strayed>>
  PROVE  PeopleInv'
<1>1. check' \in [Checks -> {Absent} \cup CheckRow] /\ \A j \in Checks : check'[j] = IF j = k THEN r ELSE check[j]
  BY DEF PeopleInv, PeopleTypeOK
<1>2. PeopleTypeOK' /\ OneMail' /\ AccountsMatch' /\ OwnPersons'
  BY <1>1 DEF PeopleInv, PeopleTypeOK, OneMail, AccountsMatch, OwnPersons
<1>3. PersonsExist'
  BY <1>1 DEF PeopleInv, PersonsExist
<1>4. BookedIsLinked'
  BY <1>1 DEF PeopleInv, BookedIsLinked
<1> QED BY <1>2, <1>3, <1>4 DEF PeopleInv

LEMMA BookOnlineInv ==
  ASSUME PeopleInv, NEW k \in Checks, NEW u \in Customers, NEW s \in Shops, BookOnline(k, u, s) PROVE PeopleInv'
<1>1. account[u] # Absent /\ UNCHANGED <<person, link, account, clerk, strayed>>
  BY DEF BookOnline
<1>2. PICK fate \in {"queued", "lost"} :
         check' = [check EXCEPT ![k] = [at |-> fate, shop |-> s, person |-> account[u].person]]
  BY DEF BookOnline
<1>3. account[u].person \in People /\ person[account[u].person] # Absent
  BY <1>1 DEF PeopleInv, PeopleTypeOK, AccountRow, AccountsMatch
<1> DEFINE r == [at |-> fate, shop |-> s, person |-> account[u].person]
<1>4. r \in CheckRow /\ r.at # "done" /\ r.person = account[u].person
  BY <1>3 DEF CheckRow
<1>5. check' = [check EXCEPT ![k] = r]
  BY <1>2
<1> HIDE DEF r
<1> QED BY <1>1, <1>3, <1>4, <1>5, CheckMoves

LEMMA CheckKnown ==
  ASSUME PeopleInv, NEW k \in Checks, check[k] # Absent
  PROVE  /\ check[k] \in CheckRow /\ check[k].shop \in Shops /\ check[k].person \in People
         /\ person[check[k].person] # Absent
<1>1. check[k] \in CheckRow
  BY DEF PeopleInv, PeopleTypeOK
<1> QED BY <1>1 DEF CheckRow, PeopleInv, PersonsExist

LEMMA CheckLinkedInv ==
  ASSUME PeopleInv, NEW k \in Checks, CheckLinked(k) PROVE PeopleInv'
<1>1. check[k] # Absent /\ UNCHANGED <<person, link, account, clerk, strayed>>
      /\ check' = [check EXCEPT ![k].at = IF Linked(check[k].shop, check[k].person) THEN "done" ELSE "link"]
  BY DEF CheckLinked
<1>2. PICK next \in {"done", "link"} :
         /\ check' = [check EXCEPT ![k].at = next]
         /\ next = "done" => link[<<check[k].shop, check[k].person>>] # Absent
  BY <1>1 DEF Linked
<1> DEFINE r == [check[k] EXCEPT !.at = next]
<1>3. r \in CheckRow /\ r.at = next /\ r.shop = check[k].shop /\ r.person = check[k].person
  BY <1>1, CheckKnown DEF CheckRow
<1>4. check' = [check EXCEPT ![k] = r]
  BY <1>2
<1>5. person[check[k].person] # Absent
  BY <1>1, CheckKnown
<1> HIDE DEF r
<1>6. person[r.person] # Absent /\ (r.at = "done" => link[<<r.shop, r.person>>] # Absent)
  BY <1>2, <1>3, <1>5
<1>7. UNCHANGED <<person, link, account, clerk, strayed>>
  BY <1>1
<1>8. r \in CheckRow
  BY <1>3
<1> QED BY <1>4, <1>6, <1>7, <1>8, CheckMoves

LEMMA RedeliverInv ==
  ASSUME PeopleInv, NEW k \in Checks, Redeliver(k) PROVE PeopleInv'
<1>1. check[k] # Absent /\ UNCHANGED <<person, link, account, clerk, strayed>>
      /\ check' = [check EXCEPT ![k].at = "queued"]
  BY DEF Redeliver
<1> DEFINE r == [check[k] EXCEPT !.at = "queued"]
<1>2. r \in CheckRow /\ r.at # "done" /\ r.person = check[k].person
  BY <1>1, CheckKnown DEF CheckRow
<1>3. check' = [check EXCEPT ![k] = r]
  BY <1>1
<1>4. person[check[k].person] # Absent
  BY <1>1, CheckKnown
<1> HIDE DEF r
<1> QED BY <1>1, <1>2, <1>3, <1>4, CheckMoves

\* The write that settles a message makes the link if it is not there.
LEMMA LinkCustomerInv ==
  ASSUME PeopleInv, NEW k \in Checks, LinkCustomer(k) PROVE PeopleInv'
<1> DEFINE s == check[k].shop
           p == check[k].person
<1>1. check[k] # Absent /\ UNCHANGED <<person, account, clerk, strayed>>
  BY DEF LinkCustomer
<1>2. check[k] \in CheckRow /\ s \in Shops /\ p \in People /\ person[p] # Absent
  BY <1>1, CheckKnown
<1>3. CASE check' = [check EXCEPT ![k].at = "lost"] /\ UNCHANGED link
  <2> DEFINE r == [check[k] EXCEPT !.at = "lost"]
  <2>1. r \in CheckRow /\ r.at # "done" /\ r.person = p
    BY <1>2 DEF CheckRow
  <2>2. check' = [check EXCEPT ![k] = r]
    BY <1>3
  <2> HIDE DEF r
  <2> QED BY <1>1, <1>2, <1>3, <2>1, <2>2, CheckMoves
<1>4. CASE /\ link' = IF link[<<s, p>>] = Absent THEN [link EXCEPT ![<<s, p>>] = [verified |-> TRUE]] ELSE link
           /\ check' = [check EXCEPT ![k].at = "done"]
  <2> DEFINE r == [check[k] EXCEPT !.at = "done"]
  <2>1. r \in CheckRow /\ r.shop = s /\ r.person = p /\ r # Absent
    BY <1>2, PeopleAssumption DEF CheckRow
  <2>2. check' = [check EXCEPT ![k] = r]
    BY <1>4
  <2> HIDE DEF r
  <2>3. check' \in [Checks -> {Absent} \cup CheckRow] /\ \A j \in Checks : check'[j] = IF j = k THEN r ELSE check[j]
    BY <2>1, <2>2 DEF PeopleInv, PeopleTypeOK
  <2>4. TRUE \in BOOLEAN
    OBVIOUS
  <2>5. /\ link' \in [Shops \X People -> {Absent} \cup LinkRow]
        /\ link'[<<s, p>>] # Absent
        /\ \A a \in Shops, q \in People : link[<<a, q>>] # Absent => link'[<<a, q>>] # Absent
        /\ \A a \in Shops, q \in People : link'[<<a, q>>] # Absent => person[q] # Absent
    BY <1>2, <1>4, <2>4, LinkMade
  <2>6. PeopleTypeOK' /\ OneMail' /\ AccountsMatch' /\ OwnPersons'
    BY <1>1, <2>3, <2>5 DEF PeopleInv, PeopleTypeOK, OneMail, AccountsMatch, OwnPersons
  <2>7. PersonsExist'
    BY <1>1, <1>2, <2>1, <2>3, <2>5 DEF PeopleInv, PersonsExist
  <2>8. BookedIsLinked'
    <3>1. \A j \in Checks : check[j] # Absent => check[j].shop \in Shops /\ check[j].person \in People
      BY CheckKnown
    <3> QED BY <2>1, <2>3, <2>5, <3>1 DEF PeopleInv, BookedIsLinked
  <2> QED BY <2>6, <2>7, <2>8 DEF PeopleInv
<1> QED BY <1>3, <1>4 DEF LinkCustomer

LEMMA PeopleStep == PeopleInv /\ [PeopleNext]_peopleVars => PeopleInv'
<1> SUFFICES ASSUME PeopleInv, [PeopleNext]_peopleVars PROVE PeopleInv'
  OBVIOUS
<1>1. ASSUME NEW c \in Clerks, NEW s \in Shops, NEW m \in Mails \cup {Absent}, NEW t \in Phones,
             Register(c, s, m, t)
      PROVE  PeopleInv'
  BY <1>1, RegisterInv
<1>2. ASSUME NEW c \in Clerks, FindByPhone(c) \/ LinkPerson(c) \/ EditProfile(c) PROVE PeopleInv'
  BY <1>2, FindByPhoneInv, LinkPersonInv, EditProfileInv
<1>3. ASSUME NEW c \in Clerks, NEW p \in People, CreatePerson(c, p) \/ OpenAccount(c, p) PROVE PeopleInv'
  BY <1>3, CreatePersonInv, OpenAccountInv
<1>4. ASSUME NEW s \in Shops, NEW p \in People, NEW m \in Mails \cup {Absent}, NEW t \in Phones,
             UpdateCustomer(s, p, m, t)
      PROVE  PeopleInv'
  BY <1>4, UpdateCustomerInv
<1>5. ASSUME NEW c \in Clerks, NEW u \in Customers, NEW m \in Mails, NEW t \in Phones \ {Absent},
             CheckNewMail(c, u, m, t)
      PROVE  PeopleInv'
  BY <1>5, CheckNewMailInv
<1>6. ASSUME NEW c \in Clerks, NEW u \in Customers, NEW m \in Mails \cup {Absent}, NEW t \in Phones,
             CheckEdit(c, u, m, t)
      PROVE  PeopleInv'
  BY <1>6, CheckEditInv
<1>7. ASSUME NEW k \in Checks, NEW u \in Customers, NEW s \in Shops, BookOnline(k, u, s) PROVE PeopleInv'
  BY <1>7, BookOnlineInv
<1>8. ASSUME NEW k \in Checks, CheckLinked(k) \/ LinkCustomer(k) \/ Redeliver(k) PROVE PeopleInv'
  BY <1>8, CheckLinkedInv, LinkCustomerInv, RedeliverInv
<1>9. CASE UNCHANGED peopleVars
  <2>1. UNCHANGED <<person, link, account, clerk, check, strayed>>
    BY <1>9 DEF peopleVars
  <2>2. PeopleTypeOK' /\ OneMail' /\ AccountsMatch' /\ OwnPersons' /\ PersonsExist' /\ BookedIsLinked'
    BY <2>1 DEF PeopleInv, PeopleTypeOK, OneMail, AccountsMatch, OwnPersons, PersonsExist, BookedIsLinked
  <2> QED BY <2>2 DEF PeopleInv
<1> QED BY <1>1, <1>2, <1>3, <1>4, <1>5, <1>6, <1>7, <1>8, <1>9 DEF PeopleNext

\* For any number of businesses, customers and requests: the e-mail of an
\* account leads to its person, and who booked is in the list of the business
\* once his message is dealt with.
THEOREM CustomersStayKnown == PeopleSpec => []CustomersAreKnown
<1>1. PeopleInv => MailFindsAccount
  <2> SUFFICES ASSUME PeopleInv, NEW u \in Customers \ strayed, account[u] # Absent
               PROVE  WithMail(account[u].mail) = {account[u].person}
    BY DEF MailFindsAccount
  <2>1. account[u].person \in People /\ account[u].mail \in Mails
    BY DEF PeopleInv, PeopleTypeOK, AccountRow
  <2>2. account[u].mail # Absent
    BY <2>1, PeopleAssumption
  <2>3. person[account[u].person] # Absent /\ person[account[u].person].mail = account[u].mail
    BY DEF PeopleInv, AccountsMatch
  <2>4. account[u].person \in WithMail(account[u].mail)
    BY <2>1, <2>2, <2>3 DEF WithMail, Known
  <2>5. \A q \in WithMail(account[u].mail) : q = account[u].person
    BY <2>1, <2>2, <2>3 DEF PeopleInv, OneMail, WithMail, Known
  <2> QED BY <2>4, <2>5
<1>2. PeopleInv => BookedIsLinked
  BY DEF PeopleInv
<1>3. PeopleInv => CustomersAreKnown
  BY <1>1, <1>2 DEF CustomersAreKnown
<1> QED BY <1>3, PeopleInitInv, PeopleStep, PTL DEF PeopleSpec
-----------------------------------------------------------------------------
(* Confirmation requests.  What has been agreed to, or asked, is the       *)
(* appointment's hour.  Both halves rest on what a request still under way *)
(* remembers: as long as nothing crossed it, the hour it read is the       *)
(* appointment's.                                                          *)
AskingAt(x) == HandAt(x, "check asked") \/ HandAt(x, "publish ask") \/ HandAt(x, "record ask")
Unspoiled == crossed \cap {"ask", "ask lost", "moved by the customer"} = {}

HandOK ==
    \A x \in Hands : hand[x] = Idle \/ hand[x] \in
        [at : {"check asked", "publish ask", "record ask", "confirm", "move"}, hour : Hours]

\* A confirmation nobody crossed is of the present hour.
ConfirmsThis ==
    "confirmation" \notin crossed => \A x \in Hands : HandAt(x, "confirm") => hand[x].hour = hour

\* A request nobody crossed asks about the present hour, and has asked when
\* it comes to record it.
AsksThis ==
    Unspoiled => \A x \in Hands :
        /\ AskingAt(x) => hand[x].hour = hour
        /\ HandAt(x, "record ask") => hour \in told

ConfirmationsInv ==
    /\ ConfirmationsTypeOK
    /\ DOMAIN hand = Hands /\ HandOK
    /\ ConfirmsThis /\ ConfirmedAsSeen
    /\ AsksThis /\ EventMeansAsked

\* No request is under way at first, so none remembers anything wrong.
THEOREM ConfirmationsInitInv == ConfirmationsInit => ConfirmationsInv
<1> SUFFICES ASSUME ConfirmationsInit PROVE ConfirmationsInv
  OBVIOUS
<1>1. ConfirmationsTypeOK
  <2>1. 0 \in 0 .. MaxHands
    BY ConfirmationsAssumption
  <2> QED BY <2>1 DEF ConfirmationsInit, ConfirmationsTypeOK, Statuses
<1>2. DOMAIN hand = Hands /\ \A x \in Hands : hand[x] = Idle
  BY DEF ConfirmationsInit
<1>3. HandOK /\ ConfirmsThis /\ AsksThis
  BY <1>2 DEF HandOK, ConfirmsThis, AsksThis, HandAt, AskingAt
<1>4. ConfirmedAsSeen /\ EventMeansAsked
  BY DEF ConfirmationsInit, ConfirmedAsSeen, EventMeansAsked
<1> QED BY <1>1, <1>2, <1>3, <1>4 DEF ConfirmationsInv

-----------------------------------------------------------------------------
(* What becomes of the requests at work.                                   *)

\* One that begins is none of the others, and they are as they were.
LEMMA StartsHand ==
  ASSUME ConfirmationsInv, NEW x \in Hands, NEW what, Starts(x, what)
  PROVE  /\ DOMAIN hand' = Hands /\ hand'[x] = what /\ \A y \in Hands \ {x} : hand'[y] = hand[y]
         /\ hands' \in 0 .. MaxHands
<1>1. hands \in 0 .. MaxHands /\ hands < MaxHands /\ hands' = hands + 1
  BY DEF Starts, ConfirmationsInv, ConfirmationsTypeOK
<1>2. hands' \in 0 .. MaxHands
  BY <1>1, ConfirmationsAssumption
<1> QED BY <1>2 DEF Starts, ConfirmationsInv

LEMMA MovesHand ==
  ASSUME ConfirmationsInv, NEW x \in Hands, NEW place, Moves(x, place), hand[x] # Idle
  PROVE  /\ DOMAIN hand' = Hands /\ \A y \in Hands \ {x} : hand'[y] = hand[y]
         /\ hand'[x] = [hand[x] EXCEPT !.at = place]
         /\ hand'[x].at = place /\ hand'[x].hour = hand[x].hour
         /\ hands' = hands
BY DEF Moves, ConfirmationsInv, HandOK

LEMMA EndsHand ==
  ASSUME ConfirmationsInv, NEW x \in Hands, Ends(x)
  PROVE  /\ DOMAIN hand' = Hands /\ hand'[x] = Idle /\ \A y \in Hands \ {x} : hand'[y] = hand[y]
         /\ hands' = hands
BY DEF Ends, ConfirmationsInv

\* A request that ends, whatever it was, disturbs nothing.
LEMMA EndsInv ==
  ASSUME ConfirmationsInv, NEW x \in Hands, Ends(x), UNCHANGED <<status, hour, asked, seen, told, crossed>>
  PROVE  ConfirmationsInv'
<1>1. /\ DOMAIN hand' = Hands /\ hand'[x] = Idle /\ \A y \in Hands \ {x} : hand'[y] = hand[y]
      /\ hands' = hands
  BY EndsHand
<1> QED BY <1>1 DEF ConfirmationsInv, ConfirmationsTypeOK, HandOK, ConfirmsThis, ConfirmedAsSeen,
           AsksThis, EventMeansAsked, HandAt, AskingAt, Unspoiled

-----------------------------------------------------------------------------
(* The steps.                                                              *)

\* Three handlers begin by reading the hour; a move begins with another one.
LEMMA BeginInv ==
  ASSUME ConfirmationsInv, NEW x \in Hands,
         \/ ReadForAsking(x) \/ ReadByCustomer(x) \/ ReadByProfessional(x)
         \/ \E h \in Hours : ReadForMove(x, h)
  PROVE  ConfirmationsInv'
<1>1. PICK place \in {"check asked", "confirm", "move"}, h \in Hours :
        /\ Starts(x, [at |-> place, hour |-> h])
        /\ place # "move" => h = hour
        /\ UNCHANGED <<status, hour, asked, seen, told, crossed>>
  BY DEF ReadForAsking, ReadByCustomer, ReadByProfessional, ReadForMove, ConfirmationsInv, ConfirmationsTypeOK
<1> DEFINE what == [at |-> place, hour |-> h]
<1>2. /\ DOMAIN hand' = Hands /\ hand'[x] = what /\ \A y \in Hands \ {x} : hand'[y] = hand[y]
      /\ hands' \in 0 .. MaxHands
  BY <1>1, StartsHand
<1>3. what.at = place /\ what.hour = h
  OBVIOUS
<1>4. what \in [at : {"check asked", "publish ask", "record ask", "confirm", "move"}, hour : Hours]
  OBVIOUS
<1> HIDE DEF what
<1>5. ConfirmationsTypeOK' /\ HandOK'
  BY <1>1, <1>2, <1>4 DEF ConfirmationsInv, ConfirmationsTypeOK, HandOK
<1>6. ConfirmsThis' /\ ConfirmedAsSeen'
  BY <1>1, <1>2, <1>3 DEF ConfirmationsInv, ConfirmsThis, ConfirmedAsSeen, HandAt
<1>7. AsksThis' /\ EventMeansAsked'
  BY <1>1, <1>2, <1>3 DEF ConfirmationsInv, AsksThis, EventMeansAsked, HandAt, AskingAt, Unspoiled
<1> QED BY <1>2, <1>5, <1>6, <1>7 DEF ConfirmationsInv

LEMMA CheckAskedInv ==
  ASSUME ConfirmationsInv, NEW x \in Hands, CheckAsked(x) PROVE ConfirmationsInv'
<1>1. CASE asked
  BY <1>1, EndsInv DEF CheckAsked
<1>2. CASE ~ asked
  <2>1. HandAt(x, "check asked") /\ Moves(x, "publish ask")
        /\ UNCHANGED <<status, hour, asked, seen, told, crossed>>
    BY <1>2 DEF CheckAsked
  <2>2. hand[x] # Idle /\ hand[x].at = "check asked"
    BY <2>1 DEF HandAt
  <2>3. /\ DOMAIN hand' = Hands /\ \A y \in Hands \ {x} : hand'[y] = hand[y]
        /\ hand'[x] = [hand[x] EXCEPT !.at = "publish ask"]
        /\ hand'[x].at = "publish ask" /\ hand'[x].hour = hand[x].hour
        /\ hands' = hands
    BY <2>1, <2>2, MovesHand
  <2>4. HandOK'
    BY <2>2, <2>3 DEF ConfirmationsInv, HandOK
  <2>5. ConfirmsThis' /\ ConfirmedAsSeen'
    BY <2>1, <2>3 DEF ConfirmationsInv, ConfirmsThis, ConfirmedAsSeen, HandAt
  <2>6. AsksThis' /\ EventMeansAsked'
    BY <2>1, <2>2, <2>3 DEF ConfirmationsInv, AsksThis, EventMeansAsked, HandAt, AskingAt, Unspoiled
  <2> QED BY <2>1, <2>3, <2>4, <2>5, <2>6 DEF ConfirmationsInv, ConfirmationsTypeOK
<1> QED BY <1>1, <1>2

\* The message is about the hour that was read, or is lost.
LEMMA PublishAskInv ==
  ASSUME ConfirmationsInv, NEW x \in Hands, PublishAsk(x) PROVE ConfirmationsInv'
<1>1. hand[x] # Idle /\ hand[x].at = "publish ask" /\ Moves(x, "record ask")
      /\ UNCHANGED <<status, hour, asked, seen>>
  BY DEF PublishAsk, HandAt
<1>2. \/ told' = told \cup {hand[x].hour} /\ crossed' = crossed
      \/ crossed' = crossed \cup {"ask lost"} /\ told' = told
  BY DEF PublishAsk
<1>3. /\ DOMAIN hand' = Hands /\ \A y \in Hands \ {x} : hand'[y] = hand[y]
      /\ hand'[x] = [hand[x] EXCEPT !.at = "record ask"]
      /\ hand'[x].at = "record ask" /\ hand'[x].hour = hand[x].hour
      /\ hands' = hands
  BY <1>1, MovesHand
<1>4. hand[x].hour \in Hours
  BY <1>1 DEF ConfirmationsInv, HandOK
<1>5. ConfirmationsTypeOK'
  BY <1>1, <1>2, <1>3, <1>4 DEF ConfirmationsInv, ConfirmationsTypeOK
<1>6. HandOK'
  BY <1>1, <1>3 DEF ConfirmationsInv, HandOK
<1>7. ConfirmsThis' /\ ConfirmedAsSeen'
  BY <1>1, <1>2, <1>3 DEF ConfirmationsInv, ConfirmsThis, ConfirmedAsSeen, HandAt
<1>8. AsksThis'
  <2> SUFFICES ASSUME Unspoiled'
               PROVE  \A y \in Hands : /\ AskingAt(y)' => hand'[y].hour = hour'
                                       /\ HandAt(y, "record ask")' => hour' \in told'
    BY DEF AsksThis
  <2>1. Unspoiled /\ told' = told \cup {hand[x].hour}
    BY <1>2 DEF Unspoiled
  <2>2. hand[x].hour = hour
    BY <1>1, <2>1 DEF ConfirmationsInv, AsksThis, AskingAt, HandAt
  <2> QED BY <1>1, <1>3, <2>1, <2>2 DEF ConfirmationsInv, AsksThis, AskingAt, HandAt
<1>9. EventMeansAsked'
  BY <1>1, <1>2 DEF ConfirmationsInv, EventMeansAsked
<1> QED BY <1>3, <1>5, <1>6, <1>7, <1>8, <1>9 DEF ConfirmationsInv

LEMMA RecordAskInv ==
  ASSUME ConfirmationsInv, NEW x \in Hands, RecordAsk(x) PROVE ConfirmationsInv'
<1>1. /\ HandAt(x, "record ask") /\ asked' = TRUE /\ Ends(x)
      /\ UNCHANGED <<status, hour, seen, told, crossed>>
  BY DEF RecordAsk
<1>2. /\ DOMAIN hand' = Hands /\ hand'[x] = Idle /\ \A y \in Hands \ {x} : hand'[y] = hand[y]
      /\ hands' = hands
  BY <1>1, EndsHand
<1>3. ConfirmationsTypeOK' /\ HandOK'
  BY <1>1, <1>2 DEF ConfirmationsInv, ConfirmationsTypeOK, HandOK
<1>4. ConfirmsThis' /\ ConfirmedAsSeen'
  BY <1>1, <1>2 DEF ConfirmationsInv, ConfirmsThis, ConfirmedAsSeen, HandAt
<1>5. AsksThis'
  BY <1>1, <1>2 DEF ConfirmationsInv, AsksThis, HandAt, AskingAt, Unspoiled
<1>6. EventMeansAsked'
  BY <1>1 DEF ConfirmationsInv, AsksThis, EventMeansAsked, Unspoiled
<1> QED BY <1>2, <1>3, <1>4, <1>5, <1>6 DEF ConfirmationsInv

\* What is confirmed is the hour that was read.
LEMMA ConfirmInv ==
  ASSUME ConfirmationsInv, NEW x \in Hands, Confirm(x) PROVE ConfirmationsInv'
<1>1. /\ HandAt(x, "confirm") /\ status' = "CONFIRMED" /\ seen' = {hand[x].hour} /\ Ends(x)
      /\ UNCHANGED <<hour, asked, told, crossed>>
  BY DEF Confirm
<1>2. /\ DOMAIN hand' = Hands /\ hand'[x] = Idle /\ \A y \in Hands \ {x} : hand'[y] = hand[y]
      /\ hands' = hands
  BY <1>1, EndsHand
<1>3. hand[x].hour \in Hours
  BY <1>1 DEF ConfirmationsInv, HandOK, HandAt
<1>4. ConfirmationsTypeOK' /\ HandOK'
  BY <1>1, <1>2, <1>3 DEF ConfirmationsInv, ConfirmationsTypeOK, HandOK, Statuses
<1>5. ConfirmsThis' /\ ConfirmedAsSeen'
  BY <1>1, <1>2 DEF ConfirmationsInv, ConfirmsThis, ConfirmedAsSeen, HandAt
<1>6. AsksThis' /\ EventMeansAsked'
  BY <1>1, <1>2 DEF ConfirmationsInv, AsksThis, EventMeansAsked, HandAt, AskingAt, Unspoiled
<1> QED BY <1>2, <1>4, <1>5, <1>6 DEF ConfirmationsInv

\* A move marks what it crosses; where nothing is marked nothing was at work.
LEMMA Marked ==
  ASSUME "confirmation" \notin crossed \cup Crossing \/ "ask" \notin crossed \cup Crossing
  PROVE  /\ "confirmation" \notin crossed \cup Crossing => \A x \in Hands : ~ HandAt(x, "confirm")
         /\ "ask" \notin crossed \cup Crossing => \A x \in Hands : ~ AskingAt(x)
BY DEF Crossing, Confirming, Asking, AskingAt

LEMMA MoveInv ==
  ASSUME ConfirmationsInv, NEW x \in Hands, Move(x) PROVE ConfirmationsInv'
<1>1. /\ HandAt(x, "move") /\ status' = "PENDING" /\ asked' = FALSE /\ hour' = hand[x].hour
      /\ crossed' = crossed \cup Crossing /\ told' = {} /\ Ends(x) /\ seen' = seen
  BY DEF Move, StatusMoved, EventMoved
<1>2. /\ DOMAIN hand' = Hands /\ hand'[x] = Idle /\ \A y \in Hands \ {x} : hand'[y] = hand[y]
      /\ hands' = hands
  BY <1>1, EndsHand
<1>3. hand[x].hour \in Hours
  BY <1>1 DEF ConfirmationsInv, HandOK, HandAt
<1>4. ConfirmationsTypeOK' /\ HandOK'
  BY <1>1, <1>2, <1>3 DEF ConfirmationsInv, ConfirmationsTypeOK, HandOK, Statuses
<1>5. ConfirmsThis' /\ ConfirmedAsSeen'
  BY <1>1, <1>2, Marked DEF ConfirmsThis, ConfirmedAsSeen, HandAt
<1>6. AsksThis' /\ EventMeansAsked'
  BY <1>1, <1>2, Marked DEF AsksThis, EventMeansAsked, HandAt, AskingAt, Unspoiled
<1> QED BY <1>2, <1>4, <1>5, <1>6 DEF ConfirmationsInv

LEMMA MovedByCustomerInv ==
  ASSUME ConfirmationsInv, NEW h \in Hours, MovedByCustomer(h) PROVE ConfirmationsInv'
<1>1. /\ hands < MaxHands /\ hands' = hands + 1 /\ hour' = h /\ seen' = {h} /\ hand' = hand
      /\ crossed' = crossed \cup Crossing \cup {"moved by the customer"}
      /\ UNCHANGED <<status, asked, told>>
  BY DEF MovedByCustomer
<1>2. ConfirmationsTypeOK'
  <2>1. hands \in 0 .. MaxHands
    BY DEF ConfirmationsInv, ConfirmationsTypeOK
  <2>2. hands < MaxHands /\ hands' = hands + 1
    BY <1>1
  <2>3. hands' \in 0 .. MaxHands
    BY <2>1, <2>2, ConfirmationsAssumption
  <2> QED BY <1>1, <2>3 DEF ConfirmationsInv, ConfirmationsTypeOK
<1>5. HandOK' /\ DOMAIN hand' = Hands
  BY <1>1 DEF ConfirmationsInv, HandOK
<1>3. ConfirmsThis' /\ ConfirmedAsSeen'
  BY <1>1, Marked DEF ConfirmsThis, ConfirmedAsSeen, HandAt
<1>4. AsksThis' /\ EventMeansAsked'
  BY <1>1 DEF AsksThis, EventMeansAsked, Unspoiled
<1> QED BY <1>2, <1>5, <1>3, <1>4 DEF ConfirmationsInv

\* A cancellation, or the end, only takes a confirmation back.
LEMMA StatusInv ==
  ASSUME ConfirmationsInv, Cancel \/ Complete PROVE ConfirmationsInv'
<1>1. /\ status' \in {"CANCELED", "COMPLETED"}
      /\ UNCHANGED <<hour, asked, hand, hands, seen, told, crossed>>
  BY DEF Cancel, Complete
<1>2. ConfirmationsTypeOK'
  BY <1>1 DEF ConfirmationsInv, ConfirmationsTypeOK, Statuses
<1>3. HandOK' /\ DOMAIN hand' = Hands
  BY <1>1 DEF ConfirmationsInv, HandOK
<1>4. ConfirmsThis' /\ ConfirmedAsSeen' /\ AsksThis' /\ EventMeansAsked'
  BY <1>1 DEF ConfirmationsInv, ConfirmsThis, ConfirmedAsSeen, AsksThis, EventMeansAsked, HandAt, AskingAt, Unspoiled
<1> QED BY <1>2, <1>3, <1>4 DEF ConfirmationsInv

-----------------------------------------------------------------------------
\* Every step of a request, and every move of the appointment, keeps what the
\* requests under way rely on.
THEOREM ConfirmationsStep == ConfirmationsInv /\ [ConfirmationsNext]_confirmationsVars => ConfirmationsInv'
<1> SUFFICES ASSUME ConfirmationsInv, [ConfirmationsNext]_confirmationsVars PROVE ConfirmationsInv'
  OBVIOUS
<1>1. ASSUME NEW x \in Hands,
             \/ ReadForAsking(x) \/ ReadByCustomer(x) \/ ReadByProfessional(x)
             \/ \E h \in Hours : ReadForMove(x, h)
      PROVE  ConfirmationsInv'
  BY <1>1, BeginInv
<1>2. ASSUME NEW x \in Hands, CheckAsked(x) PROVE ConfirmationsInv'
  BY <1>2, CheckAskedInv
<1>3. ASSUME NEW x \in Hands, ChannelOff(x) \/ Fail(x) PROVE ConfirmationsInv'
  BY <1>3, EndsInv DEF ChannelOff, Fail
<1>4. ASSUME NEW x \in Hands, PublishAsk(x) PROVE ConfirmationsInv'
  BY <1>4, PublishAskInv
<1>5. ASSUME NEW x \in Hands, RecordAsk(x) PROVE ConfirmationsInv'
  BY <1>5, RecordAskInv
<1>6. ASSUME NEW x \in Hands, Confirm(x) PROVE ConfirmationsInv'
  BY <1>6, ConfirmInv
<1>7. ASSUME NEW x \in Hands, Move(x) PROVE ConfirmationsInv'
  BY <1>7, MoveInv
<1>8. ASSUME NEW h \in Hours, MovedByCustomer(h) PROVE ConfirmationsInv'
  BY <1>8, MovedByCustomerInv
<1>9. CASE Cancel \/ Complete
  BY <1>9, StatusInv
<1>10. CASE UNCHANGED confirmationsVars
  BY <1>10 DEF confirmationsVars, ConfirmationsInv, ConfirmationsTypeOK, HandOK, ConfirmsThis,
              ConfirmedAsSeen, AsksThis, EventMeansAsked, HandAt, AskingAt, Unspoiled
<1> QED BY <1>1, <1>2, <1>3, <1>4, <1>5, <1>6, <1>7, <1>8, <1>9, <1>10 DEF ConfirmationsNext

\* Every reachable state is well typed, and what a request remembers is true
\* of the appointment until something crosses it.
THEOREM ConfirmationsStayTrue == ConfirmationsSpec => []ConfirmationsInv
<1> QED BY ConfirmationsInitInv, ConfirmationsStep, PTL DEF ConfirmationsSpec

\* For any number of requests and hours: an appointment that stands confirmed
\* lies at the hour that was agreed to, and the event that forbids asking again
\* means that the customer was asked about it, but for what HourIsKnown excepts.
THEOREM HourStaysKnown == ConfirmationsSpec => []HourIsKnown
<1>1. ConfirmationsInv => HourIsKnown
  BY DEF ConfirmationsInv, HourIsKnown
<1> QED BY <1>1, ConfirmationsStayTrue, PTL

-----------------------------------------------------------------------------
(* Lists.  The place of a row is the number of rows before it: while no    *)
(* rows tie, a page is what has its places.                                *)

Place(r) == Cardinality({s \in Listed : key[s] > key[r]})

ListingsShape ==
    /\ size \in Nat \ {0} /\ page \in Nat
    /\ key \in [Ids -> Nat \cup {NoRow}]
    /\ got \in (SUBSET Ids) \cup {NoRow} /\ total \in Nat \cup {NoRow}
    /\ read \subseteq Ids /\ stayed \subseteq Listed

\* A row that was there all along and was not read lies behind what was read.
Ahead(n, R) == \A r \in stayed \ R : Skip(n) <= Place(r)

ListingsInv ==
    /\ ListingsShape
    /\ stir = {} =>
        /\ ~ HasTie /\ list.order # "none"
        /\ page > 0 => Ahead(page, read)
        /\ page > 0 /\ got # NoRow => Ahead(page + 1, read \cup got)
        /\ total # NoRow => total = Cardinality(Listed)
        /\ page = 0 => stayed \subseteq read

\* Rows can be counted, and the last place is one below their number.
LEMMA PlacesBelow ==
  ASSUME ListingsShape
  PROVE  /\ IsFiniteSet(Listed) /\ Cardinality(Listed) \in Nat
         /\ \A r \in Listed : Place(r) \in Nat /\ Place(r) < Cardinality(Listed)
<1>1. IsFiniteSet(Listed) /\ Cardinality(Listed) \in Nat
  BY ListingsAssumption, FS_Subset, FS_CardinalityType DEF Listed
<1>2. ASSUME NEW r \in Listed PROVE Place(r) \in Nat /\ Place(r) < Cardinality(Listed)
  <2> DEFINE E == {s \in Listed : key[s] > key[r]}
  <2>1. key[r] \in Nat
    BY DEF Listed, ListingsShape
  <2>2. E \subseteq Listed \ {r}
    BY <2>1
  <2>3. IsFiniteSet(Listed \ {r}) /\ Cardinality(Listed \ {r}) = Cardinality(Listed) - 1
    BY <1>1, FS_RemoveElement
  <2>4. Cardinality(E) \in Nat /\ Cardinality(E) <= Cardinality(Listed \ {r})
    BY <2>2, <2>3, FS_Subset, FS_CardinalityType
  <2>5. Place(r) = Cardinality(E)
    BY DEF Place
  <2> QED BY <1>1, <2>3, <2>4, <2>5
<1> QED BY <1>1, <1>2

\* Skipping a page more is skipping size rows more.
LEMMA SkipNext ==
  ASSUME size \in Nat \ {0}, NEW n \in Nat \ {0}
  PROVE  Skip(n) \in Nat /\ Skip(n + 1) = Skip(n) + size /\ n * size = Skip(n) + size
<1>1. PICK m \in Nat : n = m + 1
  <2>1. n - 1 \in Nat /\ n = (n - 1) + 1
    OBVIOUS
  <2> QED BY <2>1
<1>2. m * size \in Nat /\ (m + 1) * size = m * size + size
  OBVIOUS
<1>3. Skip(n) = m * size /\ Skip(n + 1) = (m + 1) * size
  BY <1>1 DEF Skip
<1> QED BY <1>1, <1>2, <1>3

\* The first rows of a list, as many as there are before a row and itself, hold it.
LEMMA FirstHold ==
  ASSUME ListingsShape, ~ HasTie, NEW A, A \subseteq Listed, NEW r \in Listed,
         \A a \in A, b \in Listed \ A : key[a] >= key[b]
  PROVE  /\ r \in A => Place(r) < Cardinality(A)
         /\ r \notin A => Cardinality(A) <= Place(r)
<1> DEFINE E == {s \in Listed : key[s] > key[r]}
<1>1. IsFiniteSet(Listed) /\ IsFiniteSet(A) /\ IsFiniteSet(E) /\ Place(r) = Cardinality(E)
      /\ Cardinality(E) \in Nat /\ Cardinality(A) \in Nat
  <2>1. IsFiniteSet(Listed) /\ IsFiniteSet(A) /\ IsFiniteSet(E)
    BY PlacesBelow, FS_Subset
  <2> QED BY <2>1, FS_CardinalityType DEF Place
<1>2. \A s \in Listed : key[s] \in Nat /\ (s # r => key[s] # key[r])
  BY DEF Listed, ListingsShape, HasTie
<1>3. CASE r \in A
  <2>1. E \subseteq A \ {r}
    BY <1>2, <1>3
  <2>2. IsFiniteSet(A \ {r}) /\ Cardinality(A \ {r}) = Cardinality(A) - 1
    BY <1>1, <1>3, FS_RemoveElement
  <2>3. Cardinality(E) <= Cardinality(A \ {r})
    BY <2>1, <2>2, FS_Subset
  <2> HIDE DEF E
  <2> QED BY <1>1, <1>3, <2>2, <2>3
<1>4. CASE r \notin A
  <2>1. A \subseteq E
    BY <1>2, <1>4
  <2>2. Cardinality(A) <= Cardinality(E)
    BY <1>1, <2>1, FS_Subset
  <2> HIDE DEF E
  <2> QED BY <1>1, <1>4, <2>2
<1> QED BY <1>3, <1>4

\* What is not on a page, and was not before it, lies behind it.
LEMMA PageHolds ==
  ASSUME ListingsShape, ~ HasTie, list.order # "none", NEW n \in Nat \ {0}, NEW P \in Pages(n),
         NEW r \in Listed \ P, Skip(n) <= Place(r)
  PROVE  Skip(n + 1) <= Place(r) /\ P # {}
<1> DEFINE N == Cardinality(Listed)
           left == IF N > Skip(n) THEN N - Skip(n) ELSE 0
           length == IF left < size THEN left ELSE size
<1>1. N \in Nat /\ IsFiniteSet(Listed) /\ Place(r) \in Nat /\ Place(r) < N
      /\ Skip(n) \in Nat /\ Skip(n + 1) = Skip(n) + size /\ size \in Nat \ {0}
  BY PlacesBelow, SkipNext DEF ListingsShape
<1>2. /\ P \subseteq Listed /\ Cardinality(P) = length
      /\ length = 0 \/ \E A \in SUBSET (Listed \ P) :
           Cardinality(A) = Skip(n) /\ Before(A, Listed \ A) /\ Before(P, Listed \ (A \cup P))
  BY DEF Pages
<1>3. length # 0 /\ length \in Nat /\ length <= size
  BY <1>1
<1>4. PICK A \in SUBSET (Listed \ P) :
        Cardinality(A) = Skip(n) /\ Before(A, Listed \ A) /\ Before(P, Listed \ (A \cup P))
  BY <1>2, <1>3
<1>5. IsFiniteSet(A) /\ IsFiniteSet(P) /\ A \cap P = {} /\ A \cup P \subseteq Listed
  BY <1>1, <1>2, FS_Subset
<1>6. Cardinality(A \cup P) = Skip(n) + length
  <2>1. Cardinality(A \cup P) = Cardinality(A) + Cardinality(P) - Cardinality(A \cap P)
    BY <1>5, FS_Union
  <2>2. Cardinality(A \cap P) = 0
    BY <1>5, FS_EmptySet
  <2> HIDE DEF length
  <2> QED BY <1>1, <1>2, <1>3, <1>4, <2>1, <2>2
<1>7. r \notin A
  <2>1. \A a \in A, b \in Listed \ A : key[a] >= key[b]
    BY <1>4 DEF Before
  <2>2. r \in A => Place(r) < Cardinality(A)
    BY <1>5, <2>1, FirstHold
  <2> QED BY <1>1, <1>4, <2>2
<1>8. Cardinality(A \cup P) <= Place(r)
  <2>1. \A a \in A, b \in Listed \ A : key[a] >= key[b]
    BY <1>4 DEF Before
  <2>2. \A a \in P, b \in Listed \ (A \cup P) : key[a] >= key[b]
    BY <1>4 DEF Before
  <2>3. \A a \in A \cup P, b \in Listed \ (A \cup P) : key[a] >= key[b]
    BY <2>1, <2>2
  <2> DEFINE B == A \cup P
  <2>4. r \notin B /\ B \subseteq Listed /\ \A a \in B, b \in Listed \ B : key[a] >= key[b]
    BY <1>5, <1>7, <2>3
  <2> HIDE DEF B
  <2>5. Cardinality(B) <= Place(r)
    BY <2>4, FirstHold
  <2> QED BY <2>5 DEF B
<1>9. length = size
  BY <1>1, <1>6, <1>8
<1>10. P # {}
  BY <1>2, <1>3, FS_EmptySet
<1> HIDE DEF length
<1> QED BY <1>1, <1>6, <1>8, <1>9, <1>10

\* Who has all the rows of a page reads on, or has read every row that stayed.
LEMMA AnswerInv ==
  ASSUME ListingsShape, page > 0, ~ HasTie, list.order # "none",
         NEW P \in SUBSET Ids, NEW count \in Nat, Answer(P, count),
         UNCHANGED <<list, size, key, stayed, writes, stir>>,
         Ahead(page + 1, read \cup P),
         \/ count = Cardinality(Listed)
         \/ stayed \subseteq read \cup P
  PROVE  ListingsInv'
<1>1. page \in Nat \ {0} /\ size \in Nat \ {0}
  BY DEF ListingsShape
<1>2. Listed' = Listed /\ HasTie' = HasTie /\ \A r : Place(r)' = Place(r)
  BY DEF Listed, HasTie, Place
<1>3. \A n : Skip(n)' = Skip(n)
  BY DEF Skip
<1>4. /\ read' = read \cup P /\ got' = NoRow /\ total' = NoRow
      /\ page' = IF count > page * size THEN page + 1 ELSE 0
  BY DEF Answer, HasMore
<1>5. ListingsShape'
  BY <1>1, <1>2, <1>4 DEF ListingsShape
<1>6. CASE count > page * size
  <2>1. page' = page + 1
    BY <1>4, <1>6
  <2>2. Ahead(page, read)'
    <3>1. Skip(page)' = Skip(page + 1)
      BY <2>1 DEF Skip
    <3> QED BY <1>2, <1>4, <3>1 DEF Ahead
  <2>3. page' # 0
    BY <1>1, <2>1
  <2> QED BY <1>2, <1>4, <1>5, <2>2, <2>3 DEF ListingsInv
<1>7. CASE ~ (count > page * size)
  <2>1. stayed \subseteq read \cup P
    <3> SUFFICES ASSUME count = Cardinality(Listed), NEW r \in stayed \ (read \cup P) PROVE FALSE
      OBVIOUS
    <3>1. r \in Listed
      BY DEF ListingsShape
    <3>2. Place(r) \in Nat /\ Place(r) < Cardinality(Listed) /\ Cardinality(Listed) \in Nat
      BY <3>1, PlacesBelow
    <3>3. Skip(page + 1) <= Place(r)
      BY DEF Ahead
    <3>4. Skip(page) \in Nat /\ Skip(page + 1) = Skip(page) + size /\ page * size = Skip(page) + size
      BY <1>1, SkipNext
    <3> DEFINE k == page * size
               s == Skip(page + 1)
    <3>5. k = s /\ k \in Nat /\ ~ (count > k) /\ s <= Place(r)
      BY <1>1, <1>7, <3>3, <3>4
    <3> HIDE DEF k, s
    <3> QED BY <3>2, <3>5
  <2>2. page' = 0
    BY <1>4, <1>7
  <2>3. ~ (page' > 0)
    BY <2>2
  <2> QED BY <1>2, <1>4, <1>5, <2>1, <2>2, <2>3 DEF ListingsInv
<1> QED BY <1>6, <1>7

\* A reader whose reading was not upset gets the page his rows lie behind.
LEMMA QueryPageInv == ASSUME ListingsInv, QueryPage PROVE ListingsInv'
<1>1. /\ ListingsShape /\ page \in Nat \ {0} /\ got = NoRow
      /\ UNCHANGED <<list, size, key, stayed, writes, stir>>
  BY DEF QueryPage, ListingsInv, ListingsShape
<1>2. PICK P \in Pages(page) :
        IF list.count = "within" THEN Answer(P, IF P = {} THEN 0 ELSE Cardinality(Listed))
        ELSE IF total # NoRow THEN Answer(P, total)
        ELSE got' = P /\ UNCHANGED <<page, total, read>>
  BY DEF QueryPage
<1>3. P \in SUBSET Ids /\ P # NoRow /\ Cardinality(Listed) \in Nat
  BY <1>1, PlacesBelow, ListingsAssumption DEF Pages, Listed
<1>4. Listed' = Listed /\ HasTie' = HasTie /\ \A r : Place(r)' = Place(r)
  BY <1>1 DEF Listed, HasTie, Place
<1>5. \A n : Skip(n)' = Skip(n)
  BY <1>1 DEF Skip
<1>6. ListingsShape'
  <2>1. CASE got' = P /\ UNCHANGED <<page, total, read>>
    BY <1>1, <1>3, <1>4, <2>1 DEF ListingsShape
  <2>2. ASSUME NEW count, Answer(P, count) PROVE ListingsShape'
    BY <1>1, <1>3, <1>4, <2>2 DEF ListingsShape, Answer
  <2> QED BY <1>2, <2>1, <2>2
<1>7. CASE stir # {}
  BY <1>1, <1>6, <1>7 DEF ListingsInv
<1>8. CASE stir = {}
  <2>1. /\ ~ HasTie /\ list.order # "none" /\ Ahead(page, read)
        /\ total # NoRow => total = Cardinality(Listed)
    BY <1>1, <1>8 DEF ListingsInv
  <2>2. ASSUME NEW r \in stayed \ (read \cup P) PROVE Skip(page + 1) <= Place(r) /\ P # {}
    <3>1. r \in Listed \ P /\ Skip(page) <= Place(r)
      BY <1>1, <2>1 DEF Ahead, ListingsShape
    <3> QED BY <1>1, <2>1, <3>1, PageHolds
  <2>3. Ahead(page + 1, read \cup P)
    BY <2>2 DEF Ahead
  <2>4. CASE list.count = "within"
    <3> DEFINE count == IF P = {} THEN 0 ELSE Cardinality(Listed)
    <3>1. count \in Nat /\ (count = Cardinality(Listed) \/ stayed \subseteq read \cup P)
      BY <1>3, <2>2
    <3>2. Answer(P, count)
      BY <1>2, <2>4
    <3> HIDE DEF count
    <3> QED BY <1>1, <1>3, <2>1, <2>3, <3>1, <3>2, AnswerInv
  <2>5. CASE list.count # "within" /\ total # NoRow
    BY <1>1, <1>2, <1>3, <2>1, <2>3, <2>5, AnswerInv
  <2>6. CASE list.count # "within" /\ total = NoRow
    <3>1. got' = P /\ UNCHANGED <<page, total, read>>
      BY <1>2, <2>6
    <3>2. Ahead(page, read)' /\ Ahead(page + 1, read \cup got)'
      BY <1>1, <1>4, <1>5, <2>1, <2>3, <3>1 DEF Ahead
    <3> QED BY <1>1, <1>4, <1>6, <2>1, <3>1, <3>2 DEF ListingsInv
  <2> QED BY <2>4, <2>5, <2>6
<1> QED BY <1>7, <1>8

\* The count comes before the rows or after them.
LEMMA QueryCountInv == ASSUME ListingsInv, QueryCount PROVE ListingsInv'
<1>1. /\ ListingsShape /\ page \in Nat \ {0} /\ total = NoRow
      /\ UNCHANGED <<list, size, key, stayed, writes, stir>>
      /\ IF got # NoRow THEN Answer(got, Cardinality(Listed))
         ELSE total' = Cardinality(Listed) /\ UNCHANGED <<page, got, read>>
  BY DEF QueryCount, ListingsInv, ListingsShape
<1>2. Cardinality(Listed) \in Nat
  BY <1>1, PlacesBelow
<1>3. Listed' = Listed /\ HasTie' = HasTie /\ \A r : Place(r)' = Place(r)
  BY <1>1 DEF Listed, HasTie, Place
<1>4. \A n : Skip(n)' = Skip(n)
  BY <1>1 DEF Skip
<1>5. CASE got = NoRow
  <2>1. ListingsShape' /\ (\A n, R : Ahead(n, R)' <=> Ahead(n, R))
    BY <1>1, <1>2, <1>3, <1>4, <1>5 DEF ListingsShape, Ahead
  <2>2. ListingsShape'
    BY <2>1
  <2>3. Ahead(page, read)' <=> Ahead(page, read)
    BY <1>1, <1>3, <1>4, <1>5 DEF Ahead
  <2> QED BY <1>1, <1>3, <1>5, <2>2, <2>3 DEF ListingsInv
<1>6. CASE got # NoRow
  <2>1. got \in SUBSET Ids /\ Answer(got, Cardinality(Listed))
    BY <1>1, <1>6 DEF ListingsShape
  <2>2. CASE stir # {}
    <3>1. ListingsShape'
      BY <1>1, <1>3, <2>1 DEF ListingsShape, Answer
    <3> QED BY <1>1, <2>2, <3>1 DEF ListingsInv
  <2>3. CASE stir = {}
    <3>1. ~ HasTie /\ list.order # "none" /\ Ahead(page + 1, read \cup got)
      BY <1>1, <1>6, <2>3 DEF ListingsInv
    <3> QED BY <1>1, <1>2, <2>1, <3>1, AnswerInv
  <2> QED BY <2>2, <2>3
<1> QED BY <1>5, <1>6

\* A row more pushes others back; what else happens is noted.
LEMMA AddRowInv ==
  ASSUME ListingsInv, NEW r \in Ids, NEW k \in Keys, AddRow(r, k) PROVE ListingsInv'
<1>1. /\ ListingsShape /\ key[r] = NoRow /\ key' = [key EXCEPT ![r] = k] /\ k \in Nat
      /\ UNCHANGED <<list, size, page, got, total, read, stayed>> /\ k # NoRow
      /\ stir' = stir \cup {x \in {"added after the count"} : total # NoRow} \cup {x \in {"tie"} : HasTie'}
  BY ListingsAssumption DEF AddRow, ListingsInv, Upset
<1>2. \A s \in Ids : key'[s] = IF s = r THEN k ELSE key[s]
  BY <1>1 DEF ListingsShape
<1>3. Listed' = Listed \cup {r} /\ r \notin Listed
  <2>1. key[r] = NoRow /\ k # NoRow
    BY <1>1
  <2> QED BY <1>2, <2>1 DEF Listed
<1>4. ListingsShape'
  BY <1>1, <1>3 DEF ListingsShape
<1>5. ASSUME NEW s \in Listed PROVE Place(s) <= Place(s)'
  <2> DEFINE E == {t \in Listed : key[t] > key[s]}
             F == {t \in Listed' : key'[t] > key'[s]}
  <2>1. E \subseteq F
    BY <1>2, <1>3 DEF Listed
  <2>2. IsFiniteSet(Listed')
    BY <1>4, PlacesBelow, ListingsAssumption, FS_Subset DEF Listed
  <2>3. IsFiniteSet(F)
    BY <2>2, FS_Subset
  <2>4. Cardinality(E) <= Cardinality(F)
    BY <2>1, <2>3, FS_Subset
  <2> QED BY <2>4 DEF Place
<1>6. CASE stir' # {}
  BY <1>4, <1>6 DEF ListingsInv
<1>7. CASE stir' = {}
  <2>1. stir = {} /\ total = NoRow /\ ~ HasTie'
    BY <1>1, <1>7
  <2>2. /\ list.order # "none" /\ (page > 0 => Ahead(page, read))
        /\ (page > 0 /\ got # NoRow => Ahead(page + 1, read \cup got))
        /\ (page = 0 => stayed \subseteq read)
    BY <2>1 DEF ListingsInv
  <2>3. ASSUME NEW n \in Nat \ {0}, NEW R, Ahead(n, R)
        PROVE  \A s \in stayed \ R : Skip(n)' <= Place(s)'
    <3> SUFFICES ASSUME NEW s \in stayed \ R PROVE Skip(n)' <= Place(s)'
      OBVIOUS
    <3>1. s \in Listed /\ Skip(n)' = Skip(n) /\ Skip(n) \in Nat
      BY <1>1, SkipNext DEF ListingsShape, Skip
    <3>2. Place(s) \in Nat /\ Place(s)' \in Nat
      <4>1. s \in Listed'
        BY <1>3, <3>1
      <4>2. Place(s)' \in Nat
        <5>1. IsFiniteSet({t \in Listed' : key'[t] > key'[s]})
          BY ListingsAssumption, FS_Subset DEF Listed
        <5> QED BY <5>1, FS_CardinalityType DEF Place
      <4> QED BY <1>1, <3>1, <4>2, PlacesBelow
    <3>3. Skip(n) <= Place(s) /\ Place(s) <= Place(s)'
      BY <1>5, <2>3, <3>1 DEF Ahead
    <3> QED BY <3>1, <3>2, <3>3
  <2>4. page > 0 => Ahead(page, read)'
    <3>1. page \in Nat
      BY <1>1 DEF ListingsShape
    <3> QED BY <1>1, <2>2, <2>3, <3>1 DEF Ahead
  <2>5. page > 0 /\ got # NoRow => Ahead(page + 1, read \cup got)'
    <3>0. page \in Nat
      BY <1>1 DEF ListingsShape
    <3>1. page + 1 \in Nat \ {0}
      BY <3>0
    <3> QED BY <1>1, <2>2, <2>3, <3>1 DEF Ahead
  <2> QED BY <1>1, <1>4, <2>1, <2>2, <2>4, <2>5 DEF ListingsInv
<1> QED BY <1>6, <1>7

\* Rows that leave or move are noted.
LEMMA UpsetInv ==
  ASSUME ListingsInv,
         \/ \E R \in SUBSET Ids : RemoveRows(R)
         \/ \E r \in Ids, k \in Keys : MoveRow(r, k)
  PROVE  ListingsInv'
<1>1. CASE \E R \in SUBSET Ids : RemoveRows(R)
  <2>1. PICK R \in SUBSET Ids : RemoveRows(R)
    BY <1>1
  <2>2. stir' # {} /\ Listed' = Listed \ R
    BY <2>1 DEF RemoveRows, Upset, Listed
  <2> QED BY <2>1, <2>2 DEF RemoveRows, ListingsInv, ListingsShape
<1>2. CASE \E r \in Ids, k \in Keys : MoveRow(r, k)
  <2>1. PICK r \in Ids, k \in Keys : MoveRow(r, k)
    BY <1>2
  <2>2. k \in Nat /\ k # NoRow
    BY ListingsAssumption
  <2>3. stir' # {} /\ Listed' = Listed
    BY <2>1, <2>2 DEF MoveRow, Upset, Listed, ListingsInv, ListingsShape
  <2> QED BY <2>1, <2>2, <2>3 DEF MoveRow, ListingsInv, ListingsShape
<1> QED BY <1>1, <1>2

\* For any list, page size and number of rows, who reads to the last page has read
\* every row that was there all along, unless a row left, moved, tied with another
\* or came between the count and the rows of one page, or the list has no order.
THEOREM NoneMissedTheorem == ListingsSpec => []NoneMissed
<1>1. ListingsInit => ListingsInv
  <2> SUFFICES ASSUME ListingsInit PROVE ListingsInv
    OBVIOUS
  <2>1. ListingsShape /\ page = 1 /\ got = NoRow /\ total = NoRow
    BY ListingsAssumption DEF ListingsInit, ListingsShape, Listed
  <2>2. Skip(1) = 0
    BY <2>1 DEF Skip, ListingsShape
  <2>3. Ahead(1, read)
    BY <2>1, <2>2, PlacesBelow DEF Ahead, ListingsShape
  <2>4. stir = {} => ~ HasTie /\ list.order # "none"
    BY DEF ListingsInit
  <2> QED BY <2>1, <2>3, <2>4 DEF ListingsInv
<1>2. ListingsInv /\ [ListingsNext]_listingsVars => ListingsInv'
  <2> SUFFICES ASSUME ListingsInv, [ListingsNext]_listingsVars PROVE ListingsInv'
    OBVIOUS
  <2>1. CASE UNCHANGED listingsVars
    BY <2>1 DEF listingsVars, ListingsInv, ListingsShape, Ahead, Place, Listed, HasTie, Skip
  <2> QED BY <2>1, QueryPageInv, QueryCountInv, AddRowInv, UpsetInv DEF ListingsNext
<1>3. ListingsInv => NoneMissed
  BY DEF ListingsInv, NoneMissed
<1> QED BY <1>1, <1>2, <1>3, PTL DEF ListingsSpec

-----------------------------------------------------------------------------
(* Messages.  A message is waiting, at work or settled, and each delivery  *)
(* but the last ended with a death; what a consumer has still to send to   *)
(* was sent less often than the message was delivered.                     *)

Jobs == [message : Messages, at : {"start", "send", "receipts"}, left : SUBSET Devices]
AtWork(k) == worker[k] # NoWork

\* Still to be sent to by the consumer of k.
Unsent(k) == IF k = "push" THEN worker[k].left ELSE Devices

JobOK(k) ==
    LET m == worker[k].message IN
    /\ worker[k] \in Jobs /\ QueueOf[m] = k /\ m \notin waiting \cup settled
    /\ \A d \in Unsent(k) : tried[m][d] < delivered[m]
    /\ k = "push" => \A d \in Wellformed(m) \ worker[k].left : tried[m][d] > 0
    /\ worker[k].at = "receipts" => k = "push" /\ worker[k].left = {}

MessagingInv ==
    /\ waiting \subseteq Messages /\ settled \subseteq Messages /\ waiting \cap settled = {}
    /\ worker = [k \in Kinds |-> worker[k]] /\ \A k \in Kinds : AtWork(k) => JobOK(k)
    /\ tried \in [Messages -> [Devices -> Nat]] /\ delivered \in [Messages -> Nat] /\ deaths \in Nat
    /\ \A m \in Messages : delivered[m] <= IF m \in waiting THEN deaths ELSE 1 + deaths
    /\ EachDeviceTried

\* What a try to send to D does to the counts.
LEMMA TryCounts ==
  ASSUME MessagingInv, NEW m \in Messages, NEW D, Try(m, D)
  PROVE  /\ tried' \in [Messages -> [Devices -> Nat]]
         /\ \A n \in Messages, d \in Devices :
              tried'[n][d] = IF n = m /\ d \in D THEN tried[n][d] + 1 ELSE tried[n][d]
<1>1. tried \in [Messages -> [Devices -> Nat]]
  BY DEF MessagingInv
<1> DEFINE u == [d \in Devices |-> IF d \in D THEN tried[m][d] + 1 ELSE tried[m][d]]
<1>2. u \in [Devices -> Nat]
  BY <1>1
<1>3. tried' = [tried EXCEPT ![m] = u]
  BY DEF Try
<1>4. \A d \in Devices : u[d] = IF d \in D THEN tried[m][d] + 1 ELSE tried[m][d]
  OBVIOUS
<1> HIDE DEF u
<1> QED BY <1>1, <1>2, <1>3, <1>4

\* The devices of a message are among all.
LEMMA ListedDevices == \A m \in Messages : To[m] \subseteq Devices /\ Wellformed(m) \subseteq Devices
BY DEF Devices, Wellformed

\* Other consumers do not notice what one does with its message.
LEMMA OthersWork ==
  ASSUME MessagingInv, NEW k \in Kinds, AtWork(k), NEW j \in Kinds \ {k}, AtWork(j)
  PROVE  worker[j].message # worker[k].message
BY DEF MessagingInv, JobOK

LEMMA DeliverInv == ASSUME MessagingInv, NEW m \in Messages, Deliver(m) PROVE MessagingInv'
<1> DEFINE k == QueueOf[m]
           w == [message |-> m, at |-> "start", left |-> IF k = "push" THEN Wellformed(m) ELSE {}]
<1>1. /\ m \in waiting /\ worker[k] = NoWork /\ waiting' = waiting \ {m} /\ k \in Kinds
      /\ delivered' = [delivered EXCEPT ![m] = delivered[m] + 1]
      /\ worker' = [worker EXCEPT ![k] = w]
      /\ UNCHANGED <<tried, settled, access, deaths>>
  BY MessagingAssumption DEF Deliver
<1>2. /\ worker' = [j \in Kinds |-> worker'[j]] /\ worker'[k] = w
      /\ \A j \in Kinds \ {k} : worker'[j] = worker[j]
  BY <1>1 DEF MessagingInv
<1>3. /\ delivered' \in [Messages -> Nat]
      /\ \A n \in Messages : delivered'[n] = IF n = m THEN delivered[n] + 1 ELSE delivered[n]
  BY <1>1 DEF MessagingInv
<1>4. w \in Jobs
  BY ListedDevices DEF Jobs
<1>5. \A n \in Messages : delivered'[n] <= IF n \in waiting' THEN deaths' ELSE 1 + deaths'
  BY <1>1, <1>3 DEF MessagingInv
<1>6. \A d \in Devices : tried[m][d] < delivered'[m]
  BY <1>3 DEF MessagingInv, EachDeviceTried
<1>7. JobOK(k)'
  <2>1. Unsent(k)' \subseteq Devices
    BY <1>2, <1>4 DEF Unsent, Jobs
  <2>2. m \notin waiting' \cup settled'
    BY <1>1 DEF MessagingInv
  <2>3. w.message = m /\ w.at = "start" /\ (k = "push" => w.left = Wellformed(m))
    OBVIOUS
  <2> HIDE DEF w
  <2> QED BY <1>1, <1>2, <1>4, <1>6, <2>1, <2>2, <2>3 DEF JobOK
<1>8. ASSUME NEW j \in Kinds \ {k}, AtWork(j)' PROVE JobOK(j)'
  <2>1. AtWork(j) /\ JobOK(j) /\ worker'[j] = worker[j]
    BY <1>2, <1>8 DEF AtWork, MessagingInv
  <2>2. worker[j].message # m /\ worker[j].message \in Messages
    BY <2>1 DEF JobOK, Jobs
  <2> QED BY <1>1, <1>3, <2>1, <2>2 DEF JobOK, Unsent
<1>9. EachDeviceTried'
  <2>1. \A n \in Messages : \A d \in Devices : tried'[n][d] <= delivered'[n]
    <3> SUFFICES ASSUME NEW n \in Messages, NEW d \in Devices PROVE tried'[n][d] <= delivered'[n]
      OBVIOUS
    <3>1. tried[n][d] \in Nat /\ delivered[n] \in Nat /\ tried[n][d] <= delivered[n]
      BY DEF MessagingInv, EachDeviceTried
    <3> QED BY <1>1, <1>3, <3>1
  <2>2. \A n \in Messages : delivered'[n] <= 1 + deaths'
    BY <1>1, <1>3, <1>5 DEF MessagingInv
  <2> QED BY <1>1, <2>1, <2>2 DEF MessagingInv, EachDeviceTried
<1> QED BY <1>1, <1>2, <1>3, <1>5, <1>7, <1>8, <1>9 DEF MessagingInv, AtWork

\* A consumer that tries D, of what it has still to send to, and goes on or ends.
LEMMA WorkInv ==
  ASSUME MessagingInv, NEW k \in Kinds, AtWork(k), NEW D \in SUBSET Unsent(k),
         \/ Try(worker[k].message, D)
         \/ D = {} /\ tried' = tried,
         NEW w, worker' = [worker EXCEPT ![k] = w],
         UNCHANGED <<waiting, delivered, deaths>>,
         \/ /\ w \in Jobs /\ w.message = worker[k].message /\ settled' = settled
            /\ k = "push" => w.left = worker[k].left \ D
            /\ k # "push" => D = {}
            /\ w.at = "receipts" => k = "push" /\ w.left = {}
         \/ /\ w = NoWork /\ settled' = settled \cup {worker[k].message}
            /\ k = "push" => worker[k].left \subseteq D
  PROVE  MessagingInv'
<1> DEFINE m == worker[k].message
<1>1. JobOK(k) /\ m \in Messages /\ m \notin waiting \cup settled /\ QueueOf[m] = k /\ D \subseteq Devices
  BY DEF MessagingInv, JobOK, Jobs, Unsent
<1>2. /\ tried' \in [Messages -> [Devices -> Nat]]
      /\ \A n \in Messages, d \in Devices :
           tried'[n][d] = IF n = m /\ d \in D THEN tried[n][d] + 1 ELSE tried[n][d]
  BY <1>1, TryCounts DEF MessagingInv
<1>3. /\ worker' = [j \in Kinds |-> worker'[j]] /\ worker'[k] = w
      /\ \A j \in Kinds \ {k} : worker'[j] = worker[j]
  BY DEF MessagingInv
<1>4. ASSUME NEW j \in Kinds \ {k}, AtWork(j)' PROVE JobOK(j)'
  <2>1. AtWork(j) /\ JobOK(j) /\ worker'[j] = worker[j]
    BY <1>3, <1>4 DEF AtWork, MessagingInv
  <2>2. worker[j].message # m /\ worker[j].message \in Messages
    BY <2>1, OthersWork DEF JobOK, Jobs
  <2>3. worker[j].message \notin settled'
    BY <2>1, <2>2 DEF JobOK
  <2>4. \A d \in Devices : tried'[worker[j].message][d] = tried[worker[j].message][d]
    BY <1>2, <2>2
  <2>5. Unsent(j) \subseteq Devices /\ Wellformed(worker[j].message) \subseteq Devices
    BY <2>1, <2>2, ListedDevices DEF JobOK, Jobs, Unsent
  <2> QED BY <2>1, <2>3, <2>4, <2>5 DEF JobOK, Unsent
<1>5. ASSUME NEW n \in Messages, NEW d \in Devices PROVE tried'[n][d] <= delivered[n]
  <2>1. tried[n][d] \in Nat /\ delivered[n] \in Nat /\ tried[n][d] <= delivered[n]
    BY DEF MessagingInv, EachDeviceTried
  <2>2. n = m /\ d \in D => tried[n][d] < delivered[n]
    BY <1>1 DEF JobOK
  <2> QED BY <1>2, <2>1, <2>2
<1>6. ASSUME NEW n \in Messages, NEW d \in Devices
      PROVE  /\ tried[n][d] > 0 => tried'[n][d] > 0
             /\ n = m /\ d \in D => tried'[n][d] > 0
  <2>1. tried[n][d] \in Nat
    BY DEF MessagingInv
  <2> QED BY <1>2, <2>1
<1>7. CASE /\ w \in Jobs /\ w.message = worker[k].message /\ settled' = settled
           /\ k = "push" => w.left = worker[k].left \ D
           /\ k # "push" => D = {}
           /\ w.at = "receipts" => k = "push" /\ w.left = {}
  <2>1. \A d \in Unsent(k)' : tried'[m][d] < delivered[m]
    <3> SUFFICES ASSUME NEW d \in Unsent(k)' PROVE tried'[m][d] < delivered[m]
      OBVIOUS
    <3>1. d \in Unsent(k) \ D /\ d \in Devices
      BY <1>1, <1>3, <1>7 DEF Unsent, JobOK, Jobs
    <3> QED BY <1>1, <1>2, <3>1 DEF JobOK
  <2>2. k = "push" => \A d \in Wellformed(m) \ w.left : tried'[m][d] > 0
    <3> SUFFICES ASSUME k = "push", NEW d \in Wellformed(m) \ w.left PROVE tried'[m][d] > 0
      OBVIOUS
    <3>1. d \in Devices /\ (d \in D \/ d \notin worker[k].left)
      BY <1>1, <1>7, ListedDevices
    <3>2. d \notin worker[k].left => tried[m][d] > 0
      BY <1>1 DEF JobOK
    <3> QED BY <1>1, <1>6, <3>1, <3>2
  <2>3. JobOK(k)'
    BY <1>1, <1>3, <1>7, <2>1, <2>2 DEF JobOK
  <2>4. EachDeviceTried'
    <3>1. \A n \in Messages : n \in settled /\ QueueOf[n] = "push"
            => \A d \in Wellformed(n) : tried'[n][d] > 0
      BY <1>6, ListedDevices DEF MessagingInv, EachDeviceTried
    <3> QED BY <1>5, <1>7, <3>1 DEF MessagingInv, EachDeviceTried
  <2> QED BY <1>2, <1>3, <1>4, <1>7, <2>3, <2>4 DEF MessagingInv, AtWork
<1>8. CASE /\ w = NoWork /\ settled' = settled \cup {worker[k].message}
           /\ k = "push" => worker[k].left \subseteq D
  <2>1. ~ AtWork(k)'
    BY <1>3, <1>8 DEF AtWork
  <2>2. ASSUME NEW n \in Messages, n \in settled', QueueOf[n] = "push", NEW d \in Wellformed(n)
        PROVE  tried'[n][d] > 0
    <3>1. d \in Devices
      BY ListedDevices
    <3>2. CASE n \in settled
      BY <1>6, <2>2, <3>1, <3>2 DEF MessagingInv, EachDeviceTried
    <3>3. CASE n = m
      <4>1. k = "push" /\ (d \in D \/ d \notin worker[k].left)
        BY <1>1, <1>8, <2>2, <3>3
      <4>2. d \notin worker[k].left => tried[m][d] > 0
        BY <1>1, <2>2, <3>3, <4>1 DEF JobOK
      <4> QED BY <1>6, <3>1, <3>3, <4>1, <4>2
    <3> QED BY <1>8, <2>2, <3>2, <3>3
  <2>3. EachDeviceTried'
    BY <1>5, <2>2 DEF MessagingInv, EachDeviceTried
  <2>4. settled' \subseteq Messages /\ waiting' \cap settled' = {}
    BY <1>1, <1>8 DEF MessagingInv
  <2> QED BY <1>2, <1>3, <1>4, <1>8, <2>1, <2>3, <2>4 DEF MessagingInv, AtWork
<1> QED BY <1>7, <1>8

\* A consumer that goes on to its next step, or acknowledges.
LEMMA StepInv ==
  ASSUME MessagingInv, NEW k \in Kinds, AtWork(k), NEW D \in SUBSET Unsent(k),
         \/ Try(Message(k), D)
         \/ D = {} /\ tried' = tried,
         UNCHANGED <<waiting, delivered, deaths>>,
         k = "push" => worker[k].left = {},
         \/ Acknowledge(k)
         \/ /\ D = {} /\ UNCHANGED settled
            /\ \E step \in {"send", "receipts"} : WorkGoes(k, step) /\ (step = "receipts" => k = "push")
  PROVE  MessagingInv'
<1>1. JobOK(k) /\ worker[k] \in Jobs
  BY DEF MessagingInv, JobOK
<1>2. CASE Acknowledge(k)
  <2>1. worker' = [worker EXCEPT ![k] = NoWork] /\ settled' = settled \cup {worker[k].message}
    BY <1>2 DEF Acknowledge, Message
  <2>2. Try(worker[k].message, D) \/ (D = {} /\ tried' = tried)
    BY DEF Message
  <2>3. k = "push" => worker[k].left \subseteq D
    OBVIOUS
  <2> QED BY <2>1, <2>2, <2>3, WorkInv
<1>3. CASE /\ D = {} /\ UNCHANGED settled
           /\ \E step \in {"send", "receipts"} : WorkGoes(k, step) /\ (step = "receipts" => k = "push")
  <2>1. PICK step \in {"send", "receipts"} : WorkGoes(k, step) /\ (step = "receipts" => k = "push")
    BY <1>3
  <2> DEFINE w == [message |-> worker[k].message, at |-> step, left |-> worker[k].left]
  <2>2. worker' = [worker EXCEPT ![k] = w]
    BY <2>1 DEF WorkGoes, Message
  <2>3. /\ w \in Jobs /\ w.message = worker[k].message /\ w.left = worker[k].left
        /\ w.at = step
    BY <1>1, <2>1 DEF Jobs
  <2>4. Try(worker[k].message, D) \/ (D = {} /\ tried' = tried)
    BY DEF Message
  <2>5. /\ k = "push" => w.left = worker[k].left \ D
        /\ k # "push" => D = {}
        /\ w.at = "receipts" => k = "push" /\ w.left = {}
    BY <1>3, <2>1, <2>3
  <2>6. settled' = settled
    BY <1>3
  <2> HIDE DEF w
  <2> QED BY <2>2, <2>3, <2>4, <2>5, <2>6, WorkInv
<1> QED BY <1>2, <1>3

LEMMA SendChunkInv == ASSUME MessagingInv, SendChunk PROVE MessagingInv'
<1> DEFINE k == "push"
<1>1. /\ Working(k, "start") /\ AtWork(k) /\ k \in Kinds
      /\ UNCHANGED <<waiting, delivered, settled, deaths>>
  BY DEF SendChunk, Working, AtWork, Kinds
<1>2. PICK chunk \in Chunks(worker[k].left), failed \in BOOLEAN :
        /\ Try(Message(k), chunk)
        /\ worker' = [worker EXCEPT ![k].left = Remaining(worker[k].left, chunk, failed)]
  BY DEF SendChunk
<1>3. JobOK(k) /\ worker[k] \in Jobs /\ worker[k].at = "start"
  BY <1>1 DEF MessagingInv, JobOK, Working
<1>4. chunk \in SUBSET worker[k].left /\ chunk \in SUBSET Unsent(k)
  BY <1>2 DEF Chunks, Unsent
<1> DEFINE w == [worker[k] EXCEPT !.left = worker[k].left \ chunk]
<1>5. worker' = [worker EXCEPT ![k] = w]
  BY <1>2 DEF Remaining
<1>6. w \in Jobs /\ w.message = worker[k].message /\ w.left = worker[k].left \ chunk /\ w.at = "start"
  BY <1>3, <1>4 DEF Jobs
<1>7. Try(worker[k].message, chunk)
  BY <1>2 DEF Message
<1>8. w.at # "receipts" /\ k \in Kinds /\ AtWork(k) /\ settled' = settled
  BY <1>1, <1>6
<1> HIDE DEF w
<1> QED BY <1>1, <1>4, <1>5, <1>6, <1>7, <1>8, WorkInv

LEMMA EndChunksInv == ASSUME MessagingInv, EndChunks PROVE MessagingInv'
<1> DEFINE k == "push"
<1>1. /\ AtWork(k) /\ k \in Kinds /\ worker[k].left = {}
      /\ UNCHANGED <<waiting, delivered, tried, deaths>>
  BY DEF EndChunks, Working, AtWork, Kinds
<1>2. Acknowledge(k) \/ (WorkGoes(k, "receipts") /\ UNCHANGED settled)
  BY DEF EndChunks
<1>3. {} \in SUBSET Unsent(k)
  OBVIOUS
<1> QED BY <1>1, <1>2, <1>3, StepInv

LEMMA FetchReceiptsInv == ASSUME MessagingInv, FetchReceipts PROVE MessagingInv'
<1> DEFINE k == "push"
<1>1. /\ AtWork(k) /\ k \in Kinds /\ worker[k].at = "receipts"
      /\ UNCHANGED <<waiting, delivered, tried, deaths>> /\ Acknowledge(k)
  BY DEF FetchReceipts, Working, AtWork, Kinds
<1>2. worker[k].left = {}
  BY <1>1 DEF MessagingInv, JobOK
<1>3. {} \in SUBSET Unsent(k)
  OBVIOUS
<1> QED BY <1>1, <1>2, <1>3, StepInv

\* The consumers that send at one stroke: in-app, mail and text.
LEMMA SendAllInv ==
  ASSUME MessagingInv, NEW k \in Kinds \ {"push"}, AtWork(k),
         NEW D, D = {} \/ D = To[Message(k)], Try(Message(k), D), Acknowledge(k),
         UNCHANGED <<waiting, delivered, deaths>>
  PROVE  MessagingInv'
<1>1. Message(k) \in Messages
  BY DEF MessagingInv, JobOK, Jobs, Message
<1>2. D \in SUBSET Unsent(k) /\ k # "push"
  BY <1>1, ListedDevices DEF Unsent
<1> QED BY <1>2, StepInv

LEMMA CreateInAppInv == ASSUME MessagingInv, CreateInApp PROVE MessagingInv'
<1> DEFINE k == "in-app"
<1>1. /\ AtWork(k) /\ k \in Kinds \ {"push"} /\ Acknowledge(k)
      /\ UNCHANGED <<waiting, delivered, deaths>>
  BY DEF CreateInApp, Working, AtWork, Kinds
<1>2. PICK D \in {{}, To[Message(k)]} : Try(Message(k), D)
  BY DEF CreateInApp
<1> QED BY <1>1, <1>2, SendAllInv

LEMMA FindTemplateInv == ASSUME MessagingInv, FindTemplate PROVE MessagingInv'
<1> DEFINE k == "mail"
<1>1. /\ AtWork(k) /\ k \in Kinds /\ k # "push"
      /\ UNCHANGED <<waiting, delivered, tried, deaths>>
  BY DEF FindTemplate, Working, AtWork, Kinds
<1>2. Acknowledge(k) \/ (WorkGoes(k, "send") /\ UNCHANGED settled)
  BY DEF FindTemplate
<1>3. {} \in SUBSET Unsent(k)
  OBVIOUS
<1> QED BY <1>1, <1>2, <1>3, StepInv

LEMMA SendMailInv == ASSUME MessagingInv, SendMail PROVE MessagingInv'
<1> DEFINE k == "mail"
<1>1. /\ AtWork(k) /\ k \in Kinds \ {"push"} /\ Acknowledge(k) /\ Try(Message(k), To[Message(k)])
      /\ UNCHANGED <<waiting, delivered, deaths>>
  BY DEF SendMail, Working, AtWork, Kinds
<1> QED BY <1>1, SendAllInv

LEMMA GetAccessInv == ASSUME MessagingInv, GetAccess PROVE MessagingInv'
<1> DEFINE k == "text"
<1>1. /\ AtWork(k) /\ k \in Kinds /\ k # "push"
      /\ UNCHANGED <<waiting, delivered, tried, deaths>>
  BY DEF GetAccess, Working, AtWork, Kinds
<1>2. Acknowledge(k) \/ (WorkGoes(k, "send") /\ UNCHANGED settled)
  BY DEF GetAccess
<1>3. {} \in SUBSET Unsent(k)
  OBVIOUS
<1> QED BY <1>1, <1>2, <1>3, StepInv

LEMMA SendTextInv == ASSUME MessagingInv, SendText PROVE MessagingInv'
<1> DEFINE k == "text"
<1>1. /\ AtWork(k) /\ k \in Kinds \ {"push"} /\ Acknowledge(k) /\ Try(Message(k), To[Message(k)])
      /\ UNCHANGED <<waiting, delivered, deaths>>
  BY DEF SendText, Working, AtWork, Kinds
<1> QED BY <1>1, SendAllInv

\* What no handler looks at: the invariant does not depend on it.
LEMMA MessagingFrame ==
  ASSUME MessagingInv, UNCHANGED <<waiting, worker, delivered, tried, settled, deaths>>
  PROVE  MessagingInv'
BY DEF MessagingInv, AtWork, JobOK, Unsent, EachDeviceTried

\* The messages at work wait again.
LEMMA ServiceDiesInv == ASSUME MessagingInv, ServiceDies PROVE MessagingInv'
<1>1. /\ deaths' = deaths + 1 /\ worker' = [k \in Kinds |-> NoWork]
      /\ waiting' = waiting \cup {Message(k) : k \in {k \in Kinds : worker[k] # NoWork}}
      /\ UNCHANGED <<delivered, tried, settled>>
  BY DEF ServiceDies
<1>2. \A k \in Kinds : ~ AtWork(k)'
  BY <1>1 DEF AtWork
<1>3. \A m \in {Message(k) : k \in {k \in Kinds : worker[k] # NoWork}} : m \in Messages /\ m \notin settled
  BY DEF MessagingInv, AtWork, JobOK, Jobs, Message
<1>4. waiting' \subseteq Messages /\ waiting' \cap settled' = {}
  BY <1>1, <1>3 DEF MessagingInv
<1>5. deaths' \in Nat /\ deaths' = deaths + 1
  BY <1>1 DEF MessagingInv
<1>6. ASSUME NEW m \in Messages
      PROVE  delivered'[m] <= (IF m \in waiting' THEN deaths' ELSE 1 + deaths') /\ delivered'[m] <= 1 + deaths'
  BY <1>1, <1>5 DEF MessagingInv, EachDeviceTried
<1>7. EachDeviceTried'
  BY <1>1, <1>6 DEF MessagingInv, EachDeviceTried
<1> QED BY <1>1, <1>2, <1>4, <1>5, <1>6, <1>7 DEF MessagingInv

LEMMA MessagingInitInv == MessagingInit => MessagingInv
BY DEF MessagingInit, MessagingInv, EachDeviceTried, AtWork

(* A push that was handled was tried with every well-formed device listed, *)
(* whatever chunk failed before; and no message is sent to anybody more    *)
(* often than it was delivered, which is once and once more for each death *)
(* of the service: for any messages, devices and size of the chunks.       *)
THEOREM EachDeviceTriedTheorem == MessagingSpec => []EachDeviceTried
<1>1. MessagingInit => MessagingInv
  BY MessagingInitInv
<1>2. MessagingInv /\ [MessagingNext]_messagingVars => MessagingInv'
  <2> SUFFICES ASSUME MessagingInv, [MessagingNext]_messagingVars PROVE MessagingInv'
    OBVIOUS
  <2>1. CASE \E m \in Messages : Deliver(m)
    BY <2>1, DeliverInv
  <2>2. CASE SendChunk \/ EndChunks \/ FetchReceipts
    BY <2>2, SendChunkInv, EndChunksInv, FetchReceiptsInv
  <2>3. CASE CreateInApp \/ FindTemplate \/ SendMail
    BY <2>3, CreateInAppInv, FindTemplateInv, SendMailInv
  <2>4. CASE GetAccess \/ SendText
    BY <2>4, GetAccessInv, SendTextInv
  <2>5. CASE AccessExpires \/ AccessRevoked
    BY <2>5, MessagingFrame DEF AccessExpires, AccessRevoked
  <2>6. CASE ServiceDies
    BY <2>6, ServiceDiesInv
  <2>7. CASE UNCHANGED messagingVars
    BY <2>7, MessagingFrame DEF messagingVars
  <2> QED BY <2>1, <2>2, <2>3, <2>4, <2>5, <2>6, <2>7 DEF MessagingNext
<1>3. MessagingInv => EachDeviceTried
  BY DEF MessagingInv
<1> QED BY <1>1, <1>2, <1>3, PTL DEF MessagingSpec

-----------------------------------------------------------------------------
(* Prompts.  What was answered has its viewing recorded, still to be       *)
(* recorded, or slipped.                                                   *)
PromptsInv ==
    /\ viewed \in [Modals -> Nat \cup {NoOne}] /\ tick \in Nat
    /\ \A d \in duties : d.task = "record" => \E m \in Modals : d = Record(m)
    /\ shown \subseteq Modals
    /\ \A m \in shown : viewed[m] # NoOne \/ Record(m) \in duties \/ m \in slipped

\* Of finitely many modals one is the newest.
LEMMA NewestOf ==
  ASSUME NEW S, S \subseteq Modals, S # {}
  PROVE  Newest(S) \in S
<1>1. S \subseteq Nat /\ IsFiniteSet(S)
  BY PromptsAssumption, FS_Subset
<1>2. \E n \in S : \A m \in S : m <= n
  <2> SUFFICES ASSUME \A n \in S : \E m \in S : n < m PROVE FALSE
    BY <1>1
  <2> DEFINE above(n) == {m \in S : n < m}
             T == {above(n) : n \in S}
  <2>1. T \subseteq FiniteSubsetsOf(Nat) /\ T # {}
    <3>1. \A n \in S : IsFiniteSet(above(n)) /\ above(n) \subseteq Nat
      BY <1>1, FS_Subset
    <3> QED BY <3>1 DEF FiniteSubsetsOf
  <2> HIDE DEF T
  <2>2. \E x \in T : \A y \in T : <<y, x>> \notin StrictSubsetOrdering(Nat)
    BY <2>1, FS_StrictSubsetOrderingWellFounded, WFMin
  <2>3. PICK n \in S : \A k \in S : <<above(k), above(n)>> \notin StrictSubsetOrdering(Nat)
    BY <2>2 DEF T
  <2>4. PICK k \in S : n < k
    OBVIOUS
  <2>5. above(k) \subseteq above(n)
    <3> SUFFICES ASSUME NEW m \in S, k < m PROVE n < m
      OBVIOUS
    <3> QED BY <1>1, <2>4, n \in Nat, k \in Nat, m \in Nat
  <2>6. k \in above(n) /\ k \notin above(k)
    BY <1>1, <2>4
  <2>7. above(k) \subseteq Nat /\ above(n) \subseteq Nat /\ above(k) # above(n)
    BY <1>1, <2>6
  <2> QED BY <2>3, <2>5, <2>7 DEF StrictSubsetOrdering
<1> QED BY <1>2 DEF Newest

\* The duties of different tasks are different.
LEMMA DutyOf ==
  /\ \A m, n : Record(m) = Record(n) => m = n
  /\ \A m, b : Record(m) # Save(b)
  /\ \A m : Record(m).task = "record" /\ Record(m).modal = m
  /\ \A b : Save(b).task = "save" /\ Save(b).build = b
<1>1. \A m : Record(m).task = "record" /\ Record(m).modal = m
  BY DEF Record
<1>2. \A b : Save(b).task = "save" /\ Save(b).build = b
  BY DEF Save
<1>3. "record" # "save"
  OBVIOUS
<1> QED BY <1>1, <1>2, <1>3

\* What a home request may answer: an update that is not recent, or unseen news.
LEMMA UpdateToShow ==
  ASSUME PromptsInv, NEW b, UpdateFor(b) # NoOne
  PROVE  /\ UpdateFor(b) \in Modals
         /\ modal[UpdateFor(b)].mode = "new_app_version" /\ ~ Recent(UpdateFor(b))
<1> DEFINE S == {m \in Active("new_app_version") : modal[m].target > b /\ ~Recent(m)}
<1>1. UpdateFor(b) = Newest(S) /\ S \subseteq Modals
  BY DEF UpdateFor, Active
<1>2. S # {}
  BY <1>1 DEF Newest
<1>3. UpdateFor(b) \in S
  BY <1>1, <1>2, NewestOf
<1> QED BY <1>1, <1>3 DEF Active

LEMMA NewsToShow ==
  ASSUME PromptsInv, NEW b, NewsFor(b) # NoOne
  PROVE  NewsFor(b) \in Modals /\ viewed[NewsFor(b)] = NoOne
<1> DEFINE S == {m \in Active("whats_new") : modal[m].target = b /\ viewed[m] = NoOne}
<1>1. NewsFor(b) = Newest(S) /\ S \subseteq Modals
  BY DEF NewsFor, Active
<1>2. S # {}
  BY <1>1 DEF Newest
<1>3. NewsFor(b) \in S
  BY <1>1, <1>2, NewestOf
<1> QED BY <1>1, <1>3

\* A request that answers, m afresh or nothing that is recorded.
LEMMA AnswerHomeInv ==
  ASSUME PromptsInv, UNCHANGED <<viewed, tick>>,
         \/ \E m \in Modals, b \in {home[x].build : x \in Homes} :
                Fresh(m) /\ duties' = duties \cup {Record(m), Save(b)}
         \/ \E b \in {home[x].build : x \in Homes} :
                duties' = duties \cup {Save(b)} /\ UNCHANGED <<shown, slipped>>
         \/ UNCHANGED <<duties, shown, slipped>>
  PROVE  PromptsInv'
<1>1. "record" # "save"
  OBVIOUS
<1>2. duties \subseteq duties' /\ slipped \subseteq slipped'
  BY DEF Fresh
<1>3. \A d \in duties' : d.task = "record" => \E m \in Modals : d = Record(m)
  BY <1>1, DutyOf DEF PromptsInv
<1>4. shown' \subseteq Modals /\ \A m \in shown' \ shown : Record(m) \in duties'
  BY DEF PromptsInv, Fresh
<1> QED BY <1>2, <1>3, <1>4 DEF PromptsInv

LEMMA FindUpdateInv == ASSUME PromptsInv, NEW x \in Homes, FindUpdate(x) PROVE PromptsInv'
<1> DEFINE b == home[x].build
           m == UpdateFor(b)
<1>1. UNCHANGED <<viewed, tick>>
  BY DEF FindUpdate
<1>2. CASE m # NoOne
  <2>1. m \in Modals /\ Fresh(m) /\ duties' = duties \cup {Record(m), Save(b)}
    BY <1>2, UpdateToShow DEF FindUpdate
  <2> QED BY <1>1, <2>1, AnswerHomeInv
<1>3. CASE m = NoOne /\ other
  <2>1. duties' = duties \cup {Save(b)} /\ UNCHANGED <<shown, slipped>>
    BY <1>3 DEF FindUpdate
  <2> QED BY <1>1, <2>1, AnswerHomeInv
<1>4. CASE m = NoOne /\ ~ other
  BY <1>1, <1>4, AnswerHomeInv DEF FindUpdate
<1> QED BY <1>2, <1>3, <1>4

LEMMA FindNewsInv == ASSUME PromptsInv, NEW x \in Homes, FindNews(x) PROVE PromptsInv'
<1> DEFINE b == home[x].build
           m == NewsFor(b)
<1>1. UNCHANGED <<viewed, tick>>
  BY DEF FindNews
<1>2. CASE m # NoOne
  <2>1. m \in Modals /\ Fresh(m) /\ duties' = duties \cup {Record(m), Save(b)}
    BY <1>2, NewsToShow DEF FindNews
  <2> QED BY <1>1, <2>1, AnswerHomeInv
<1>3. CASE m = NoOne
  <2>1. duties' = duties \cup {Save(b)} /\ UNCHANGED <<shown, slipped>>
    BY <1>3 DEF FindNews
  <2> QED BY <1>1, <2>1, AnswerHomeInv
<1> QED BY <1>2, <1>3

\* A viewing is recorded, or its record lost.
LEMMA RecordViewedInv == ASSUME PromptsInv, NEW d \in duties, RecordViewed(d) PROVE PromptsInv'
<1>1. /\ d.task = "record" /\ duties' = duties \ {d} /\ UNCHANGED <<shown, tick>>
      /\ \/ /\ viewed' = IF viewed[d.modal] = NoOne THEN [viewed EXCEPT ![d.modal] = tick] ELSE viewed
            /\ UNCHANGED slipped
         \/ slipped' = slipped \cup {d.modal} /\ UNCHANGED viewed
  BY DEF RecordViewed
<1>3. PICK n \in Modals : d = Record(n) /\ d.modal = n
  BY <1>1, DutyOf DEF PromptsInv
<1>4. tick # NoOne
  BY PromptsAssumption DEF PromptsInv
<1>5. viewed' \in [Modals -> Nat \cup {NoOne}]
  BY <1>1, <1>3 DEF PromptsInv
<1>6. ASSUME NEW m \in shown' PROVE viewed'[m] # NoOne \/ Record(m) \in duties' \/ m \in slipped'
  <2>1. m \in Modals /\ m \in shown
    BY <1>1, <1>6 DEF PromptsInv
  <2>2. CASE m = n
    BY <1>1, <1>3, <1>4, <2>1, <2>2 DEF PromptsInv
  <2>3. CASE m # n
    <3>1. Record(m) # d
      BY <1>3, <2>3, DutyOf
    <3>2. viewed'[m] = viewed[m] /\ slipped \subseteq slipped'
      BY <1>1, <1>3, <2>1, <2>3 DEF PromptsInv
    <3> QED BY <1>1, <2>1, <3>1, <3>2 DEF PromptsInv
  <2> QED BY <2>2, <2>3
<1> QED BY <1>1, <1>5, <1>6 DEF PromptsInv

\* The app reports that he has seen it.
LEMMA RegisterInteractionInv ==
  ASSUME PromptsInv, NEW m \in Modals, NEW action, RegisterInteraction(m, action) PROVE PromptsInv'
<1>1. viewed' = viewed \/ viewed' = [viewed EXCEPT ![m] = tick]
  BY DEF RegisterInteraction
<1>2. UNCHANGED <<duties, shown, slipped, tick>>
  BY DEF RegisterInteraction
<1>3. tick # NoOne
  BY PromptsAssumption DEF PromptsInv
<1>4. viewed' \in [Modals -> Nat \cup {NoOne}]
  BY <1>1 DEF PromptsInv
<1>5. \A n \in Modals : viewed'[n] = NoOne => viewed[n] = NoOne
  BY <1>1, <1>3 DEF PromptsInv
<1> QED BY <1>2, <1>4, <1>5 DEF PromptsInv

\* What leaves the viewings, the duties and the requests alone.
LEMMA PromptsFrame ==
  ASSUME PromptsInv, UNCHANGED <<viewed, shown, slipped>>, tick' \in Nat,
         \/ UNCHANGED duties
         \/ \E d \in duties : d.task = "save" /\ duties' = duties \ {d}
  PROVE  PromptsInv'
<1>1. duties' \subseteq duties
  OBVIOUS
<1>2. "record" # "save"
  OBVIOUS
<1>3. \A m : Record(m) \in duties => Record(m) \in duties'
  BY <1>2, DutyOf
<1> QED BY <1>1, <1>3 DEF PromptsInv

LEMMA PromptsStep == ASSUME PromptsInv, [PromptsNext]_promptsVars PROVE PromptsInv'
<1>1. CASE \E m \in Modals, mode \in Modes, b \in Builds : CreateModal(m, mode, b)
  BY <1>1, PromptsFrame DEF CreateModal, PromptsInv
<1>2. CASE \E m \in Modals, isActive \in BOOLEAN : ToggleModal(m, isActive)
  BY <1>2, PromptsFrame DEF ToggleModal, PromptsInv
<1>3. CASE \E x \in Homes : OpenHome(x) \/ FindUpdate(x) \/ FindNews(x)
  <2>1. ASSUME NEW x \in Homes, OpenHome(x) PROVE PromptsInv'
    BY <2>1, AnswerHomeInv DEF OpenHome
  <2> QED BY <1>3, <2>1, FindUpdateInv, FindNewsInv
<1>4. CASE \E d \in duties : RecordViewed(d) \/ SaveCache(d)
  <2>1. ASSUME NEW d \in duties, SaveCache(d) PROVE PromptsInv'
    BY <2>1, PromptsFrame DEF SaveCache, PromptsInv
  <2> QED BY <1>4, <2>1, RecordViewedInv
<1>5. CASE \E m \in Modals, action \in {"viewed", "primary_clicked"} : RegisterInteraction(m, action)
  BY <1>5, RegisterInteractionInv
<1>6. CASE \E b \in Builds : InstallBuild(b)
  BY <1>6, PromptsFrame DEF InstallBuild, PromptsInv
<1>7. CASE TurnOther
  BY <1>7, PromptsFrame DEF TurnOther, PromptsInv
<1>8. CASE Elapse
  BY <1>8, PromptsFrame DEF Elapse, PromptsInv
<1>9. CASE UNCHANGED promptsVars
  BY <1>9, PromptsFrame DEF promptsVars, PromptsInv
<1> QED BY <1>1, <1>2, <1>3, <1>4, <1>5, <1>6, <1>7, <1>8, <1>9 DEF PromptsNext

\* A record is newly due only for what is answered at this step.
LEMMA RecordedIsAnswered ==
  ASSUME PromptsInv, PromptsNext, NEW m \in shown \ slipped, Record(m) \in duties' \ duties
  PROVE  /\ modal[m].mode = "new_app_version"
         /\ viewed[m] # NoOne /\ tick - viewed[m] > Day
<1>1. viewed[m] # NoOne /\ viewed[m] \in Nat /\ tick \in Nat /\ Day \in Nat
  BY PromptsAssumption DEF PromptsInv
<1>2. PICK x \in Homes : FindUpdate(x) \/ FindNews(x)
  BY DEF PromptsNext, CreateModal, ToggleModal, OpenHome, RecordViewed, SaveCache,
         RegisterInteraction, InstallBuild, TurnOther, Elapse
<1> DEFINE b == home[x].build
<1>3. CASE FindUpdate(x)
  <2>1. \/ UpdateFor(b) # NoOne /\ duties' = duties \cup {Record(UpdateFor(b)), Save(b)}
        \/ duties' \subseteq duties \cup {Save(b)}
    BY <1>3 DEF FindUpdate
  <2>2. UpdateFor(b) # NoOne /\ m = UpdateFor(b)
    BY <2>1, DutyOf
  <2>3. modal[m].mode = "new_app_version" /\ ~ Recent(m)
    BY <2>2, UpdateToShow
  <2>4. ~ (tick - viewed[m] <= Day)
    BY <1>1, <2>3 DEF Recent
  <2> QED BY <1>1, <2>3, <2>4
<1>4. CASE FindNews(x)
  <2>1. \/ NewsFor(b) # NoOne /\ duties' = duties \cup {Record(NewsFor(b)), Save(b)}
        \/ duties' = duties \cup {Save(b)}
    BY <1>4 DEF FindNews
  <2>2. NewsFor(b) # NoOne /\ m = NewsFor(b)
    BY <2>1, DutyOf
  <2> QED BY <1>1, <2>2, NewsToShow
<1> QED BY <1>2, <1>3, <1>4

(* News is answered once, and an update not within the day that follows    *)
(* its viewing, unless the record behind the response failed or another    *)
(* request was faster than it: for any modals, builds and requests at once.*)
THEOREM ModalRestsTheorem == PromptsSpec => ModalRests
<1>1. PromptsInit => PromptsInv
  BY DEF PromptsInit, PromptsInv
<1>2. PromptsInv /\ [PromptsNext]_promptsVars => PromptsInv'
  BY PromptsStep
<1>3. PromptsInv /\ [PromptsNext]_promptsVars
        => [\A m \in shown \ slipped : Record(m) \in duties' \ duties =>
                /\ modal[m].mode = "new_app_version"
                /\ viewed[m] # NoOne /\ tick - viewed[m] > Day]_promptsVars
  BY RecordedIsAnswered DEF promptsVars
<1> QED BY <1>1, <1>2, <1>3, PTL DEF PromptsSpec, ModalRests

-----------------------------------------------------------------------------
(* The catalogue.  A request holds what it may rely on: values computed    *)
(* from its items, the items still in the combo unless another update      *)
(* overlapped, and in since every booking that a removal has not seen.     *)

\* Prices and lengths that follow from the modes.
ValuesOK(v) ==
    /\ v.pricing \in Pricings /\ Computable(v, v.base)
    /\ v.final = FinalOf(v, v.base)

ComboOK(c) ==
    LET r == combo[c] IN
    /\ r = Row(r, r.items, r.active, r.deleted)
    /\ ValuesOK(r)
    /\ c \notin overlapped => r.base = Total(r.items)

BookingOK(a) ==
    LET b == booking[a] IN
    b # Nothing =>
        /\ b = [service |-> b.service, combo |-> b.combo, staff |-> b.staff, when |-> b.when, status |-> b.status]
        /\ b.service \in Services /\ b.combo \in DOMAIN combo \cup {Nothing}

\* A booking that keeps the service, or the combo, from being removed.
Needs(a, s) == Future(a) /\ booking[a].service = s
Holds(a, c) == Stands(a) /\ booking[a].combo = c

UpdateOK(r) ==
    /\ r = [at |-> r.at, whose |-> r.whose, old |-> r.old, items |-> r.items, change |-> r.change]
    /\ r.whose \in DOMAIN combo /\ r.change \in Changes /\ r.old.pricing \in Pricings
    /\ r.at = "read services" => r.change.services # Nothing
    /\ r.whose \notin overlapped /\ r.change.services = Nothing => r.items = combo[r.whose].items

RequestOK(d) ==
    LET r == request[d] IN
    /\ Doing(d, "write service") => r.set \subseteq {"price", "length"} /\ r.to \in Prices
    /\ Doing(d, "unlink") => r = [at |-> r.at, drop |-> r.drop, add |-> r.add]
    /\ Doing(d, "withdraw") =>
        /\ r = [at |-> r.at, whose |-> r.whose, since |-> r.since] /\ r.whose \in Services
        /\ \A a \in Bookings \ (excused \cup r.since) : ~ Needs(a, r.whose)
    /\ Doing(d, "delete combo") =>
        /\ r = [at |-> r.at, whose |-> r.whose, since |-> r.since] /\ r.whose \in DOMAIN combo
        /\ \A a \in Bookings \ (excused \cup r.since) : ~ Holds(a, r.whose)
    /\ Doing(d, "set visibility") => r.whose \in DOMAIN combo
    /\ Doing(d, "book") => r.service \in Services /\ r.combo \in DOMAIN combo \cup {Nothing}
    /\ Doing(d, "move") \/ Doing(d, "confirm") => r.whose \in Bookings
    /\ Doing(d, "insert combo") => ValuesOK(r.values) /\ r.values.base = Total(r.items)
    /\ Doing(d, "read services") \/ Doing(d, "write combo") => UpdateOK(r)

CatalogueInv ==
    /\ service \in [Services -> ServiceRow \cup {Nothing}]
    /\ combo = [c \in DOMAIN combo |-> combo[c]] /\ DOMAIN combo \subseteq Combos
    /\ booking = [a \in Bookings |-> booking[a]] /\ request = [d \in Desks |-> request[d]]
    /\ \A c \in DOMAIN combo : ComboOK(c)
    /\ \A a \in Bookings : BookingOK(a)
    /\ \A d \in Desks : RequestOK(d)
    /\ FutureIsOnSale

\* What the modes make of a base they can be applied to.
LEMMA Computing ==
  ASSUME NEW m, NEW base, m.pricing \in Pricings, Computable(m, base)
  PROVE  ValuesOK(Computed(m, base)) /\ Computed(m, base).base = base
<1> DEFINE v == Computed(m, base)
<1>1. /\ v.pricing = m.pricing /\ v.timing = m.timing /\ v.base = base /\ v.final = FinalOf(m, base)
      /\ v.fixed = (IF m.pricing = "FIXED_PRICE" THEN m.fixed ELSE Nothing)
      /\ v.percent = (IF m.pricing = "PERCENT_DISCOUNT" THEN m.percent ELSE Nothing)
      /\ v.custom = (IF m.timing = "CUSTOM" THEN m.custom ELSE Nothing)
  BY DEF Computed
<1> HIDE DEF v
<1>2. Computable(v, base)
  BY <1>1 DEF Computable, Pricings
<1>3. FinalOf(v, base) = FinalOf(m, base)
  BY <1>1 DEF FinalOf, Pricings
<1>4. ValuesOK(v) /\ v.base = base
  BY <1>1, <1>2, <1>3 DEF ValuesOK
<1> QED BY <1>4 DEF v

\* The columns of a row.
LEMMA RowFields ==
  ASSUME NEW v, NEW items, NEW active, NEW deleted, NEW r, r = Row(v, items, active, deleted)
  PROVE  /\ r.pricing = v.pricing /\ r.timing = v.timing /\ r.fixed = v.fixed
         /\ r.percent = v.percent /\ r.custom = v.custom /\ r.base = v.base /\ r.final = v.final
         /\ r.items = items /\ r.active = active /\ r.deleted = deleted
         /\ r = Row(r, r.items, r.active, r.deleted)
BY DEF Row

LEMMA RowValues ==
  ASSUME NEW v, NEW r, ValuesOK(v), r.pricing = v.pricing, r.timing = v.timing, r.fixed = v.fixed,
         r.percent = v.percent, r.custom = v.custom, r.base = v.base, r.final = v.final
  PROVE  ValuesOK(r)
BY DEF ValuesOK, Computable, FinalOf

\* What becomes of the rest keeps what a request relies on.
LEMMA RequestKept ==
  ASSUME NEW d \in Desks, RequestOK(d), request'[d] = request[d],
         DOMAIN combo \subseteq DOMAIN combo', overlapped \subseteq overlapped', excused \subseteq excused',
         \A c \in DOMAIN combo \ overlapped' : Updating(d, c) => combo'[c].items = combo[c].items,
         Doing(d, "withdraw") \/ Doing(d, "delete combo") =>
            \A a \in Bookings \ excused' : \A x : (Needs(a, x)' => Needs(a, x)) /\ (Holds(a, x)' => Holds(a, x))
  PROVE  RequestOK(d)'
<1> DEFINE r == request[d]
<1>1. \A p : Doing(d, p)' = Doing(d, p)
  BY DEF Doing
<1>2. Doing(d, "withdraw") => \A a \in Bookings \ (excused' \cup r.since) : ~ Needs(a, r.whose)'
  BY DEF RequestOK
<1>3. Doing(d, "delete combo") => \A a \in Bookings \ (excused' \cup r.since) : ~ Holds(a, r.whose)'
  BY DEF RequestOK
<1>4. ASSUME Doing(d, "read services") \/ Doing(d, "write combo")
      PROVE  UpdateOK(request[d])'
  <2>1. UpdateOK(r) /\ Updating(d, r.whose)
    BY <1>4 DEF RequestOK, Updating
  <2> QED BY <2>1 DEF UpdateOK
<1> QED BY <1>1, <1>2, <1>3, <1>4 DEF RequestOK

\* A request goes on, and nothing else that matters changes.
LEMMA GoOnInv ==
  ASSUME CatalogueInv, NEW d \in Desks, NEW x, request' = [request EXCEPT ![d] = x],
         UNCHANGED <<service, combo, booking, overlapped, excused>>, RequestOK(d)'
  PROVE  CatalogueInv'
<1>1. request' = [e \in Desks |-> request'[e]] /\ \A e \in Desks \ {d} : request'[e] = request[e]
  BY DEF CatalogueInv
<1>2. \A a, y : (Needs(a, y)' = Needs(a, y)) /\ (Holds(a, y)' = Holds(a, y))
  BY DEF Needs, Holds, Future, Stands
<1>3. ASSUME NEW e \in Desks PROVE RequestOK(e)'
  <2>1. CASE e = d
    BY <2>1
  <2>2. CASE e # d
    <3>1. RequestOK(e) /\ request'[e] = request[e]
      BY <1>1, <2>2 DEF CatalogueInv
    <3> QED BY <1>2, <3>1, RequestKept
  <2> QED BY <2>1, <2>2
<1>4. \A c \in DOMAIN combo : ComboOK(c)'
  BY DEF CatalogueInv, ComboOK
<1>5. \A a \in Bookings : BookingOK(a)'
  BY DEF CatalogueInv, BookingOK
<1>6. FutureIsOnSale'
  BY DEF CatalogueInv, FutureIsOnSale, Future, Stands, OnSale
<1> QED BY <1>1, <1>3, <1>4, <1>5, <1>6 DEF CatalogueInv

\* What a request is about to do tells what it must rely on.
LEMMA PlainRequest ==
  ASSUME NEW d \in Desks,
         request'[d] # Nothing =>
            request'[d].at \notin {"write service", "unlink", "withdraw", "delete combo", "set visibility",
                                   "book", "move", "confirm", "insert combo", "read services", "write combo"}
  PROVE  RequestOK(d)'
BY DEF RequestOK, Doing

LEMMA SetOutInv ==
  ASSUME CatalogueInv, NEW d \in Desks, NEW x, Begin(d, x),
         UNCHANGED <<service, combo, booking, overlapped, excused>>,
         request'[d] = x => RequestOK(d)'
  PROVE  CatalogueInv'
<1>1. request' = [request EXCEPT ![d] = x] /\ request'[d] = x
  BY DEF Begin, CatalogueInv
<1> QED BY <1>1, GoOnInv

\* A request that ends has nothing to rely on.
LEMMA EndInv ==
  ASSUME CatalogueInv, NEW d \in Desks, End(d),
         UNCHANGED <<service, combo, booking, overlapped, excused>>
  PROVE  CatalogueInv'
<1>1. request' = [request EXCEPT ![d] = Nothing] /\ request'[d] = Nothing
  BY DEF End, CatalogueInv
<1> QED BY <1>1, GoOnInv, PlainRequest

\* One that begins or goes on with nothing to rely on.
LEMMA PlainInv ==
  ASSUME CatalogueInv, NEW d \in Desks, NEW x, request' = [request EXCEPT ![d] = x],
         UNCHANGED <<service, combo, booking, overlapped, excused>>,
         x.at \notin {"write service", "unlink", "withdraw", "delete combo", "set visibility",
                      "book", "move", "confirm", "insert combo", "read services", "write combo"}
  PROVE  CatalogueInv'
<1>1. request'[d] = x
  BY DEF CatalogueInv
<1> QED BY <1>1, GoOnInv, PlainRequest

LEMMA LinksInv ==
  ASSUME CatalogueInv, NEW d \in Desks,
         \/ ReadLinks(d) \/ Unlink(d) \/ Link(d)
         \/ \E s \in Services, v \in Prices, ps \in Teams : AskUpdateService(d, s, v, ps)
         \/ \E p \in Staff, ss \in Menus : AskUpdateStaff(d, p, ss)
  PROVE  CatalogueInv'
<1>1. CASE ReadLinks(d)
  <2>1. PICK drop, add : request' = [request EXCEPT ![d] = [at |-> "unlink", drop |-> drop, add |-> add]]
    BY <1>1 DEF ReadLinks
  <2> DEFINE x == [at |-> "unlink", drop |-> drop, add |-> add]
  <2>2. request' = [request EXCEPT ![d] = x] /\ request'[d] = x /\ x.at = "unlink"
        /\ x = [at |-> x.at, drop |-> x.drop, add |-> x.add]
    BY <2>1 DEF CatalogueInv
  <2> HIDE DEF x
  <2>3. RequestOK(d)'
    BY <2>2 DEF RequestOK, Doing
  <2>4. UNCHANGED <<service, combo, booking, overlapped, excused>>
    BY <1>1 DEF ReadLinks
  <2> QED BY <2>2, <2>3, <2>4, GoOnInv
<1>2. CASE Unlink(d)
  <2> DEFINE x == [request[d] EXCEPT !.at = "link"]
  <2>1. request' = [request EXCEPT ![d] = x] /\ UNCHANGED <<service, combo, booking, overlapped, excused>>
    BY <1>2 DEF Unlink, Proceed
  <2>2. request[d] = [at |-> request[d].at, drop |-> request[d].drop, add |-> request[d].add]
    BY <1>2 DEF Unlink, CatalogueInv, RequestOK
  <2>3. x.at = "link"
    BY <2>2
  <2> HIDE DEF x
  <2> QED BY <2>1, <2>3, PlainInv
<1>3. CASE Link(d)
  BY <1>3, EndInv DEF Link
<1>4. ASSUME NEW s \in Services, NEW v \in Prices, NEW ps \in Teams, AskUpdateService(d, s, v, ps)
      PROVE  CatalogueInv'
  <2> DEFINE x == [at |-> "write service", whose |-> s, wanted |-> ps \X {s},
                   set |-> {f \in {"price", "length"} : v[f] # service[s][f]}, to |-> v]
  <2>1. Begin(d, x) /\ UNCHANGED <<service, combo, booking, overlapped, excused>>
    BY <1>4 DEF AskUpdateService
  <2>2. x.at = "write service" /\ x.set \subseteq {"price", "length"} /\ x.to \in Prices
    OBVIOUS
  <2> HIDE DEF x
  <2>3. request'[d] = x => RequestOK(d)'
    BY <2>2 DEF RequestOK, Doing
  <2> QED BY <2>1, <2>3, SetOutInv
<1>5. ASSUME NEW p \in Staff, NEW ss \in Menus, AskUpdateStaff(d, p, ss) PROVE CatalogueInv'
  <2> DEFINE x == [at |-> "read links", whose |-> p, wanted |-> {p} \X ss]
  <2>1. request' = [request EXCEPT ![d] = x] /\ UNCHANGED <<service, combo, booking, overlapped, excused>>
    BY <1>5 DEF AskUpdateStaff, Begin
  <2>2. x.at = "read links"
    OBVIOUS
  <2> HIDE DEF x
  <2> QED BY <2>1, <2>2, PlainInv
<1> QED BY <1>1, <1>2, <1>3, <1>4, <1>5

LEMMA StaffInv ==
  ASSUME CatalogueInv, NEW d \in Desks,
         \/ \E limit \in Limits, ss \in Menus : CountStaff(d, limit, ss)
         \/ \E p \in Staff : Hire(d, p) \/ CheckDismiss(d, p)
         \/ Dismiss(d)
  PROVE  CatalogueInv'
<1>1. ASSUME NEW limit \in Limits, NEW ss \in Menus, CountStaff(d, limit, ss) PROVE CatalogueInv'
  <2> DEFINE x == [at |-> "hire", services |-> ss]
  <2>1. request' = [request EXCEPT ![d] = x] /\ UNCHANGED <<service, combo, booking, overlapped, excused>>
    BY <1>1 DEF CountStaff, Begin
  <2>2. x.at = "hire"
    OBVIOUS
  <2> HIDE DEF x
  <2> QED BY <2>1, <2>2, PlainInv
<1>2. ASSUME NEW p \in Staff, Hire(d, p) PROVE CatalogueInv'
  <2> DEFINE x == [at |-> "link", add |-> {p} \X request[d].services]
  <2>1. request' = [request EXCEPT ![d] = x] /\ UNCHANGED <<service, combo, booking, overlapped, excused>>
    BY <1>2 DEF Hire
  <2>2. x.at = "link"
    OBVIOUS
  <2> HIDE DEF x
  <2> QED BY <2>1, <2>2, PlainInv
<1>3. ASSUME NEW p \in Staff, CheckDismiss(d, p) PROVE CatalogueInv'
  <2> DEFINE x == [at |-> "dismiss", whose |-> p]
  <2>1. request' = [request EXCEPT ![d] = x] /\ UNCHANGED <<service, combo, booking, overlapped, excused>>
    BY <1>3 DEF CheckDismiss, Begin
  <2>2. x.at = "dismiss"
    OBVIOUS
  <2> HIDE DEF x
  <2> QED BY <2>1, <2>2, PlainInv
<1>4. CASE Dismiss(d)
  BY <1>4, EndInv DEF Dismiss
<1> QED BY <1>1, <1>2, <1>3, <1>4

\* A removal that begins has seen every booking there is.
LEMMA CheckRemovalInv ==
  ASSUME CatalogueInv, NEW d \in Desks,
         \/ \E s \in Services : CheckWithdraw(d, s)
         \/ \E c \in Combos : CheckDeleteCombo(d, c)
  PROVE  CatalogueInv'
<1>1. ASSUME NEW s \in Services, CheckWithdraw(d, s) PROVE CatalogueInv'
  <2> DEFINE x == [at |-> "withdraw", whose |-> s, since |-> {}]
  <2>1. Begin(d, x) /\ UNCHANGED <<service, combo, booking, overlapped, excused>>
    BY <1>1 DEF CheckWithdraw
  <2>2. x.at = "withdraw" /\ x.whose = s /\ x = [at |-> x.at, whose |-> x.whose, since |-> x.since]
    OBVIOUS
  <2> HIDE DEF x
  <2>3. \A a \in Bookings : ~ Needs(a, s)'
    BY <1>1 DEF CheckWithdraw, NoFutureOf, Needs, Future, Stands
  <2>4. request'[d] = x => RequestOK(d)'
    BY <2>2, <2>3 DEF RequestOK, Doing
  <2> QED BY <2>1, <2>4, SetOutInv
<1>2. ASSUME NEW c \in Combos, CheckDeleteCombo(d, c) PROVE CatalogueInv'
  <2> DEFINE x == [at |-> "delete combo", whose |-> c, since |-> {}]
  <2>1. Begin(d, x) /\ UNCHANGED <<service, combo, booking, overlapped, excused>> /\ c \in DOMAIN combo'
    BY <1>2 DEF CheckDeleteCombo, Standing
  <2>2. x.at = "delete combo" /\ x.whose = c /\ x = [at |-> x.at, whose |-> x.whose, since |-> x.since]
    OBVIOUS
  <2> HIDE DEF x
  <2>3. \A a \in Bookings : ~ Holds(a, c)'
    BY <1>2 DEF CheckDeleteCombo, Holds, Stands
  <2>4. request'[d] = x => RequestOK(d)'
    BY <2>1, <2>2, <2>3 DEF RequestOK, Doing
  <2> QED BY <2>1, <2>4, SetOutInv
<1> QED BY <1>1, <1>2

LEMMA AskComboInv ==
  ASSUME CatalogueInv, NEW d \in Desks, NEW ss \in Menus, NEW deal \in Deals, NEW ps \in Teams,
         AskCombo(d, ss, deal, ps)
  PROVE  CatalogueInv'
<1> DEFINE values == Computed(deal, Total(Snapshot(ss)))
           x == [at |-> "insert combo", items |-> Snapshot(ss), staff |-> ps, values |-> values]
<1>1. Begin(d, x) /\ UNCHANGED <<service, combo, booking, overlapped, excused>>
  BY DEF AskCombo
<1>2. ValuesOK(values) /\ values.base = Total(Snapshot(ss))
  BY Computing, CatalogueAssumption DEF AskCombo
<1>3. x.at = "insert combo" /\ x.values = values /\ x.items = Snapshot(ss)
  OBVIOUS
<1> HIDE DEF x, values
<1>4. request'[d] = x => RequestOK(d)'
  <2> SUFFICES ASSUME request'[d] = x PROVE RequestOK(d)'
    OBVIOUS
  <2>1. ValuesOK(request'[d].values) /\ request'[d].values.base = Total(request'[d].items)
    BY <1>2, <1>3
  <2> QED BY <1>3, <2>1 DEF RequestOK, Doing
<1> QED BY <1>1, <1>4, SetOutInv

LEMMA ReadComboInv ==
  ASSUME CatalogueInv, NEW d \in Desks, NEW c \in Combos, NEW change \in Changes, ReadCombo(d, c, change)
  PROVE  CatalogueInv'
<1> DEFINE place == IF change.services = Nothing THEN "write combo" ELSE "read services"
           x == [at |-> place, whose |-> c, old |-> combo[c], items |-> combo[c].items, change |-> change]
<1>1. Begin(d, x) /\ UNCHANGED <<service, combo, booking, overlapped, excused>> /\ c \in DOMAIN combo
  BY DEF ReadCombo, Standing
<1>2. combo[c].pricing \in Pricings
  BY <1>1 DEF CatalogueInv, ComboOK, ValuesOK
<1>3. /\ x = [at |-> x.at, whose |-> x.whose, old |-> x.old, items |-> x.items, change |-> x.change]
      /\ x.at = place /\ x.whose = c /\ x.old = combo[c] /\ x.items = combo[c].items /\ x.change = change
  OBVIOUS
<1> HIDE DEF x
<1>4. ASSUME request'[d] = x PROVE UpdateOK(request[d])'
  BY <1>1, <1>2, <1>3, <1>4 DEF UpdateOK
<1>5. x.at \in {"write combo", "read services"}
  BY <1>3
<1>6. request'[d] = x => RequestOK(d)'
  BY <1>4, <1>5 DEF RequestOK, Doing
<1> QED BY <1>1, <1>6, SetOutInv

LEMMA ReadServicesInv == ASSUME CatalogueInv, NEW d \in Desks, ReadServices(d) PROVE CatalogueInv'
<1> DEFINE r == request[d]
           items == Snapshot(r.change.services)
           x == [r EXCEPT !.items = items, !.at = "write combo"]
<1>1. request' = [request EXCEPT ![d] = x] /\ request'[d] = x
  BY DEF ReadServices, CatalogueInv
<1>2. UpdateOK(r) /\ r.at = "read services" /\ UNCHANGED <<service, combo, booking, overlapped, excused>>
  BY DEF ReadServices, CatalogueInv, RequestOK, Doing
<1>3. /\ x = [at |-> x.at, whose |-> x.whose, old |-> x.old, items |-> x.items, change |-> x.change]
      /\ x.at = "write combo" /\ x.whose = r.whose /\ x.old = r.old /\ x.change = r.change
  <2>1. r = [at |-> r.at, whose |-> r.whose, old |-> r.old, items |-> r.items, change |-> r.change]
    BY <1>2 DEF UpdateOK
  <2> HIDE DEF items, r
  <2>2. PICK at, whose, old, i, change :
           r = [at |-> at, whose |-> whose, old |-> old, items |-> i, change |-> change]
    BY <2>1
  <2> DEFINE y == [r EXCEPT !.items = items]
  <2>3. y = [at |-> at, whose |-> whose, old |-> old, items |-> items, change |-> change]
    BY <2>2
  <2>4. x = [y EXCEPT !.at = "write combo"]
    OBVIOUS
  <2> HIDE DEF x, y
  <2>5. x = [at |-> "write combo", whose |-> whose, old |-> old, items |-> items, change |-> change]
    BY <2>3, <2>4
  <2>6. r.whose = whose /\ r.old = old /\ r.change = change
    BY <2>2
  <2> QED BY <2>5, <2>6
<1> HIDE DEF x
<1>4. UpdateOK(request[d])'
  BY <1>1, <1>2, <1>3 DEF UpdateOK
<1>5. RequestOK(d)'
  BY <1>1, <1>3, <1>4 DEF RequestOK, Doing
<1> QED BY <1>1, <1>2, <1>5, GoOnInv

LEMMA CheckVisibilityInv ==
  ASSUME CatalogueInv, NEW d \in Desks, NEW c \in Combos, NEW active \in BOOLEAN, CheckVisibility(d, c, active)
  PROVE  CatalogueInv'
<1> DEFINE x == [at |-> "set visibility", whose |-> c, active |-> active]
<1>1. Begin(d, x) /\ UNCHANGED <<service, combo, booking, overlapped, excused>> /\ c \in DOMAIN combo'
  BY DEF CheckVisibility, Standing
<1>2. x.at = "set visibility" /\ x.whose = c
  OBVIOUS
<1> HIDE DEF x
<1>3. request'[d] = x => RequestOK(d)'
  BY <1>1, <1>2 DEF RequestOK, Doing
<1> QED BY <1>1, <1>3, SetOutInv

LEMMA AskBookingInv ==
  ASSUME CatalogueInv, NEW d \in Desks, NEW p \in Staff, NEW s \in Services,
         AskBooking(d, p, s) \/ \E c \in Combos : AskComboBooking(d, p, c, s)
  PROVE  CatalogueInv'
<1>1. PICK k \in DOMAIN combo \cup {Nothing} :
        Begin(d, [at |-> "book", service |-> s, combo |-> k, staff |-> p])
  BY DEF AskBooking, AskComboBooking, Standing
<1> DEFINE x == [at |-> "book", service |-> s, combo |-> k, staff |-> p]
<1>2. Begin(d, x) /\ UNCHANGED <<service, combo, booking, overlapped, excused>>
  BY <1>1 DEF AskBooking, AskComboBooking
<1>3. x.at = "book" /\ x.service = s /\ x.combo = k
  OBVIOUS
<1> HIDE DEF x
<1>4. request'[d] = x => RequestOK(d)'
  BY <1>2, <1>3 DEF RequestOK, Doing
<1> QED BY <1>2, <1>4, SetOutInv

\* A write of services, by a request that has then nothing left to rely on.
LEMMA ServiceWriteInv ==
  ASSUME CatalogueInv, service' \in [Services -> ServiceRow \cup {Nothing}],
         UNCHANGED <<combo, booking, overlapped>>, excused \subseteq excused',
         \/ request' = request
         \/ \E d \in Desks : \E x : request' = [request EXCEPT ![d] = x] /\ (x = Nothing \/ x.at = "read links"),
         \A a \in Bookings \ excused' : Future(a) /\ OnSale(booking[a].service) => OnSale(booking[a].service)'
  PROVE  CatalogueInv'
<1>1. \A a : Future(a)' = Future(a) /\ \A x : Needs(a, x)' = Needs(a, x) /\ Holds(a, x)' = Holds(a, x)
  BY DEF Needs, Holds, Future, Stands
<1>2. ASSUME NEW e \in Desks, request'[e] = request[e] PROVE RequestOK(e)'
  <2>1. RequestOK(e)
    BY DEF CatalogueInv
  <2> QED BY <1>1, <1>2, <2>1, RequestKept
<1>3. \A e \in Desks : RequestOK(e)'
  <2>1. CASE request' = request
    BY <1>2, <2>1
  <2>2. ASSUME NEW d \in Desks, NEW x, request' = [request EXCEPT ![d] = x], x = Nothing \/ x.at = "read links"
        PROVE  \A e \in Desks : RequestOK(e)'
    <3>1. request'[d] = x /\ \A e \in Desks \ {d} : request'[e] = request[e]
      BY <2>2 DEF CatalogueInv
    <3>2. RequestOK(d)'
      BY <2>2, <3>1, PlainRequest
    <3> QED BY <1>2, <3>1, <3>2
  <2> QED BY <2>1, <2>2
<1>4. request' = [e \in Desks |-> request'[e]]
  BY DEF CatalogueInv
<1>5. \A c \in DOMAIN combo : ComboOK(c)'
  BY DEF CatalogueInv, ComboOK
<1>6. \A a \in Bookings : BookingOK(a)'
  BY DEF CatalogueInv, BookingOK
<1>7. FutureIsOnSale'
  <2>1. ASSUME NEW a \in Bookings \ excused', Future(a)' PROVE OnSale(booking[a].service)'
    BY <1>1, <2>1 DEF CatalogueInv, FutureIsOnSale
  <2>2. ASSUME NEW a \in Bookings \ excused'
        PROVE  Stands(a) /\ booking[a].combo # Nothing => ~combo[booking[a].combo].deleted
    BY DEF CatalogueInv, FutureIsOnSale
  <2> QED BY <2>1, <2>2 DEF FutureIsOnSale, Stands
<1> QED BY <1>3, <1>4, <1>5, <1>6, <1>7 DEF CatalogueInv

LEMMA CreateServiceInv ==
  ASSUME CatalogueInv, NEW s \in Services, NEW v \in Prices, NEW ps \in Teams, CreateService(s, v, ps)
  PROVE  CatalogueInv'
<1> DEFINE x == [price |-> v.price, length |-> v.length, onSale |-> TRUE]
<1>1. x \in ServiceRow /\ x.onSale = TRUE
  BY CatalogueAssumption DEF ServiceRow
<1>2. service' = [service EXCEPT ![s] = x] /\ UNCHANGED <<combo, booking, request, overlapped, excused>>
  BY DEF CreateService
<1> HIDE DEF x
<1>3. service' \in [Services -> ServiceRow \cup {Nothing}] /\ service'[s] = x
  BY <1>1, <1>2 DEF CatalogueInv
<1>4. ASSUME NEW t \in Services, OnSale(t) PROVE OnSale(t)'
  <2>1. t # s => service'[t] = service[t]
    BY <1>2 DEF CatalogueInv
  <2>2. x # Nothing
    BY <1>1, CatalogueAssumption
  <2> QED BY <1>1, <1>3, <1>4, <2>1, <2>2 DEF OnSale
<1>5. \A a \in Bookings : Future(a) => booking[a].service \in Services
  BY DEF CatalogueInv, BookingOK, Future, Stands
<1> QED BY <1>2, <1>3, <1>4, <1>5, ServiceWriteInv

LEMMA WriteServiceInv == ASSUME CatalogueInv, NEW d \in Desks, WriteService(d) PROVE CatalogueInv'
<1> DEFINE r == request[d]
           s == r.whose
           x == [f \in DOMAIN service[s] |-> IF f \in r.set THEN r.to[f] ELSE service[s][f]]
<1>1. /\ service[s] # Nothing /\ service' = [service EXCEPT ![s] = x]
      /\ UNCHANGED <<combo, booking, overlapped, excused>>
  BY DEF WriteService
<1>2. \E y : request' = [request EXCEPT ![d] = y] /\ y.at = "read links"
  <2> DEFINE y == [at |-> "read links", whose |-> r.whose, wanted |-> r.wanted]
  <2>1. request' = [request EXCEPT ![d] = y] /\ y.at = "read links"
    BY DEF WriteService
  <2> HIDE DEF y
  <2> QED BY <2>1
<1>3. r.set \subseteq {"price", "length"} /\ r.to \in Prices
  BY DEF WriteService, CatalogueInv, RequestOK
<1>4. ASSUME s \in Services PROVE x \in ServiceRow /\ x.onSale = service[s].onSale
  <2>1. service[s] \in ServiceRow
    BY <1>1, <1>4 DEF CatalogueInv
  <2>2. r.to.price \in Nat /\ r.to.length \in Nat \ {0}
    BY <1>3, CatalogueAssumption
  <2>3. /\ service[s].price \in Nat /\ service[s].length \in Nat \ {0} /\ service[s].onSale \in BOOLEAN
        /\ service[s] = [price |-> service[s].price, length |-> service[s].length, onSale |-> service[s].onSale]
    BY <2>1 DEF ServiceRow
  <2>4. x = [price |-> IF "price" \in r.set THEN r.to.price ELSE service[s].price,
             length |-> IF "length" \in r.set THEN r.to.length ELSE service[s].length,
             onSale |-> service[s].onSale]
    <3>1. DOMAIN service[s] = {"price", "length", "onSale"}
      BY <2>3
    <3>2. "onSale" \notin r.set
      BY <1>3
    <3> QED BY <3>1, <3>2
  <2> HIDE DEF x
  <2> QED BY <2>2, <2>3, <2>4 DEF ServiceRow
<1> HIDE DEF x
<1>5. service' \in [Services -> ServiceRow \cup {Nothing}]
  BY <1>1, <1>4 DEF CatalogueInv
<1>6. ASSUME NEW t \in Services, OnSale(t) PROVE OnSale(t)'
  <2>1. t # s => service'[t] = service[t]
    BY <1>1 DEF CatalogueInv
  <2>2. t = s => service'[t] = x /\ x # Nothing /\ x.onSale = service[t].onSale
    BY <1>1, <1>4, CatalogueAssumption DEF CatalogueInv
  <2> QED BY <1>6, <2>1, <2>2 DEF OnSale
<1>7. \A a \in Bookings : Future(a) => booking[a].service \in Services
  BY DEF CatalogueInv, BookingOK, Future, Stands
<1> QED BY <1>1, <1>2, <1>5, <1>6, <1>7, ServiceWriteInv

\* What was booked since is excused, and there was nothing before.
LEMMA WithdrawServiceInv == ASSUME CatalogueInv, NEW d \in Desks, WithdrawService(d) PROVE CatalogueInv'
<1> DEFINE s == request[d].whose
           x == [service[s] EXCEPT !.onSale = FALSE]
<1>1. /\ service[s] # Nothing /\ service' = [service EXCEPT ![s] = x]
      /\ excused' = excused \cup request[d].since /\ End(d)
      /\ UNCHANGED <<combo, booking, overlapped>>
  BY DEF WithdrawService
<1>2. s \in Services /\ \A a \in Bookings \ excused' : ~ Needs(a, s)
  BY <1>1 DEF WithdrawService, CatalogueInv, RequestOK
<1>3. x \in ServiceRow
  <2>1. service[s] \in ServiceRow
    BY <1>1, <1>2 DEF CatalogueInv
  <2> HIDE DEF s
  <2> QED BY <2>1 DEF ServiceRow
<1> HIDE DEF x
<1>4. service' \in [Services -> ServiceRow \cup {Nothing}]
  BY <1>1, <1>3 DEF CatalogueInv
<1>5. ASSUME NEW a \in Bookings \ excused', Future(a), OnSale(booking[a].service)
      PROVE  OnSale(booking[a].service)'
  <2>1. booking[a].service # s /\ booking[a].service \in Services
    BY <1>2, <1>5 DEF Needs, CatalogueInv, BookingOK, Future, Stands
  <2>2. service'[booking[a].service] = service[booking[a].service] /\ booking' = booking
    BY <1>1, <2>1 DEF CatalogueInv
  <2> QED BY <1>5, <2>2 DEF OnSale
<1>6. request' = [request EXCEPT ![d] = Nothing]
  BY <1>1 DEF End
<1> QED BY <1>1, <1>4, <1>5, <1>6, ServiceWriteInv

LEMMA DeleteServiceInv == ASSUME CatalogueInv, NEW s \in Services, DeleteService(s) PROVE CatalogueInv'
<1>1. /\ service' = [service EXCEPT ![s] = Nothing] /\ UNCHANGED <<combo, booking, request, overlapped, excused>>
      /\ \A a \in Bookings : booking[a] # Nothing => booking[a].service # s
  BY DEF DeleteService
<1>2. service' \in [Services -> ServiceRow \cup {Nothing}]
  BY <1>1 DEF CatalogueInv
<1>3. ASSUME NEW a \in Bookings, Future(a), OnSale(booking[a].service)
      PROVE  OnSale(booking[a].service)'
  <2>1. booking[a].service # s /\ booking[a].service \in Services
    BY <1>1, <1>3 DEF CatalogueInv, BookingOK, Future, Stands
  <2>2. service'[booking[a].service] = service[booking[a].service] /\ booking' = booking
    BY <1>1, <2>1 DEF CatalogueInv
  <2> QED BY <1>3, <2>2 DEF OnSale
<1> QED BY <1>1, <1>2, <1>3, ServiceWriteInv

\* A write of one combo, by a request that ends with it.
LEMMA ComboWriteInv ==
  ASSUME CatalogueInv, NEW d \in Desks, End(d), NEW c \in Combos, NEW row,
         combo' = [y \in DOMAIN combo \cup {c} |-> IF y = c THEN row ELSE combo[y]],
         UNCHANGED <<service, booking>>, overlapped \subseteq overlapped', excused \subseteq excused',
         row = Row(row, row.items, row.active, row.deleted), ValuesOK(row),
         c \notin overlapped' => row.base = Total(row.items),
         c \in DOMAIN combo /\ c \notin overlapped' =>
            row.items = combo[c].items \/ \A e \in Desks \ {d} : ~ Updating(e, c),
         c \in DOMAIN combo => \A a \in Bookings \ excused' : Holds(a, c) /\ row.deleted => combo[c].deleted
  PROVE  CatalogueInv'
<1>1. /\ DOMAIN combo' = DOMAIN combo \cup {c} /\ combo'[c] = row
      /\ \A y \in DOMAIN combo \ {c} : combo'[y] = combo[y]
      /\ combo' = [y \in DOMAIN combo' |-> combo'[y]]
  OBVIOUS
<1>2. /\ request' = [e \in Desks |-> request'[e]] /\ request'[d] = Nothing
      /\ \A e \in Desks \ {d} : request'[e] = request[e]
  BY DEF CatalogueInv, End
<1>3. \A a : Future(a)' = Future(a) /\ \A x : Needs(a, x)' = Needs(a, x) /\ Holds(a, x)' = Holds(a, x)
  BY DEF Needs, Holds, Future, Stands
<1>4. ASSUME NEW e \in Desks PROVE RequestOK(e)'
  <2>1. CASE e = d
    BY <1>2, <2>1, PlainRequest
  <2>2. CASE e # d
    <3>1. RequestOK(e) /\ request'[e] = request[e]
      BY <1>2, <2>2 DEF CatalogueInv
    <3>2. \A y \in DOMAIN combo \ overlapped' : Updating(e, y) => combo'[y].items = combo[y].items
      BY <1>1, <2>2
    <3>3. DOMAIN combo \subseteq DOMAIN combo'
      BY <1>1
    <3> QED BY <1>3, <3>1, <3>2, <3>3, RequestKept
  <2> QED BY <2>1, <2>2
<1>5. ASSUME NEW y \in DOMAIN combo' PROVE ComboOK(y)'
  <2>1. CASE y = c
    BY <1>1, <2>1 DEF ComboOK
  <2>2. CASE y # c
    <3>1. ComboOK(y) /\ combo'[y] = combo[y]
      BY <1>1, <2>2 DEF CatalogueInv
    <3> QED BY <3>1 DEF ComboOK
  <2> QED BY <2>1, <2>2
<1>6. \A a \in Bookings : BookingOK(a)'
  BY <1>1 DEF CatalogueInv, BookingOK
<1>7. FutureIsOnSale'
  <2>1. ASSUME NEW a \in Bookings \ excused', Future(a)' PROVE OnSale(booking[a].service)'
    BY <1>3, <2>1 DEF CatalogueInv, FutureIsOnSale, OnSale
  <2>2. ASSUME NEW a \in Bookings \ excused', Stands(a), booking[a].combo # Nothing
        PROVE  ~combo'[booking[a].combo].deleted
    <3>1. booking[a].combo \in DOMAIN combo /\ ~combo[booking[a].combo].deleted
      BY <2>2 DEF CatalogueInv, FutureIsOnSale, BookingOK, Stands
    <3>2. CASE booking[a].combo = c
      BY <1>1, <2>2, <3>1, <3>2 DEF Holds
    <3>3. CASE booking[a].combo # c
      BY <1>1, <3>1, <3>3
    <3> QED BY <3>2, <3>3
  <2> QED BY <2>1, <2>2 DEF FutureIsOnSale, Stands
<1>8. service' \in [Services -> ServiceRow \cup {Nothing}] /\ booking' = [a \in Bookings |-> booking'[a]]
      /\ DOMAIN combo' \subseteq Combos
  BY <1>1 DEF CatalogueInv
<1> QED BY <1>1, <1>2, <1>4, <1>5, <1>6, <1>7, <1>8 DEF CatalogueInv

LEMMA InsertComboInv ==
  ASSUME CatalogueInv, NEW d \in Desks, NEW c \in Combos, NEW active \in BOOLEAN, InsertCombo(d, c, active)
  PROVE  CatalogueInv'
<1> DEFINE v == request[d].values
           no == FALSE
           row == Row(v, request[d].items, active, no)
<1>1. /\ c \notin DOMAIN combo /\ End(d) /\ UNCHANGED <<service, booking, overlapped, excused>>
      /\ combo' = [y \in DOMAIN combo \cup {c} |-> IF y = c THEN row ELSE combo[y]]
  BY DEF InsertCombo
<1>2. ValuesOK(v) /\ v.base = Total(request[d].items)
  BY DEF InsertCombo, CatalogueInv, RequestOK
<1> HIDE DEF no
<1>3. /\ row.pricing = v.pricing /\ row.timing = v.timing /\ row.fixed = v.fixed
      /\ row.percent = v.percent /\ row.custom = v.custom /\ row.base = v.base /\ row.final = v.final
      /\ row.items = request[d].items
      /\ row = Row(row, row.items, row.active, row.deleted)
  BY RowFields
<1> HIDE DEF row, v
<1>4. ValuesOK(row) /\ row.base = Total(row.items)
  BY <1>2, <1>3, RowValues
<1> QED BY <1>1, <1>3, <1>4, ComboWriteInv

\* The items are those of the values, unless another update overlapped.
LEMMA WriteComboInv == ASSUME CatalogueInv, NEW d \in Desks, WriteCombo(d) PROVE CatalogueInv'
<1> DEFINE r == request[d]
           c == r.whose
           m == Merged(r.change.deal, r.old)
           now == combo[c]
           items == IF r.change.services = Nothing THEN now.items ELSE r.items
           active == Else(r.change.active, now.active)
           v == Computed(m, NewBase(r))
           row == Row(v, items, active, now.deleted)
<1>1. UpdateOK(r) /\ c \in DOMAIN combo /\ c \in Combos
  BY DEF WriteCombo, CatalogueInv, RequestOK, UpdateOK
<1>2. /\ Computable(m, NewBase(r)) /\ combo' = [combo EXCEPT ![c] = row]
      /\ overlapped' = (IF \E e \in Desks \ {d} : Updating(e, c) THEN overlapped \cup {c} ELSE overlapped)
      /\ End(d) /\ UNCHANGED <<service, booking, excused>>
  BY DEF WriteCombo
<1>3. m.pricing \in Pricings
  <2>1. r.change.deal.pricing \in Pricings \cup {Nothing} /\ r.old.pricing \in Pricings
    BY <1>1, CatalogueAssumption DEF UpdateOK
  <2>2. m.pricing = Else(r.change.deal.pricing, r.old.pricing)
    BY DEF Merged
  <2> QED BY <2>1, <2>2 DEF Else
<1>4. ValuesOK(v) /\ v.base = NewBase(r)
  BY <1>2, <1>3, Computing
<1>5. /\ row.pricing = v.pricing /\ row.timing = v.timing /\ row.fixed = v.fixed
      /\ row.percent = v.percent /\ row.custom = v.custom /\ row.base = v.base /\ row.final = v.final
      /\ row.items = items /\ row.deleted = now.deleted
      /\ row = Row(row, row.items, row.active, row.deleted)
  BY RowFields
<1> HIDE DEF v, row
<1>6. ValuesOK(row)
  BY <1>4, <1>5, RowValues
<1>7. combo' = [y \in DOMAIN combo \cup {c} |-> IF y = c THEN row ELSE combo[y]]
  BY <1>1, <1>2 DEF CatalogueInv
<1>8. ASSUME c \notin overlapped' PROVE row.base = Total(row.items)
  <2>1. c \notin overlapped
    BY <1>2, <1>8
  <2>2. items = r.items
    BY <1>1, <2>1 DEF UpdateOK
  <2> QED BY <1>4, <1>5, <2>2 DEF NewBase
<1>9. c \notin overlapped' => \A e \in Desks \ {d} : ~ Updating(e, c)
  BY <1>2
<1>10. overlapped \subseteq overlapped' /\ excused \subseteq excused' /\ row.deleted = combo[c].deleted
  BY <1>2, <1>5
<1>11. End(d) /\ UNCHANGED <<service, booking>>
  BY <1>2
<1>12. row = Row(row, row.items, row.active, row.deleted)
  BY <1>5
<1> HIDE DEF c
<1>13. \A a \in Bookings \ excused' : Holds(a, c) /\ row.deleted => combo[c].deleted
  BY <1>10
<1>14. c \in Combos
  BY <1>1
<1> QED BY <1>6, <1>7, <1>8, <1>9, <1>10, <1>11, <1>12, <1>13, <1>14, ComboWriteInv

\* Switching it changes neither values nor items.
LEMMA SetVisibilityInv == ASSUME CatalogueInv, NEW d \in Desks, SetVisibility(d) PROVE CatalogueInv'
<1> DEFINE c == request[d].whose
           row == [combo[c] EXCEPT !.active = request[d].active]
<1>1. /\ combo' = [combo EXCEPT ![c] = row] /\ End(d)
      /\ UNCHANGED <<service, booking, overlapped, excused>>
  BY DEF SetVisibility
<1>2. c \in DOMAIN combo /\ c \in Combos /\ ComboOK(c)
  BY DEF SetVisibility, CatalogueInv, RequestOK
<1>3. combo[c] = Row(combo[c], combo[c].items, combo[c].active, combo[c].deleted)
  BY <1>2 DEF ComboOK
<1>4. row = Row(combo[c], combo[c].items, request[d].active, combo[c].deleted)
  <2>1. PICK p, t, f, q, k, b, l, i, x, y :
          combo[c] = [pricing |-> p, timing |-> t, fixed |-> f, percent |-> q, custom |-> k, base |-> b,
                      final |-> l, items |-> i, active |-> x, deleted |-> y]
    BY <1>3 DEF Row
  <2> QED BY <2>1 DEF Row
<1> HIDE DEF row
<1>5. /\ row.pricing = combo[c].pricing /\ row.timing = combo[c].timing /\ row.fixed = combo[c].fixed
      /\ row.percent = combo[c].percent /\ row.custom = combo[c].custom /\ row.base = combo[c].base
      /\ row.final = combo[c].final /\ row.items = combo[c].items /\ row.deleted = combo[c].deleted
      /\ row = Row(row, row.items, row.active, row.deleted)
  BY <1>4, RowFields
<1>6. ValuesOK(row) /\ (c \notin overlapped => row.base = Total(row.items))
  BY <1>2, <1>5, RowValues DEF ComboOK
<1>7. combo' = [y \in DOMAIN combo \cup {c} |-> IF y = c THEN row ELSE combo[y]]
  BY <1>1, <1>2 DEF CatalogueInv
<1> HIDE DEF c
<1> QED BY <1>1, <1>2, <1>5, <1>6, <1>7, ComboWriteInv

\* What was booked since is excused, and there was nothing before.
LEMMA DeleteComboInv == ASSUME CatalogueInv, NEW d \in Desks, DeleteCombo(d) PROVE CatalogueInv'
<1> DEFINE c == request[d].whose
           row == [combo[c] EXCEPT !.active = FALSE, !.deleted = TRUE]
<1>1. /\ combo' = [combo EXCEPT ![c] = row] /\ End(d) /\ excused' = excused \cup request[d].since
      /\ UNCHANGED <<service, booking, overlapped>>
  <2>1. combo' = [combo EXCEPT ![c].active = FALSE, ![c].deleted = TRUE]
    BY DEF DeleteCombo
  <2>2. c \in DOMAIN combo
    BY DEF DeleteCombo, CatalogueInv, RequestOK
  <2>3. combo' = [combo EXCEPT ![c] = row]
    BY <2>1, <2>2 DEF CatalogueInv
  <2> QED BY <2>3 DEF DeleteCombo
<1>2. /\ c \in DOMAIN combo /\ c \in Combos /\ ComboOK(c)
      /\ \A a \in Bookings \ excused' : ~ Holds(a, c)
  BY <1>1 DEF DeleteCombo, CatalogueInv, RequestOK
<1>3. combo[c] = Row(combo[c], combo[c].items, combo[c].active, combo[c].deleted)
  BY <1>2 DEF ComboOK
<1> DEFINE old == combo[c]
           no == FALSE
           yes == TRUE
<1> HIDE DEF no, yes
<1>4. row = Row(old, old.items, no, yes)
  <2> HIDE DEF c, old
  <2>1. PICK p, t, f, q, k, b, l, i, x, y :
          old = [pricing |-> p, timing |-> t, fixed |-> f, percent |-> q, custom |-> k, base |-> b,
                 final |-> l, items |-> i, active |-> x, deleted |-> y]
    BY <1>3 DEF Row, old
  <2> DEFINE half == [old EXCEPT !.active = no]
  <2>2. half = [pricing |-> p, timing |-> t, fixed |-> f, percent |-> q, custom |-> k, base |-> b,
                final |-> l, items |-> i, active |-> no, deleted |-> y]
    BY <2>1
  <2>3. row = [half EXCEPT !.deleted = yes]
    BY DEF old, no, yes
  <2> HIDE DEF half, row
  <2>4. row = [pricing |-> p, timing |-> t, fixed |-> f, percent |-> q, custom |-> k, base |-> b,
               final |-> l, items |-> i, active |-> no, deleted |-> yes]
    BY <2>2, <2>3
  <2> QED BY <2>1, <2>4 DEF Row
<1> HIDE DEF row
<1>5. /\ row.pricing = combo[c].pricing /\ row.timing = combo[c].timing /\ row.fixed = combo[c].fixed
      /\ row.percent = combo[c].percent /\ row.custom = combo[c].custom /\ row.base = combo[c].base
      /\ row.final = combo[c].final /\ row.items = combo[c].items
      /\ row = Row(row, row.items, row.active, row.deleted)
  BY <1>4, RowFields
<1>6. ValuesOK(row) /\ (c \notin overlapped => row.base = Total(row.items))
  BY <1>2, <1>5, RowValues DEF ComboOK
<1>7. combo' = [y \in DOMAIN combo \cup {c} |-> IF y = c THEN row ELSE combo[y]]
  BY <1>1, <1>2 DEF CatalogueInv
<1> HIDE DEF c
<1> QED BY <1>1, <1>2, <1>5, <1>6, <1>7, ComboWriteInv

\* Bookings that only lose what holds a service or a combo.
LEMMA LooseInv ==
  ASSUME CatalogueInv, NEW a \in Bookings, NEW b, booking' = [booking EXCEPT ![a] = b],
         UNCHANGED <<service, combo, request, overlapped, excused>>,
         b = [service |-> b.service, combo |-> b.combo, staff |-> b.staff, when |-> b.when, status |-> b.status],
         booking[a] # Nothing, b.service = booking[a].service, b.combo = booking[a].combo,
         b.status = "live" => booking[a].status = "live", b.when = "future" => booking[a].when = "future"
  PROVE  CatalogueInv'
<1>1. /\ booking' = [x \in Bookings |-> booking'[x]] /\ booking'[a] = b
      /\ \A x \in Bookings \ {a} : booking'[x] = booking[x]
  BY DEF CatalogueInv
<1>2. \A x \in Bookings : Future(x)' => Future(x) /\ booking'[x].service = booking[x].service
  BY <1>1 DEF Future, Stands
<1>3. \A x \in Bookings : \A y : (Needs(x, y)' => Needs(x, y)) /\ (Holds(x, y)' => Holds(x, y))
  BY <1>1, <1>2 DEF Needs, Holds, Stands
<1>4. ASSUME NEW e \in Desks PROVE RequestOK(e)'
  <2>1. RequestOK(e)
    BY DEF CatalogueInv
  <2> QED BY <1>3, <2>1, RequestKept
<1>5. \A x \in Bookings : BookingOK(x)'
  BY <1>1 DEF CatalogueInv, BookingOK
<1>6. \A c \in DOMAIN combo : ComboOK(c)'
  BY DEF CatalogueInv, ComboOK
<1>7. FutureIsOnSale'
  <2>1. ASSUME NEW x \in Bookings \ excused, Future(x)' PROVE OnSale(booking[x].service)'
    BY <1>2, <2>1 DEF CatalogueInv, FutureIsOnSale, OnSale
  <2>2. ASSUME NEW x \in Bookings \ excused, Stands(x)', booking'[x].combo # Nothing
        PROVE  ~combo[booking'[x].combo].deleted
    BY <1>1, <2>2 DEF CatalogueInv, FutureIsOnSale, Stands
  <2> QED BY <2>1, <2>2 DEF FutureIsOnSale
<1> QED BY <1>1, <1>4, <1>5, <1>6, <1>7 DEF CatalogueInv

LEMMA PassInv == ASSUME CatalogueInv, NEW a \in Bookings, Pass(a) PROVE CatalogueInv'
<1> DEFINE b == [booking[a] EXCEPT !.when = "past"]
<1>1. booking[a] # Nothing /\ booking' = [booking EXCEPT ![a] = b]
      /\ UNCHANGED <<service, combo, request, overlapped, excused>>
  BY DEF Pass, Future, Stands
<1>2. PICK s, c, p, w, l : booking[a] = [service |-> s, combo |-> c, staff |-> p, when |-> w, status |-> l]
  BY <1>1 DEF CatalogueInv, BookingOK
<1>3. b = [service |-> s, combo |-> c, staff |-> p, when |-> "past", status |-> l]
  BY <1>2
<1>4. /\ b = [service |-> b.service, combo |-> b.combo, staff |-> b.staff, when |-> b.when, status |-> b.status]
      /\ b.service = booking[a].service /\ b.combo = booking[a].combo /\ b.status = booking[a].status
      /\ b.when = "past"
  <2> HIDE DEF b
  <2> QED BY <1>2, <1>3
<1>5. (b.status = "live" => booking[a].status = "live") /\ (b.when = "future" => booking[a].when = "future")
  BY <1>4
<1> HIDE DEF b
<1> QED BY <1>1, <1>4, <1>5, LooseInv

LEMMA SettleInv ==
  ASSUME CatalogueInv, NEW a \in Bookings, NEW no \in {"completed", "canceled"}, Settle(a, no)
  PROVE  CatalogueInv'
<1> DEFINE b == [booking[a] EXCEPT !.status = no]
<1>1. booking[a] # Nothing /\ booking' = [booking EXCEPT ![a] = b]
      /\ UNCHANGED <<service, combo, request, overlapped, excused>>
  BY DEF Settle
<1>2. PICK s, c, p, w, l : booking[a] = [service |-> s, combo |-> c, staff |-> p, when |-> w, status |-> l]
  BY <1>1 DEF CatalogueInv, BookingOK
<1>3. no # "live"
  OBVIOUS
<1>4. b = [service |-> s, combo |-> c, staff |-> p, when |-> w, status |-> no]
  BY <1>2
<1>5. /\ b = [service |-> b.service, combo |-> b.combo, staff |-> b.staff, when |-> b.when, status |-> b.status]
      /\ b.service = booking[a].service /\ b.combo = booking[a].combo /\ b.status = no
      /\ b.when = booking[a].when
  <2> HIDE DEF b
  <2> QED BY <1>2, <1>4
<1>6. (b.status = "live" => booking[a].status = "live") /\ (b.when = "future" => booking[a].when = "future")
  BY <1>3, <1>5
<1> HIDE DEF b
<1> QED BY <1>1, <1>5, <1>6, LooseInv

\* A booking made or moved is told to every removal under way.
LEMMA TellInv ==
  ASSUME CatalogueInv, NEW a \in Bookings, NEW b, NEW d,
         booking' = [booking EXCEPT ![a] = b], request' = Told(a, d),
         excused' = IF Withdrawn(b) THEN excused \cup {a} ELSE excused,
         UNCHANGED <<service, combo, overlapped>>,
         b = [service |-> b.service, combo |-> b.combo, staff |-> b.staff, when |-> b.when, status |-> b.status],
         b.service \in Services, b.combo \in DOMAIN combo \cup {Nothing}
  PROVE  CatalogueInv'
<1>1. /\ booking' = [x \in Bookings |-> booking'[x]] /\ booking'[a] = b
      /\ \A x \in Bookings \ {a} : booking'[x] = booking[x]
  BY DEF CatalogueInv
<1>2. excused \subseteq excused' /\ (Withdrawn(b) => a \in excused')
  OBVIOUS
<1>3. \A x \in Bookings \ {a} :
        (Future(x)' <=> Future(x)) /\ \A y : (Needs(x, y)' <=> Needs(x, y)) /\ (Holds(x, y)' <=> Holds(x, y))
  BY <1>1 DEF Future, Stands, Needs, Holds
<1>4. ASSUME NEW e \in Desks PROVE RequestOK(e)'
  <2>1. RequestOK(e)
    BY DEF CatalogueInv
  <2>2. request'[e] = IF e = d THEN Nothing
                      ELSE IF Doing(e, "withdraw") \/ Doing(e, "delete combo")
                      THEN [request[e] EXCEPT !.since = @ \cup {a}] ELSE request[e]
    BY DEF Told
  <2>3. CASE e = d
    BY <2>2, <2>3, PlainRequest
  <2>4. CASE e # d /\ ~ Doing(e, "withdraw") /\ ~ Doing(e, "delete combo")
    <3>1. request'[e] = request[e]
      BY <2>2, <2>4
    <3> QED BY <1>2, <2>1, <2>4, <3>1, RequestKept
  <2>5. CASE e # d /\ (Doing(e, "withdraw") \/ Doing(e, "delete combo"))
    <3>1. PICK at, whose, since : request[e] = [at |-> at, whose |-> whose, since |-> since]
      BY <2>1, <2>5 DEF RequestOK
    <3>2. PICK q : q = [at |-> at, whose |-> whose, since |-> since \cup {a}]
      OBVIOUS
    <3>10. request[e].at = at /\ request[e].whose = whose /\ request[e].since = since
      BY <3>1
    <3>3. request'[e] = q
      <4>1. request'[e] = [request[e] EXCEPT !.since = @ \cup {a}]
        BY <2>2, <2>5
      <4> DEFINE r == request[e]
      <4>2. r = [at |-> at, whose |-> whose, since |-> since]
        BY <3>1
      <4> HIDE DEF r
      <4>3. [r EXCEPT !.since = @ \cup {a}] = q
        BY <3>2, <4>2
      <4> QED BY <4>1, <4>3 DEF r
    <3>4. /\ q = [at |-> q.at, whose |-> q.whose, since |-> q.since]
          /\ q.at = at /\ q.whose = whose /\ q.since = since \cup {a}
      BY <3>2
    <3>5. at \in {"withdraw", "delete combo"} /\ Doing(e, at)
      <4>1. request[e] # Nothing /\ request[e].at \in {"withdraw", "delete combo"}
        BY <2>5 DEF Doing
      <4> QED BY <3>10, <4>1 DEF Doing
    <3>6. \A x \in Bookings \ (excused' \cup q.since) : x \in Bookings \ (excused \cup since) /\ x # a
      BY <1>2, <3>4
    <3>7. at = "withdraw" =>
            q.whose \in Services /\ \A x \in Bookings \ (excused' \cup q.since) : ~ Needs(x, q.whose)'
      <4> SUFFICES ASSUME at = "withdraw"
                   PROVE  whose \in Services /\ \A x \in Bookings \ (excused' \cup q.since) : ~ Needs(x, whose)'
        BY <3>4
      <4>1. whose \in Services /\ \A x \in Bookings \ (excused \cup since) : ~ Needs(x, whose)
        BY <2>1, <3>5, <3>10 DEF RequestOK
      <4> QED BY <1>3, <3>6, <4>1
    <3>8. at = "delete combo" =>
            q.whose \in DOMAIN combo' /\ \A x \in Bookings \ (excused' \cup q.since) : ~ Holds(x, q.whose)'
      <4> SUFFICES ASSUME at = "delete combo"
                   PROVE  whose \in DOMAIN combo /\ \A x \in Bookings \ (excused' \cup q.since) : ~ Holds(x, whose)'
        BY <3>4
      <4>1. whose \in DOMAIN combo /\ \A x \in Bookings \ (excused \cup since) : ~ Holds(x, whose)
        BY <2>1, <3>5, <3>10 DEF RequestOK
      <4> QED BY <1>3, <3>6, <4>1
    <3>9. \A p : Doing(e, p)' => p = at
      BY <3>3, <3>4 DEF Doing
    <3> QED BY <3>3, <3>4, <3>5, <3>7, <3>8, <3>9 DEF RequestOK
  <2> QED BY <2>3, <2>4, <2>5
<1>5. \A x \in Bookings : BookingOK(x)'
  BY <1>1 DEF CatalogueInv, BookingOK
<1>6. \A c \in DOMAIN combo : ComboOK(c)'
  BY DEF CatalogueInv, ComboOK
<1>7. FutureIsOnSale'
  <2>1. ASSUME NEW x \in Bookings \ excused', Future(x)' PROVE OnSale(booking[x].service)'
    <3>1. CASE x = a
      BY <1>1, <1>2, <2>1, <3>1 DEF Withdrawn, OnSale
    <3>2. CASE x # a
      BY <1>1, <1>2, <1>3, <2>1, <3>2 DEF CatalogueInv, FutureIsOnSale, OnSale
    <3> QED BY <3>1, <3>2
  <2>2. ASSUME NEW x \in Bookings \ excused', Stands(x)', booking'[x].combo # Nothing
        PROVE  ~combo[booking'[x].combo].deleted
    <3>1. CASE x = a
      BY <1>1, <1>2, <2>2, <3>1 DEF Withdrawn
    <3>2. CASE x # a
      BY <1>1, <1>2, <2>2, <3>2 DEF CatalogueInv, FutureIsOnSale, Stands
    <3> QED BY <3>1, <3>2
  <2> QED BY <2>1, <2>2 DEF FutureIsOnSale
<1>8. request' = [e \in Desks |-> request'[e]]
  BY DEF Told
<1> QED BY <1>1, <1>4, <1>5, <1>6, <1>7, <1>8 DEF CatalogueInv

LEMMA InsertInv ==
  ASSUME CatalogueInv, NEW d \in Desks, NEW a \in Bookings, NEW when, Insert(d, a, when)
  PROVE  CatalogueInv'
<1> DEFINE yes == "live"
           b == [service |-> request[d].service, combo |-> request[d].combo,
                 staff |-> request[d].staff, when |-> when, status |-> yes]
<1>1. /\ booking' = [booking EXCEPT ![a] = b] /\ request' = Told(a, d)
      /\ excused' = (IF Withdrawn(b) THEN excused \cup {a} ELSE excused)
      /\ UNCHANGED <<service, combo, overlapped>>
  BY DEF Insert
<1>2. request[d].service \in Services /\ request[d].combo \in DOMAIN combo \cup {Nothing}
  BY DEF Insert, CatalogueInv, RequestOK
<1> HIDE DEF yes
<1>3. /\ b = [service |-> b.service, combo |-> b.combo, staff |-> b.staff, when |-> b.when, status |-> b.status]
      /\ b.service = request[d].service /\ b.combo = request[d].combo
  OBVIOUS
<1> HIDE DEF b
<1> QED BY <1>1, <1>2, <1>3, TellInv

LEMMA MoveByCustomerInv ==
  ASSUME CatalogueInv, NEW a \in Bookings, NEW s \in Services, NEW p \in Staff, NEW when \in {"past", "future"},
         MoveByCustomer(a, s, p, when)
  PROVE  CatalogueInv'
<1>1. booking[a] # Nothing
  BY DEF MoveByCustomer
<1>2. PICK s0, c, p0, w0, l : booking[a] = [service |-> s0, combo |-> c, staff |-> p0, when |-> w0, status |-> l]
  BY <1>1 DEF CatalogueInv, BookingOK
<1>3. c \in DOMAIN combo \cup {Nothing}
  BY <1>1, <1>2 DEF CatalogueInv, BookingOK
<1> DEFINE old == booking[a]
           b1 == [old EXCEPT !.service = s]
           b2 == [b1 EXCEPT !.staff = p]
           b == [b2 EXCEPT !.when = when]
<1>4. Moved(a, b, Nothing)
  BY DEF MoveByCustomer
<1>5. b1 = [service |-> s, combo |-> c, staff |-> p0, when |-> w0, status |-> l]
  BY <1>2
<1> HIDE DEF b1
<1>6. b2 = [service |-> s, combo |-> c, staff |-> p, when |-> w0, status |-> l]
  BY <1>5
<1> HIDE DEF b2
<1>7. b = [service |-> s, combo |-> c, staff |-> p, when |-> when, status |-> l]
  BY <1>6
<1> HIDE DEF b
<1>8. /\ b = [service |-> b.service, combo |-> b.combo, staff |-> b.staff, when |-> b.when, status |-> b.status]
      /\ b.service \in Services /\ b.combo \in DOMAIN combo \cup {Nothing}
  BY <1>3, <1>7
<1> QED BY <1>4, <1>8, TellInv DEF Moved

\* What the other writers of an appointment rely on is that it is one.
LEMMA AskMoveInv ==
  ASSUME CatalogueInv, NEW d \in Desks, NEW a \in Bookings,
         AskToConfirm(d, a) \/ \E when \in {"past", "future"} : AskToMove(d, a, when)
  PROVE  CatalogueInv'
<1>1. PICK x : /\ Begin(d, x) /\ UNCHANGED <<service, combo, booking, overlapped, excused>>
               /\ x.at \in {"move", "confirm"} /\ x.whose = a
  <2>1. CASE AskToConfirm(d, a)
    <3> DEFINE x == [at |-> "confirm", whose |-> a]
    <3>1. x.at = "confirm" /\ x.whose = a /\ Begin(d, x) /\ UNCHANGED <<service, combo, booking, overlapped, excused>>
      BY <2>1 DEF AskToConfirm
    <3> HIDE DEF x
    <3> QED BY <3>1
  <2>2. ASSUME NEW when \in {"past", "future"}, AskToMove(d, a, when)
        PROVE  \E x : /\ Begin(d, x) /\ UNCHANGED <<service, combo, booking, overlapped, excused>>
                      /\ x.at \in {"move", "confirm"} /\ x.whose = a
    <3> DEFINE x == [at |-> "move", whose |-> a, when |-> when]
    <3>1. x.at = "move" /\ x.whose = a /\ Begin(d, x) /\ UNCHANGED <<service, combo, booking, overlapped, excused>>
      BY <2>2 DEF AskToMove
    <3> HIDE DEF x
    <3> QED BY <3>1
  <2> QED BY <2>1, <2>2
<1>2. request'[d] = x => RequestOK(d)'
  BY <1>1 DEF RequestOK, Doing
<1> QED BY <1>1, <1>2, SetOutInv

LEMMA MoveByProfessionalInv ==
  ASSUME CatalogueInv, NEW d \in Desks, MoveByProfessional(d)
  PROVE  CatalogueInv'
<1> PICK a, when : a = request[d].whose /\ when = request[d].when
  OBVIOUS
<1>1. a \in Bookings /\ booking[a] # Nothing
  <2>1. RequestOK(d)
    BY DEF CatalogueInv
  <2>2. booking[a] # Nothing /\ (Doing(d, "move") \/ Doing(d, "confirm"))
    BY DEF MoveByProfessional
  <2> QED BY <2>1, <2>2 DEF RequestOK
<1>2. BookingOK(a)
  BY <1>1 DEF CatalogueInv
<1>3. PICK s0, c, p0, w0, l : booking[a] = [service |-> s0, combo |-> c, staff |-> p0, when |-> w0, status |-> l]
  BY <1>2, <1>1 DEF BookingOK
<1>4. s0 \in Services /\ c \in DOMAIN combo \cup {Nothing}
  BY <1>2, <1>1, <1>3 DEF BookingOK
<1> DEFINE old == booking[a]
           b1 == [old EXCEPT !.when = when]
           b == [b1 EXCEPT !.status = "live"]
<1>5. Moved(a, b, d)
  BY DEF MoveByProfessional
<1>6. b1 = [service |-> s0, combo |-> c, staff |-> p0, when |-> when, status |-> l]
  BY <1>3
<1> HIDE DEF b1
<1>7. b = [service |-> s0, combo |-> c, staff |-> p0, when |-> when, status |-> "live"]
  BY <1>6
<1> HIDE DEF b
<1>8. /\ b = [service |-> b.service, combo |-> b.combo, staff |-> b.staff, when |-> b.when, status |-> b.status]
      /\ b.service \in Services /\ b.combo \in DOMAIN combo \cup {Nothing}
  BY <1>4, <1>7
<1> QED BY <1>1, <1>5, <1>8, TellInv DEF Moved

LEMMA ConfirmBookingInv ==
  ASSUME CatalogueInv, NEW d \in Desks, ConfirmBooking(d)
  PROVE  CatalogueInv'
<1> PICK a : a = request[d].whose
  OBVIOUS
<1>1. a \in Bookings /\ booking[a] # Nothing
  <2>1. RequestOK(d)
    BY DEF CatalogueInv
  <2>2. booking[a] # Nothing /\ (Doing(d, "move") \/ Doing(d, "confirm"))
    BY DEF ConfirmBooking
  <2> QED BY <2>1, <2>2 DEF RequestOK
<1>2. BookingOK(a)
  BY <1>1 DEF CatalogueInv
<1>3. PICK s0, c, p0, w0, l : booking[a] = [service |-> s0, combo |-> c, staff |-> p0, when |-> w0, status |-> l]
  BY <1>2, <1>1 DEF BookingOK
<1>4. s0 \in Services /\ c \in DOMAIN combo \cup {Nothing}
  BY <1>2, <1>1, <1>3 DEF BookingOK
<1> DEFINE b == [booking[a] EXCEPT !.status = "live"]
<1>5. Moved(a, b, d)
  BY DEF ConfirmBooking
<1>6. b = [service |-> s0, combo |-> c, staff |-> p0, when |-> w0, status |-> "live"]
  BY <1>3
<1> HIDE DEF b
<1>7. /\ b = [service |-> b.service, combo |-> b.combo, staff |-> b.staff, when |-> b.when, status |-> b.status]
      /\ b.service \in Services /\ b.combo \in DOMAIN combo \cup {Nothing}
  BY <1>4, <1>6
<1> QED BY <1>1, <1>5, <1>7, TellInv DEF Moved

LEMMA CatalogueFrame == ASSUME CatalogueInv, UNCHANGED catalogueVars PROVE CatalogueInv'
<1>1. UNCHANGED <<service, combo, booking, overlapped, excused, request>>
  BY DEF catalogueVars
<1>2. service' \in [Services -> ServiceRow \cup {Nothing}]
  BY <1>1 DEF CatalogueInv
<1>3. \A a \in Bookings : OnSale(booking[a].service) => OnSale(booking[a].service)'
  BY <1>1 DEF OnSale
<1> QED BY <1>1, <1>2, <1>3, ServiceWriteInv

LEMMA CatalogueInitInv == CatalogueInit => CatalogueInv
<1> SUFFICES ASSUME CatalogueInit PROVE CatalogueInv
  OBVIOUS
<1>1. service \in [Services -> ServiceRow \cup {Nothing}]
  <2>1. \A v \in Prices : [price |-> v.price, length |-> v.length, onSale |-> TRUE] \in ServiceRow
    BY CatalogueAssumption DEF ServiceRow
  <2> QED BY <2>1 DEF CatalogueInit
<1>2. DOMAIN combo = {} /\ combo = [c \in DOMAIN combo |-> combo[c]]
  BY DEF CatalogueInit
<1>3. \A d \in Desks : RequestOK(d)
  BY DEF CatalogueInit, RequestOK, Doing
<1>4. \A a \in Bookings : booking[a] = Nothing
  BY DEF CatalogueInit
<1>5. booking = [a \in Bookings |-> booking[a]] /\ request = [d \in Desks |-> request[d]]
  BY DEF CatalogueInit
<1> QED BY <1>1, <1>2, <1>3, <1>4, <1>5 DEF CatalogueInv, BookingOK, FutureIsOnSale, Future, Stands

(* A combo's base is the sum of the items it keeps, and its price and      *)
(* length what its modes make of that base, whatever became of its         *)
(* services, unless two updates overlapped; and what is booked is on sale  *)
(* unless it was booked, moved or confirmed while, or after, it was        *)
(* withdrawn: for any services, combos, professionals, bookings and        *)
(* requests at once.                                                       *)
THEOREM SoldAsListedTheorem == CatalogueSpec => []SoldAsListed
<1>1. CatalogueInit => CatalogueInv
  BY CatalogueInitInv
<1>2. CatalogueInv /\ [CatalogueNext]_catalogueVars => CatalogueInv'
  <2> SUFFICES ASSUME CatalogueInv, [CatalogueNext]_catalogueVars PROVE CatalogueInv'
    OBVIOUS
  <2>1. CASE ServiceNext
    BY <2>1, CreateServiceInv, DeleteServiceInv, LinksInv, WriteServiceInv, CheckRemovalInv, WithdrawServiceInv
       DEF ServiceNext
  <2>2. CASE StaffNext
    BY <2>2, StaffInv, LinksInv DEF StaffNext
  <2>3. CASE ComboNext
    BY <2>3, AskComboInv, InsertComboInv, CheckVisibilityInv, ReadComboInv, ReadServicesInv, WriteComboInv,
       SetVisibilityInv, DeleteComboInv, CheckRemovalInv DEF ComboNext
  <2>4. CASE BookingNext
    BY <2>4, AskBookingInv, InsertInv, AskMoveInv, MoveByCustomerInv, MoveByProfessionalInv, ConfirmBookingInv,
       PassInv, SettleInv DEF BookingNext
  <2>5. CASE \E d \in Desks : GiveUp(d)
    BY <2>5, EndInv DEF GiveUp
  <2>6. CASE UNCHANGED catalogueVars
    BY <2>6, CatalogueFrame
  <2> QED BY <2>1, <2>2, <2>3, <2>4, <2>5, <2>6 DEF CatalogueNext
<1>3. CatalogueInv => SoldAsListed
  BY DEF CatalogueInv, SoldAsListed, ComboAddsUp, ComboOK, ValuesOK
<1> QED BY <1>1, <1>2, <1>3, PTL DEF CatalogueSpec

-----------------------------------------------------------------------------
(* Reports.  A total that was read is that of its range as long as nothing *)
(* was entered since, and what is answered, now or from the cache, adds up *)
(* under the zones of the server and the session, which never change.      *)

LEMMA QuotientBetween ==
  ASSUME NEW x \in Int, NEW d \in Nat \ {0}, NEW a \in Int
  PROVE  /\ x \div d \in Int
         /\ a <= x \div d <=> a * d <= x
         /\ x \div d < a <=> x < a * d
OBVIOUS

LEMMA Scaled ==
  ASSUME NEW a \in Int, NEW b \in Int, NEW d \in Nat \ {0}, a <= b
  PROVE  a * d <= b * d
OBVIOUS

AnyRow == [at : Int, last : BOOLEAN]
InPoints(chart) == UNION {chart[p] : p \in DOMAIN chart}
Apart(chart) == \A p, q \in DOMAIN chart : p # q => chart[p] \cap chart[q] = {}

AnswerOK(p) ==
    ~p.moved =>
        /\ p.kind = "dashboard" /\ server = session + Behind =>
               InPoints(p.chart) = p.now /\ Apart(p.chart) /\ p.now \cap p.before = {}
        /\ p.kind = "analytics" =>
               /\ Apart(p.chart)
               /\ DaysIn(p.range) <= WeekLimit /\ server = -Behind /\ session = 0 =>
                   /\ InPoints(p.chart) \subseteq p.now
                   /\ \A r \in p.now \ InPoints(p.chart) : r.last
               /\ DaysIn(p.range) > WeekLimit /\ server = session + Behind =>
                   p.now \subseteq InPoints(p.chart)

\* A report of which the chart is still to be read.
Unfinished ==
    [kind : {"dashboard", "analytics"}, range : Ranges, left : SUBSET {"now", "before"},
     now : SUBSET AnyRow, before : SUBSET AnyRow, chart : {<<>>}, moved : BOOLEAN, done : {FALSE}]

ReportOK(p) == p.kind \in {"dashboard", "analytics"} /\ p.done = TRUE /\ AnswerOK(p)

TotalsOK(p) ==
    ~p.moved =>
        /\ "now" \notin p.left => p.now = Within(p.range)
        /\ "before" \notin p.left => p.before = Within(Previous(p.range))

ReportsInv ==
    /\ server \in Int /\ session \in Int /\ clock \in Int /\ rows \in SUBSET AnyRow
    /\ \/ report = NoReport
       \/ report \in Unfinished /\ TotalsOK(report)
       \/ ReportOK(report)
    /\ cache.range \in Ranges => ReportOK(cache.answer)

LEMMA DayWithin ==
  ASSUME ReportsAssumption, server \in Int, session \in Int, server = session + Behind,
         NEW range \in Ranges, NEW r \in AnyRow
  PROVE  /\ DayOf(r) \in Int
         /\ DayOf(r) \in range.from .. range.to <=>
               range.from * DayTicks - server <= r.at /\ r.at < (range.to + 1) * DayTicks - server
<1> DEFINE x == r.at + Behind + session
<1>1. /\ DayTicks \in Nat \ {0} /\ x \in Int /\ x = r.at + server
      /\ range.from \in Int /\ range.to + 1 \in Int /\ r.at \in Int
  BY DEF ReportsAssumption, Ranges, AnyRow
<1>2. DayOf(r) = x \div DayTicks
  BY DEF DayOf
<1> HIDE DEF x
<1>3. DayOf(r) \in Int /\ (range.from <= DayOf(r) <=> range.from * DayTicks <= x)
  BY <1>1, <1>2, QuotientBetween
<1>4. DayOf(r) < range.to + 1 <=> x < (range.to + 1) * DayTicks
  BY <1>1, <1>2, QuotientBetween
<1> DEFINE a == range.from * DayTicks
           b == (range.to + 1) * DayTicks
<1>5. a \in Int /\ b \in Int
  BY <1>1
<1>6. DayOf(r) \in range.from .. range.to <=> range.from <= DayOf(r) /\ DayOf(r) < range.to + 1
  <2>1. DayOf(r) \in Int /\ range.from \in Int /\ range.to \in Int
    BY <1>3 DEF Ranges, ReportsAssumption
  <2> QED BY <2>1
<1> HIDE DEF a, b
<1>7. (a <= x <=> a - server <= r.at) /\ (x < b <=> r.at < b - server)
  BY <1>1, <1>5
<1> QED BY <1>3, <1>4, <1>6, <1>7 DEF a, b

LEMMA DailyAddsUp ==
  ASSUME ReportsAssumption, server \in Int, session \in Int, server = session + Behind,
         rows \in SUBSET AnyRow, NEW range \in Ranges
  PROVE  /\ InPoints(DailyChart(range)) = Within(range) /\ Apart(DailyChart(range))
         /\ Within(range) \cap Within(Previous(range)) = {}
<1> DEFINE c == DailyChart(range)
<1>1. DOMAIN c = range.from .. range.to /\ \A d \in DOMAIN c : c[d] = {r \in rows : DayOf(r) = d}
  BY DEF DailyChart, DaysOf
<1>2. \A r \in rows : r \in Within(range) <=> DayOf(r) \in range.from .. range.to
  BY DayWithin DEF Within
<1>3. Within(range) \subseteq rows
  BY DEF Within
<1> HIDE DEF c
<1>4. InPoints(c) = Within(range)
  BY <1>1, <1>2, <1>3 DEF InPoints
<1>5. Apart(c)
  BY <1>1 DEF Apart
<1>6. ASSUME NEW r \in Within(range), r \in Within(Previous(range)) PROVE FALSE
  <2>1. Previous(range).to + 1 = range.from
    BY DEF Previous, Ranges, ReportsAssumption
  <2>2. r.at < range.from * DayTicks - server
    BY <1>6, <2>1 DEF Within
  <2>3. range.from * DayTicks - server <= r.at
    BY DEF Within
  <2>4. range.from * DayTicks - server \in Int /\ r.at \in Int
    BY <1>3 DEF Ranges, ReportsAssumption, AnyRow
  <2> QED BY <2>2, <2>3, <2>4
<1> QED BY <1>4, <1>5, <1>6 DEF c

LEMMA MonthlyAddsUp ==
  ASSUME ReportsAssumption, server \in Int, session \in Int,
         rows \in SUBSET AnyRow, NEW range \in Ranges
  PROVE  /\ Apart(MonthlyChart(range))
         /\ server = session + Behind => Within(range) \subseteq InPoints(MonthlyChart(range))
<1> DEFINE c == MonthlyChart(range)
<1>1. /\ DOMAIN c = {MonthOf(d) : d \in range.from .. range.to}
      /\ \A m \in DOMAIN c : c[m] = {r \in rows : MonthOf(DayOf(r)) = m}
  BY DEF MonthlyChart
<1> HIDE DEF c
<1>2. Apart(c)
  BY <1>1 DEF Apart
<1>3. ASSUME server = session + Behind, NEW r \in Within(range) PROVE r \in InPoints(c)
  <2>1. r \in rows /\ r \in AnyRow
    BY DEF Within
  <2>2. DayOf(r) \in range.from .. range.to
    BY <1>3, <2>1, DayWithin DEF Within
  <2>3. MonthOf(DayOf(r)) \in DOMAIN c /\ r \in c[MonthOf(DayOf(r))]
    BY <1>1, <2>1, <2>2
  <2> QED BY <2>3 DEF InPoints
<1> QED BY <1>2, <1>3 DEF c

LEMMA LimitedLeast ==
  ASSUME NEW from, NEW step, NEW end, from \in Int, step \in Int, end \in Int
  PROVE  /\ Limited(from, step, end) \in Int
         /\ Limited(from, step, end) <= from + step /\ Limited(from, step, end) <= end
         /\ \A t \in Int : t < from + step /\ t < end => t < Limited(from, step, end)
<1> DEFINE S == {from + step, end}
<1>1. \E x \in S : \A y \in S : x <= y
  BY from + step <= end \/ end <= from + step
<1>2. Min(S) \in S /\ \A y \in S : Min(S) <= y
  BY <1>1 DEF Min
<1>3. Limited(from, step, end) = Min(S)
  BY DEF Limited
<1> QED BY <1>2, <1>3

LEMMA BucketsApart ==
  ASSUME ReportsAssumption, session \in Int, rows \in SUBSET AnyRow,
         NEW range \in Ranges, NEW days \in Nat \ {0}
  PROVE  Apart(BucketChart(range, days))
<1> DEFINE start == range.from * DayTicks + Behind
           end == (range.to + 1) * DayTicks + Behind
           step == days * DayTicks
           c == BucketChart(range, days)
<1>1. start \in Int /\ end \in Int /\ step \in Nat \ {0}
  BY DEF ReportsAssumption, Ranges
<1>2. /\ DOMAIN c = {start + i * step : i \in 0 .. (end - start - 1) \div step}
      /\ \A f \in DOMAIN c : c[f] \subseteq {r \in rows : f <= r.at - session /\ r.at - session < Limited(f, step, end)}
  BY DEF BucketChart
<1> HIDE DEF start, end, step, c
<1>3. ASSUME NEW i \in Int, NEW j \in Int, i < j, start + i * step \in DOMAIN c, start + j * step \in DOMAIN c
      PROVE  c[start + i * step] \cap c[start + j * step] = {}
  <2> DEFINE f == start + i * step
             g == start + j * step
  <2>1. (i + 1) * step <= j * step
    BY <1>1, <1>3, Scaled
  <2>2. f \in Int /\ g \in Int /\ f + step <= g
    BY <1>1, <2>1
  <2> HIDE DEF f, g
  <2>3. Limited(f, step, end) \in Int /\ Limited(f, step, end) <= f + step
    BY <1>1, <2>2, LimitedLeast
  <2>4. ASSUME NEW r, r \in c[f], r \in c[g] PROVE FALSE
    <3>1. r \in AnyRow /\ g <= r.at - session /\ r.at - session < Limited(f, step, end)
      BY <1>2, <1>3, <2>4 DEF f, g
    <3>2. r.at - session \in Int
      BY <3>1 DEF AnyRow
    <3> QED BY <1>1, <2>2, <2>3, <3>1, <3>2
  <2> QED BY <2>4 DEF f, g
<1>4. ASSUME NEW p \in DOMAIN c, NEW q \in DOMAIN c, p # q PROVE c[p] \cap c[q] = {}
  <2>1. PICK i \in 0 .. (end - start - 1) \div step : p = start + i * step
    BY <1>2
  <2>2. PICK j \in 0 .. (end - start - 1) \div step : q = start + j * step
    BY <1>2
  <2>3. i \in Int /\ j \in Int /\ i # j
    BY <1>4, <2>1, <2>2
  <2>4. CASE i < j
    BY <1>3, <2>1, <2>2, <2>3, <2>4
  <2>5. CASE j < i
    BY <1>3, <2>1, <2>2, <2>3, <2>5
  <2> QED BY <2>3, <2>4, <2>5
<1> QED BY <1>4 DEF Apart, c

LEMMA BucketsAddUpToTotal ==
  ASSUME ReportsAssumption, server = -Behind, session = 0, rows \in SUBSET AnyRow,
         NEW range \in Ranges, NEW days \in Nat \ {0}
  PROVE  /\ InPoints(BucketChart(range, days)) \subseteq Within(range)
         /\ \A r \in Within(range) \ InPoints(BucketChart(range, days)) : r.last
<1> DEFINE start == range.from * DayTicks + Behind
           end == (range.to + 1) * DayTicks + Behind
           step == days * DayTicks
           c == BucketChart(range, days)
<1>1. start \in Int /\ end \in Int /\ step \in Nat \ {0} /\ start < end
  <2>1. range.from \in Int /\ range.to \in Int /\ range.from <= range.to /\ DayTicks \in Nat \ {0} /\ Behind \in Nat
    BY DEF ReportsAssumption, Ranges
  <2>2. range.from * DayTicks <= range.to * DayTicks
    BY <2>1, Scaled
  <2>3. (range.to + 1) * DayTicks = range.to * DayTicks + DayTicks
    BY <2>1
  <2>4. range.from * DayTicks \in Int /\ range.to * DayTicks \in Int
    BY <2>1
  <2>5. step \in Nat \ {0}
    BY <2>1
  <2> QED BY <2>1, <2>2, <2>3, <2>4, <2>5
<1>2. /\ DOMAIN c = {start + i * step : i \in 0 .. (end - start - 1) \div step}
      /\ \A f \in DOMAIN c : c[f] =
            {r \in rows : /\ f <= r.at - session /\ r.at - session < Limited(f, step, end)
                          /\ ~(r.last /\ r.at - session = end - 1)}
  BY DEF BucketChart
<1>3. \A r \in AnyRow : r.at \in Int /\ r.at - session = r.at
  BY DEF AnyRow
<1>4. Within(range) = {r \in rows : start <= r.at /\ r.at < end}
  <2>1. range.from * DayTicks - server = start /\ (range.to + 1) * DayTicks - server = end
    BY DEF ReportsAssumption, Ranges
  <2> QED BY <2>1 DEF Within
<1> HIDE DEF start, end, step, c
<1>5. ASSUME NEW f \in DOMAIN c, NEW r \in c[f] PROVE r \in Within(range)
  <2>1. PICK i \in 0 .. (end - start - 1) \div step : f = start + i * step
    BY <1>2
  <2>2. i * step \in Nat
    BY <1>1, <2>1
  <2>3. f \in Int /\ start <= f
    BY <1>1, <2>1, <2>2
  <2>4. r \in rows /\ r \in AnyRow /\ f <= r.at /\ r.at < Limited(f, step, end)
    BY <1>2, <1>3
  <2>5. Limited(f, step, end) \in Int /\ Limited(f, step, end) <= end
    BY <1>1, <2>3, LimitedLeast
  <2> QED BY <1>1, <1>3, <1>4, <2>3, <2>4, <2>5
<1>6. ASSUME NEW r \in Within(range), ~r.last PROVE r \in InPoints(c)
  <2>1. r \in rows /\ r \in AnyRow /\ r.at \in Int /\ start <= r.at /\ r.at < end
    BY <1>3, <1>4
  <2> DEFINE x == r.at - start
             i == x \div step
             n == end - start - 1
             f == start + i * step
  <2>2. x \in Int /\ n \in Int /\ 0 <= x /\ x <= n
    BY <1>1, <2>1
  <2> HIDE DEF x, n
  <2>3. i \in Int /\ 0 <= i /\ i * step <= x /\ x < (i + 1) * step
    <3>1. i \in Int
      BY <1>1, <2>2, QuotientBetween
    <3>2. 0 <= i <=> 0 * step <= x
      BY <1>1, <2>2, QuotientBetween
    <3>3. i <= i <=> i * step <= x
      BY <1>1, <2>2, <3>1, QuotientBetween
    <3>4. i < i + 1 <=> x < (i + 1) * step
      BY <1>1, <2>2, <3>1, QuotientBetween
    <3> QED BY <1>1, <2>2, <3>1, <3>2, <3>3, <3>4
  <2> HIDE DEF i
  <2>4. i <= n \div step
    <3>1. i * step <= n
      BY <1>1, <2>2, <2>3
    <3> QED BY <1>1, <2>2, <2>3, <3>1, QuotientBetween
  <2>5. f \in Int /\ f <= r.at /\ r.at < f + step
    <3>1. i * step \in Int /\ (i + 1) * step = i * step + step
      BY <1>1, <2>3
    <3> HIDE DEF f
    <3> QED BY <1>1, <2>1, <2>3, <3>1 DEF f, x
  <2>6. f \in DOMAIN c
    <3>1. n \div step \in Int
      BY <1>1, <2>2, QuotientBetween
    <3>2. i \in 0 .. n \div step
      BY <2>3, <2>4, <3>1
    <3> QED BY <1>2, <3>2 DEF n
  <2> HIDE DEF f
  <2>7. r.at < Limited(f, step, end)
    BY <1>1, <2>1, <2>5, LimitedLeast
  <2>8. r \in c[f]
    BY <1>2, <1>3, <1>6, <2>1, <2>5, <2>6, <2>7
  <2> QED BY <2>6, <2>8 DEF InPoints
<1>7. InPoints(c) \subseteq Within(range)
  BY <1>5 DEF InPoints
<1>8. \A r \in Within(range) \ InPoints(c) : r.last
  BY <1>6
<1> QED BY <1>7, <1>8 DEF c

LEMMA AnswerFrame ==
  ASSUME UNCHANGED <<server, session>>, NEW p, p' = p
  PROVE  AnswerOK(p) <=> AnswerOK(p)'
BY DEF AnswerOK

LEMMA WithinRows ==
  ASSUME rows \in SUBSET AnyRow, NEW range
  PROVE  Within(range) \in SUBSET AnyRow
BY DEF Within

LEMMA RequestReportInv ==
  ASSUME ReportsInv, NEW kind \in {"dashboard", "analytics"}, NEW range \in Ranges,
         RequestReport(kind, range)
  PROVE  ReportsInv'
<1>1. UNCHANGED <<server, session, rows, clock, cache>>
  BY DEF RequestReport
<1>2. /\ server' \in Int /\ session' \in Int /\ clock' \in Int /\ rows' \in SUBSET AnyRow
      /\ (cache.range \in Ranges => ReportOK(cache.answer))'
  BY <1>1 DEF ReportsInv, ReportOK, AnswerOK, DaysIn
<1>3. CASE cache.range = range /\ kind = "dashboard" /\ clock <= cache.until
  <2>1. report' = cache.answer /\ ReportOK(cache.answer)
    BY <1>3 DEF RequestReport, ReportsInv
  <2>2. ReportOK(report)'
    BY <1>1, <2>1 DEF ReportOK, AnswerOK, DaysIn
  <2> QED BY <1>2, <2>2 DEF ReportsInv
<1>4. CASE ~(cache.range = range /\ kind = "dashboard" /\ clock <= cache.until)
  <2> DEFINE x == [kind |-> kind, range |-> range, left |-> {"now", "before"},
                   now |-> {}, before |-> {}, chart |-> <<>>, moved |-> FALSE, done |-> FALSE]
  <2>1. report' = x
    BY <1>4 DEF RequestReport
  <2>2. x \in Unfinished /\ x.left = {"now", "before"}
    BY DEF Unfinished
  <2> HIDE DEF x
  <2>3. report' \in Unfinished /\ report'.left = {"now", "before"}
    BY <2>1, <2>2
  <2>4. (report \in Unfinished /\ TotalsOK(report))'
    BY <2>3 DEF TotalsOK, Unfinished, Ranges
  <2> QED BY <1>2, <2>4 DEF ReportsInv
<1> QED BY <1>3, <1>4

LEMMA ReadingUnfinished ==
  ASSUME ReportsInv, Reading
  PROVE  report \in Unfinished /\ TotalsOK(report)
BY DEF ReportsInv, Reading, ReportOK, NoReport

LEMMA ReadTotalInv ==
  ASSUME ReportsInv, NEW t \in {"now", "before"}, ReadTotal(t)
  PROVE  ReportsInv'
<1>1. UNCHANGED <<server, session, rows, clock, cache>> /\ t \in report.left /\ Reading
  BY DEF ReadTotal
<1>2. /\ server' \in Int /\ session' \in Int /\ clock' \in Int /\ rows' \in SUBSET AnyRow
      /\ (cache.range \in Ranges => ReportOK(cache.answer))'
  BY <1>1 DEF ReportsInv, ReportOK, AnswerOK, DaysIn
<1>3. report \in Unfinished /\ TotalsOK(report)
  BY <1>1, ReadingUnfinished
<1> DEFINE n == IF t = "now" THEN Within(report.range) ELSE report.now
           b == IF t = "before" THEN Within(Previous(report.range)) ELSE report.before
           x == [report EXCEPT !.left = report.left \ {t}, !.now = n, !.before = b]
<1>4. report' = x
  BY DEF ReadTotal
<1>5. n \in SUBSET AnyRow /\ b \in SUBSET AnyRow
  BY <1>3, WithinRows DEF ReportsInv, Unfinished
<1>6. /\ t = "now" => n = Within(report.range)
      /\ t # "now" => n = report.now
      /\ t = "before" => b = Within(Previous(report.range))
      /\ t # "before" => b = report.before
  OBVIOUS
<1> HIDE DEF n, b
<1>7. /\ x \in Unfinished /\ x.left = report.left \ {t} /\ x.now = n /\ x.before = b
      /\ x.moved = report.moved /\ x.range = report.range
  BY <1>3, <1>5 DEF Unfinished
<1> HIDE DEF x
<1>8. TotalsOK(x)
  BY <1>3, <1>6, <1>7 DEF TotalsOK
<1>9. \A range : Within(range)' = Within(range)
  BY <1>1 DEF Within
<1>10. (report \in Unfinished)'
  BY <1>4, <1>7 DEF Unfinished, Ranges
<1>11. TotalsOK(report)'
  <2>1. /\ report'.moved = x.moved /\ report'.left = x.left /\ report'.now = x.now
        /\ report'.before = x.before /\ report'.range = x.range
    BY <1>4
  <2>2. /\ Within(report.range)' = Within(x.range)
        /\ Within(Previous(report.range))' = Within(Previous(x.range))
    BY <1>1, <2>1 DEF Within, Previous, DaysIn
  <2> QED BY <1>8, <2>1, <2>2 DEF TotalsOK
<1> QED BY <1>2, <1>10, <1>11 DEF ReportsInv

\* What a chart that is read makes of the report.
JustCharted(p) ==
    /\ p.kind \in {"dashboard", "analytics"} /\ p.range \in Ranges
    /\ p.chart = Chart(p.kind, p.range) /\ p.done = TRUE
    /\ ~p.moved => p.now = Within(p.range) /\ p.before = Within(Previous(p.range))

LEMMA ChartAnswers ==
  ASSUME ReportsAssumption, server \in Int, session \in Int, rows \in SUBSET AnyRow,
         NEW p, JustCharted(p)
  PROVE  ReportOK(p)
<1> DEFINE c == p.chart
           g == p.range
<1> SUFFICES ASSUME ~p.moved
             PROVE  /\ p.kind = "dashboard" /\ server = session + Behind =>
                           InPoints(c) = p.now /\ Apart(c) /\ p.now \cap p.before = {}
                    /\ p.kind = "analytics" =>
                           /\ Apart(c)
                           /\ DaysIn(g) <= WeekLimit /\ server = -Behind /\ session = 0 =>
                               /\ InPoints(c) \subseteq p.now
                               /\ \A r \in p.now \ InPoints(c) : r.last
                           /\ DaysIn(g) > WeekLimit /\ server = session + Behind =>
                               p.now \subseteq InPoints(c)
  BY DEF ReportOK, AnswerOK, JustCharted
<1>1. /\ p.now = Within(g) /\ p.before = Within(Previous(g)) /\ g \in Ranges
      /\ c = Chart(p.kind, g)
  BY DEF JustCharted
<1>2. ASSUME p.kind = "dashboard", server = session + Behind
      PROVE  InPoints(c) = p.now /\ Apart(c) /\ p.now \cap p.before = {}
  <2>1. c = DailyChart(g)
    BY <1>1, <1>2 DEF Chart
  <2> HIDE DEF c, g
  <2> QED BY <1>1, <1>2, <2>1, DailyAddsUp
<1>3. ASSUME p.kind = "analytics"
      PROVE  /\ Apart(c)
             /\ DaysIn(g) <= WeekLimit /\ server = -Behind /\ session = 0 =>
                    InPoints(c) \subseteq p.now /\ \A r \in p.now \ InPoints(c) : r.last
             /\ DaysIn(g) > WeekLimit /\ server = session + Behind => p.now \subseteq InPoints(c)
  <2>1. DaysIn(g) \in Int /\ WeekLimit \in Nat /\ TwoDayLimit \in Nat /\ TwoDayLimit <= WeekLimit
    BY <1>1 DEF DaysIn, Ranges, ReportsAssumption
  <2>2. Week \in Nat \ {0} /\ 2 \in Nat \ {0}
    BY DEF ReportsAssumption
  <2>3. CASE DaysIn(g) <= WeekLimit
    <3>1. PICK days \in Nat \ {0} : c = BucketChart(g, days)
      <4>1. CASE DaysIn(g) <= TwoDayLimit
        <5>1. c = BucketChart(g, 2)
          BY <1>1, <1>3, <2>1, <4>1 DEF Chart
        <5> QED BY <2>2, <5>1
      <4>2. CASE DaysIn(g) > TwoDayLimit
        <5>1. c = BucketChart(g, Week)
          BY <1>1, <1>3, <2>1, <2>3, <4>2 DEF Chart
        <5> QED BY <2>2, <5>1
      <4> QED BY <2>1, <4>1, <4>2
    <3> HIDE DEF c, g
    <3>2. Apart(c)
      BY <1>1, <3>1, BucketsApart
    <3>3. ASSUME server = -Behind, session = 0
          PROVE  InPoints(c) \subseteq p.now /\ \A r \in p.now \ InPoints(c) : r.last
      BY <1>1, <3>1, <3>3, BucketsAddUpToTotal
    <3> QED BY <2>1, <2>3, <3>2, <3>3
  <2>4. CASE DaysIn(g) > WeekLimit
    <3>1. ~(DaysIn(g) <= TwoDayLimit) /\ ~(DaysIn(g) <= WeekLimit)
      BY <2>1, <2>4
    <3>2. c = MonthlyChart(g)
      BY <1>1, <1>3, <3>1 DEF Chart
    <3> HIDE DEF c, g
    <3> QED BY <1>1, <3>1, <3>2, MonthlyAddsUp
  <2> QED BY <2>1, <2>3, <2>4
<1> QED BY <1>2, <1>3

LEMMA ReadChartInv ==
  ASSUME ReportsAssumption, ReportsInv, ReadChart
  PROVE  ReportsInv'
<1>1. UNCHANGED <<server, session, rows, clock>> /\ report.left = {} /\ Reading
  BY DEF ReadChart
<1>2. report \in Unfinished /\ TotalsOK(report)
  BY <1>1, ReadingUnfinished
<1> DEFINE ch == Chart(report.kind, report.range)
<1>3. PICK c : c = ch
  OBVIOUS
<1> DEFINE x == [report EXCEPT !.chart = c, !.done = TRUE]
<1>4. report' = x
  BY <1>3 DEF ReadChart
<1>5. PICK y : y = x
  OBVIOUS
<1>6. /\ y.kind = report.kind /\ y.range = report.range /\ y.chart = c /\ y.done = TRUE
      /\ y.moved = report.moved /\ y.now = report.now /\ y.before = report.before
  BY <1>2, <1>5 DEF Unfinished
<1> HIDE DEF x
<1>7. ReportOK(y)
  <2>1. y.kind \in {"dashboard", "analytics"} /\ y.range \in Ranges /\ y.chart = Chart(y.kind, y.range)
    BY <1>2, <1>3, <1>6 DEF Unfinished
  <2>2. ~y.moved => y.now = Within(y.range) /\ y.before = Within(Previous(y.range))
    BY <1>1, <1>2, <1>6 DEF TotalsOK
  <2>3. server \in Int /\ session \in Int /\ rows \in SUBSET AnyRow
    BY DEF ReportsInv
  <2>4. y.kind \in {"dashboard", "analytics"} /\ y.done = TRUE
    BY <1>6, <2>1
  <2> HIDE DEF ch
  <2>5. JustCharted(y)
    BY <2>1, <2>2, <2>4 DEF JustCharted
  <2> QED BY <2>3, <2>5, ChartAnswers
<1>8. report' = y
  BY <1>4, <1>5
<1>9. ReportOK(report)'
  BY <1>1, <1>7, <1>8 DEF ReportOK, AnswerOK, DaysIn
<1>10. (cache.range \in Ranges => ReportOK(cache.answer))'
  <2>1. CASE report.kind = "dashboard"
    <3>1. cache' = [range |-> report.range, answer |-> report', until |-> clock + TTL]
      BY <2>1 DEF ReadChart
    <3>2. cache'.answer = report'
      BY <3>1
    <3> QED BY <1>9, <3>2 DEF ReportOK, AnswerOK, DaysIn
  <2>2. CASE report.kind # "dashboard"
    <3>1. cache' = cache
      BY <2>2 DEF ReadChart
    <3> QED BY <1>1, <3>1 DEF ReportsInv, ReportOK, AnswerOK, DaysIn, Ranges
  <2> QED BY <2>1, <2>2
<1> QED BY <1>1, <1>9, <1>10 DEF ReportsInv

LEMMA MakeRowInv ==
  ASSUME ReportsInv, NEW last \in BOOLEAN, MakeRow(last)
  PROVE  ReportsInv'
<1>1. /\ UNCHANGED <<server, session, clock, cache>>
      /\ rows' = rows \cup {[at |-> clock, last |-> last]}
      /\ report' = IF Reading THEN [report EXCEPT !.moved = TRUE] ELSE report
  BY DEF MakeRow
<1>2. /\ server' \in Int /\ session' \in Int /\ clock' \in Int /\ rows' \in SUBSET AnyRow
      /\ (cache.range \in Ranges => ReportOK(cache.answer))'
  BY <1>1 DEF ReportsInv, ReportOK, AnswerOK, DaysIn, AnyRow
<1>3. CASE Reading
  <2>1. report' = [report EXCEPT !.moved = TRUE] /\ report \in Unfinished
    BY <1>1, <1>3, ReadingUnfinished
  <2>2. report' \in Unfinished /\ report'.moved = TRUE
    BY <2>1 DEF Unfinished
  <2>3. (report \in Unfinished /\ TotalsOK(report))'
    BY <2>2 DEF Unfinished, TotalsOK, Ranges
  <2> QED BY <1>2, <2>3 DEF ReportsInv
<1>4. CASE ~Reading
  <2>1. report' = report /\ (report = NoReport \/ ReportOK(report))
    BY <1>1, <1>4 DEF ReportsInv, Reading, Unfinished
  <2>2. (report = NoReport \/ ReportOK(report))'
    BY <1>1, <2>1 DEF ReportOK, AnswerOK, DaysIn, NoReport
  <2> QED BY <1>2, <2>2 DEF ReportsInv
<1> QED BY <1>3, <1>4

THEOREM ReportsInvariant == ReportsSpec => []ReportsInv
<1>1. ReportsInit => ReportsInv
  <2> SUFFICES ASSUME ReportsInit PROVE ReportsInv
    OBVIOUS
  <2>1. server \in Int /\ session \in Int /\ report = NoReport
    BY ReportsAssumption DEF ReportsInit, ReportsAssumption
  <2>2. Rows \in SUBSET AnyRow
    BY ReportsAssumption DEF Rows, AnyRow, ReportsAssumption
  <2>3. clock \in Int /\ rows \in SUBSET AnyRow
    BY <2>2 DEF ReportsInit, AnyRow
  <2>4. cache.range \notin Ranges
    BY DEF ReportsInit, Empty, Ranges
  <2> QED BY <2>1, <2>3, <2>4 DEF ReportsInv
<1>2. ReportsInv /\ [ReportsNext]_reportsVars => ReportsInv'
  <2> SUFFICES ASSUME ReportsInv, [ReportsNext]_reportsVars PROVE ReportsInv'
    OBVIOUS
  <2>1. ASSUME NEW kind \in {"dashboard", "analytics"}, NEW range \in Ranges, RequestReport(kind, range)
        PROVE  ReportsInv'
    BY <2>1, RequestReportInv
  <2>2. ASSUME NEW t \in {"now", "before"}, ReadTotal(t) PROVE ReportsInv'
    BY <2>2, ReadTotalInv
  <2>3. CASE ReadChart
    BY <2>3, ReadChartInv, ReportsAssumption
  <2>4. ASSUME NEW last \in BOOLEAN, MakeRow(last) PROVE ReportsInv'
    BY <2>4, MakeRowInv
  <2>5. ASSUME UNCHANGED <<server, session, rows, cache>>, clock' \in Int,
               report' = report \/ report' = NoReport
        PROVE  ReportsInv'
    <3>1. CASE report' = report
      <4>1. \A range : Within(range)' = Within(range)
        BY <2>5 DEF Within
      <4>2. report \in Unfinished /\ TotalsOK(report) => (report \in Unfinished /\ TotalsOK(report))'
        BY <2>5, <3>1 DEF Unfinished, TotalsOK, Ranges, Within, Previous, DaysIn
      <4>3. ReportOK(report) => ReportOK(report)'
        BY <2>5, <3>1 DEF ReportOK, AnswerOK, DaysIn
      <4>4. (cache.range \in Ranges => ReportOK(cache.answer))'
        BY <2>5 DEF ReportsInv, ReportOK, AnswerOK, DaysIn, Ranges
      <4> QED BY <2>5, <3>1, <4>2, <4>3, <4>4 DEF ReportsInv, NoReport
    <3>2. CASE report' = NoReport
      <4>1. (cache.range \in Ranges => ReportOK(cache.answer))'
        BY <2>5 DEF ReportsInv, ReportOK, AnswerOK, DaysIn, Ranges
      <4> QED BY <2>5, <3>2, <4>1 DEF ReportsInv, NoReport
    <3> QED BY <2>5, <3>1, <3>2
  <2>6. CASE ClockMoves
    BY <2>5, <2>6 DEF ClockMoves, ReportsInv
  <2>7. CASE CloseReport
    BY <2>5, <2>7 DEF CloseReport, ReportsInv
  <2>8. CASE UNCHANGED reportsVars
    BY <2>5, <2>8 DEF reportsVars, ReportsInv
  <2> QED BY <2>1, <2>2, <2>3, <2>4, <2>6, <2>7, <2>8 DEF ReportsNext
<1> QED BY <1>1, <1>2, PTL DEF ReportsSpec

(* The totals of a report answered, freshly or from the cache, and the     *)
(* points of its chart are the same rows, where the zones of the server    *)
(* and of the session allow it and nothing was entered between its         *)
(* queries.                                                                *)
THEOREM ReportAddsUpTheorem == ReportsSpec => []ReportAddsUp
<1>1. ReportsInv => ReportAddsUp
  <2> SUFFICES ASSUME ReportsInv, Settled PROVE ReportAddsUp
    BY DEF ReportAddsUp, ChartAddsUp, BucketsAddUp
  <2>1. AnswerOK(report) /\ ~report.moved
    <3>1. report.kind # "none" /\ report.done /\ ~report.moved
      BY DEF Settled
    <3>2. report # NoReport
      BY <3>1 DEF NoReport
    <3>3. report \in Unfinished => report.done = FALSE
      BY DEF Unfinished
    <3>4. report \notin Unfinished
      BY <3>1, <3>3
    <3> QED BY <3>1, <3>2, <3>4 DEF ReportsInv, ReportOK
  <2>2. Charted = InPoints(report.chart) /\ (OnePointEach <=> Apart(report.chart))
    BY DEF Charted, InPoints, OnePointEach, Apart
  <2> QED BY <2>1, <2>2 DEF AnswerOK, ReportAddsUp, ChartAddsUp, BucketsAddUp
<1> QED BY <1>1, ReportsInvariant, PTL
=============================================================================
