--------------------------- MODULE ServicesProofs ----------------------------
(***************************************************************************)
(* Proofs about services that MCServices puts side by side, for any values *)
(* of their constants: votes, the event bus, the agent loop, the           *)
(* providers, the memory (personal facts, the knowledge base and the chunk *)
(* store) and the spans. Each has an inductive invariant of its own.       *)
(* StoresProofs states what they say of the run of MCServices.             *)
(***************************************************************************)
EXTENDS Consensus, EventBus, AgentLoop, Providers, PersonalFacts, KnowledgeBase, MemoryChunks,
        Observability, FiniteSetTheorems, SequenceTheorems, TLAPS

-----------------------------------------------------------------------------
(* Votes.                                                                  *)

ConsensusSpec == ConsensusInit /\ [][ConsensusNext]_consensusVars

\* Before create_proposal() nobody has voted.
NoneVoted == proposal = "none" => votes = [v \in Voters |-> "none"]

ConsensusInv == ConsensusTypeOK /\ CountsAreVotes /\ DecisionStands /\ NoneVoted

Cluster(vs) == known \cup {LocalNode} \cup {v \in Voters : vs[v] # "none"}

-----------------------------------------------------------------------------
(* Counting votes.                                                         *)

\* The voters with one answer are counted by a number up to N.
LEMMA CastBounded ==
    ASSUME NEW vs, NEW w
    PROVE  Cast(vs, w) \in 0 .. N
<1>1. IsFiniteSet(Voters) /\ {v \in Voters : vs[v] = w} \subseteq Voters
  BY ConsensusAssumption
<1> QED
  BY <1>1, FS_Subset, FS_CardinalityType DEF Cast, N

\* One more voter with an answer makes its count one larger.
LEMMA CastGains ==
    ASSUME NEW vs \in [Voters -> {"none", "yes", "no"}], NEW v \in Voters,
           NEW w \in {"none", "yes", "no"}, vs[v] # w
    PROVE  Cast([vs EXCEPT ![v] = w], w) = Cast(vs, w) + 1
<1> DEFINE S == {u \in Voters : vs[u] = w}
<1>1. {u \in Voters : [vs EXCEPT ![v] = w][u] = w} = S \cup {v}
  OBVIOUS
<1>2. IsFiniteSet(S) /\ v \notin S
  BY ConsensusAssumption, FS_Subset
<1> QED
  BY <1>1, <1>2, FS_AddElement DEF Cast

\* One voter less with an answer makes its count one smaller.
LEMMA CastLoses ==
    ASSUME NEW vs \in [Voters -> {"none", "yes", "no"}], NEW v \in Voters,
           NEW w \in {"none", "yes", "no"}, vs[v] # w
    PROVE  Cast([vs EXCEPT ![v] = w], vs[v]) = Cast(vs, vs[v]) - 1
<1> DEFINE S == {u \in Voters : vs[u] = vs[v]}
<1>1. {u \in Voters : [vs EXCEPT ![v] = w][u] = vs[v]} = S \ {v}
  OBVIOUS
<1>2. IsFiniteSet(S) /\ v \in S
  BY ConsensusAssumption, FS_Subset
<1> QED
  BY <1>1, <1>2, FS_RemoveElement DEF Cast

\* A vote leaves the count of every other answer as it was.
LEMMA CastKeeps ==
    ASSUME NEW vs \in [Voters -> {"none", "yes", "no"}], NEW v \in Voters,
           NEW w \in {"none", "yes", "no"}, NEW x, x # w, x # vs[v]
    PROVE  Cast([vs EXCEPT ![v] = w], x) = Cast(vs, x)
<1>1. {u \in Voters : [vs EXCEPT ![v] = w][u] = x} = {u \in Voters : vs[u] = x}
  OBVIOUS
<1> QED
  BY <1>1 DEF Cast

\* Where all answers are the same, the other counts are zero.
LEMMA CastNone ==
    ASSUME NEW w, w # "none"
    PROVE  Cast([v \in Voters |-> "none"], w) = 0
<1>1. {u \in Voters : [v \in Voters |-> "none"][u] = w} = {}
  OBVIOUS
<1> QED
  BY <1>1, FS_EmptySet DEF Cast

\* Count() follows the recorded votes: the counts after a vote are those of the
\* votes after it.
LEMMA CountFollows ==
    ASSUME ConsensusInv, NEW v \in Voters, NEW vote \in {"yes", "no"},
           NEW w \in {"yes", "no"}
    PROVE  Count(Cast(votes, w), w, v, vote) = Cast([votes EXCEPT ![v] = vote], w)
<1> DEFINE ws == [votes EXCEPT ![v] = vote]
<1>0. votes \in [Voters -> {"none", "yes", "no"}] /\ vote \in {"none", "yes", "no"}
  BY DEF ConsensusInv, ConsensusTypeOK
<1>1. CASE votes[v] = vote
  <2>1. ws = votes
    BY <1>0, <1>1
  <2> QED
    BY <1>1, <2>1 DEF Count
<1>2. CASE votes[v] # vote /\ vote = w
  <2>1. Cast(ws, vote) = Cast(votes, vote) + 1
    BY <1>0, <1>2, CastGains
  <2> HIDE DEF ws
  <2>2. Cast(ws, w) = Cast(votes, w) + 1
    BY <1>2, <2>1
  <2> QED
    BY <1>2, <2>2 DEF Count, ws
<1>3. CASE votes[v] # vote /\ vote # w /\ votes[v] = w
  <2>1. Cast(ws, votes[v]) = Cast(votes, votes[v]) - 1
    BY <1>0, <1>3, CastLoses
  <2> HIDE DEF ws
  <2>2. Cast(ws, w) = Cast(votes, w) - 1
    BY <1>3, <2>1
  <2> QED
    BY <1>3, <2>2 DEF Count, ws
<1>4. CASE votes[v] # vote /\ vote # w /\ votes[v] # w
  <2>1. Cast(ws, w) = Cast(votes, w)
    BY <1>0, <1>4, CastKeeps
  <2> QED
    BY <1>4, <2>1 DEF Count
<1> QED
  BY <1>1, <1>2, <1>3, <1>4
-----------------------------------------------------------------------------
(* Decisions.                                                              *)

\* _check_consensus_resolution() decides a pending proposal only when its counts
\* bear the decision out: more than half approved, or at least half refused.
LEMMA ResolvedIsBorneOut ==
    ASSUME known \subseteq Voters,
           NEW vs \in [Voters -> {"none", "yes", "no"}], NEW yes \in Nat, NEW no \in Nat
    PROVE  LET n == Cardinality(Cluster(vs))
               r == Resolved("PENDING", vs, yes, no)
           IN  /\ n \in 0 .. N
               /\ r \in {"PENDING", "APPROVED", "REJECTED"}
               /\ r = "APPROVED" => 2 * yes > n
               /\ r = "REJECTED" => 2 * no >= n
<1> DEFINE n == Cardinality(Cluster(vs))
           r == Resolved("PENDING", vs, yes, no)
<1>1. Cluster(vs) \subseteq Voters /\ IsFiniteSet(Voters)
  BY ConsensusAssumption DEF Cluster
<1>2. n \in 0 .. N
  BY <1>1, FS_Subset, FS_CardinalityType DEF N
<1>3. r = IF yes >= n \div 2 + 1 THEN "APPROVED"
          ELSE IF no > n - (n \div 2 + 1) THEN "REJECTED" ELSE "PENDING"
  BY DEF Resolved, Cluster
<1> HIDE DEF n, r
<1>4. n \in Nat /\ n \div 2 \in Nat /\ 2 * (n \div 2) <= n /\ n <= 2 * (n \div 2) + 1
  BY <1>2, FS_CardinalityType, ConsensusAssumption DEF N
<1>5. r = "APPROVED" => 2 * yes > n
  BY <1>3, <1>4
<1>6. r = "REJECTED" => 2 * no >= n
  BY <1>3, <1>4
<1> QED
  BY <1>2, <1>3, <1>5, <1>6 DEF n, r

\* The votes recorded by create_proposal() or cast_vote(), counted and resolved,
\* keep the invariant.
LEMMA ResolveKeeps ==
    ASSUME ConsensusTypeOK, UNCHANGED <<lapsed, known>>,
           votes' \in [Voters -> {"none", "yes", "no"}],
           CountsAreVotes', Resolve("PENDING", votes', yesVotes', noVotes')
    PROVE  ConsensusInv'
<1>1. yesVotes' \in 0 .. N /\ noVotes' \in 0 .. N /\ N \in Nat
  BY CastBounded, ConsensusAssumption, FS_CardinalityType DEF CountsAreVotes, N
<1>2. /\ electorate' = Cardinality(Cluster(votes'))
      /\ proposal' = Resolved("PENDING", votes', yesVotes', noVotes')
  BY DEF Resolve, Cluster
<1>3. /\ electorate' \in 0 .. N
      /\ proposal' \in {"PENDING", "APPROVED", "REJECTED"}
      /\ proposal' = "APPROVED" => 2 * yesVotes' > electorate'
      /\ proposal' = "REJECTED" => 2 * noVotes' >= electorate'
  BY <1>1, <1>2, ResolvedIsBorneOut DEF ConsensusTypeOK
<1> QED
  BY <1>1, <1>3
     DEF ConsensusInv, ConsensusTypeOK, CountsAreVotes, DecisionStands, NoneVoted, Decided
-----------------------------------------------------------------------------
(* The invariant.                                                          *)

LEMMA ConsensusInvInit == ConsensusInit => ConsensusInv
<1> SUFFICES ASSUME ConsensusInit
             PROVE  ConsensusInv
  OBVIOUS
<1>1. Cast(votes, "yes") = 0 /\ Cast(votes, "no") = 0
  <2>1. votes = [v \in Voters |-> "none"]
    BY DEF ConsensusInit
  <2>2. /\ Cast([v \in Voters |-> "none"], "yes") = 0
        /\ Cast([v \in Voters |-> "none"], "no") = 0
    BY CastNone
  <2> QED
    BY <2>1, <2>2
<1>2. N \in Nat
  BY ConsensusAssumption, FS_CardinalityType DEF N
<1>3. ConsensusTypeOK
  <2>1. votes \in [Voters -> {"none", "yes", "no"}] /\ known \subseteq Voters
    BY DEF ConsensusInit
  <2>2. yesVotes \in 0 .. N /\ noVotes \in 0 .. N /\ electorate \in 0 .. N
    BY <1>2 DEF ConsensusInit
  <2> QED
    BY <2>1, <2>2 DEF ConsensusInit, ConsensusTypeOK
<1> QED
  BY <1>1, <1>3
     DEF ConsensusInit, ConsensusInv, CountsAreVotes, DecisionStands, NoneVoted

LEMMA ConsensusInvNext == ConsensusInv /\ [ConsensusNext]_consensusVars => ConsensusInv'
<1> SUFFICES ASSUME ConsensusInv, [ConsensusNext]_consensusVars
             PROVE  ConsensusInv'
  OBVIOUS
<1> USE DEF ConsensusInv
<1>1. ASSUME NEW p \in Voters, CreateProposal(p)
      PROVE  ConsensusInv'
  <2>1. votes = [v \in Voters |-> "none"] /\ votes' = [votes EXCEPT ![p] = "yes"]
    BY <1>1 DEF CreateProposal, NoneVoted
  <2>2. Cast(votes, "yes") = 0 /\ Cast(votes, "no") = 0
    BY <2>1, CastNone
  <2>3. Cast(votes', "yes") = 1 /\ Cast(votes', "no") = 0
    <3>1. Cast([votes EXCEPT ![p] = "yes"], "yes") = Cast(votes, "yes") + 1
      BY <2>1, CastGains
    <3>2. Cast([votes EXCEPT ![p] = "yes"], "no") = Cast(votes, "no")
      BY <2>1, CastKeeps
    <3> QED
      BY <2>1, <2>2, <3>1, <3>2
  <2>4. yesVotes' = 1 /\ noVotes' = 0 /\ noVotes = 0
    BY <1>1, <2>2 DEF CreateProposal, CountsAreVotes
  <2> QED
    BY <1>1, <2>1, <2>3, <2>4, ResolveKeeps
       DEF CreateProposal, ConsensusTypeOK, CountsAreVotes
<1>2. ASSUME NEW v \in Voters, NEW vote \in {"yes", "no"}, CastVote(v, vote)
      PROVE  ConsensusInv'
  <2>1. CASE lapsed
    BY <1>2, <2>1
       DEF CastVote, ConsensusTypeOK, CountsAreVotes, DecisionStands, NoneVoted, Decided
  <2>2. CASE ~lapsed
    <3>1. /\ proposal = "PENDING" /\ votes' = [votes EXCEPT ![v] = vote]
          /\ yesVotes' = Count(yesVotes, "yes", v, vote)
          /\ noVotes' = Count(noVotes, "no", v, vote)
      BY <1>2, <2>2 DEF CastVote
    <3>2. yesVotes' = Cast(votes', "yes") /\ noVotes' = Cast(votes', "no")
      BY <3>1, CountFollows DEF CountsAreVotes
    <3> QED
      BY <1>2, <2>2, <3>1, <3>2, ResolveKeeps DEF CastVote, ConsensusTypeOK, CountsAreVotes
  <2> QED
    BY <2>1, <2>2
<1>3. CASE GetProposalStatus
  BY <1>3 DEF GetProposalStatus, ConsensusTypeOK, CountsAreVotes, DecisionStands, NoneVoted
<1>4. CASE Lapse
  BY <1>4 DEF Lapse, ConsensusTypeOK, CountsAreVotes, DecisionStands, NoneVoted
<1>5. ASSUME NEW v \in Voters, NodeRegisters(v)
      PROVE  ConsensusInv'
  BY <1>5 DEF NodeRegisters, ConsensusTypeOK, CountsAreVotes, DecisionStands, NoneVoted
<1>6. CASE UNCHANGED consensusVars
  BY <1>6 DEF consensusVars, ConsensusTypeOK, CountsAreVotes, DecisionStands, NoneVoted
<1> QED
  BY <1>1, <1>2, <1>3, <1>4, <1>5, <1>6 DEF ConsensusNext

\* A decided proposal is never resolved again.
LEMMA StepNotReversed ==
    [ConsensusNext]_consensusVars
        => [(proposal \in Decided) => (proposal' \in {proposal, "EXPIRED"})]_consensusVars
BY DEF ConsensusNext, CreateProposal, CastVote, GetProposalStatus, Lapse, NodeRegisters,
       consensusVars, Decided

\* The counts are those of the recorded votes, the recorded votes bear out every
\* decision, and no decision becomes another one: for any number of nodes that
\* vote, change their votes and join in any order (consensus.py).
THEOREM DecisionsAreHeld == ConsensusSpec => DecisionsHold
<1>1. ConsensusInv => ConsensusTypeOK /\ CountsAreVotes /\ DecisionStands
  BY DEF ConsensusInv
<1> QED
  BY <1>1, ConsensusInvInit, ConsensusInvNext, StepNotReversed, PTL
     DEF ConsensusSpec, DecisionsHold, NotReversed

-----------------------------------------------------------------------------
(* The event bus.                                                          *)

\* One bus, its subscribers and its poll.
BusSpec == BusInit /\ [][BusNext]_busVars

\* The copies of m among the first k messages of a stream.
Upto(st, m, k) == {i \in 1 .. k : st[i] = m}

\* Up to here messages were read, or will never be.
Passed == IF polling >= 0 THEN polling ELSE IF lastId > 0 THEN lastId ELSE Len(stream)

\* The types, as far as the model's type invariant leaves them open.
BusTypes ==
    /\ BusTypeOK
    /\ medium \in {"memory", "redis"} /\ active \in BOOLEAN
    /\ handed \in [Messages -> [Subscribers -> Nat]]

\* A poll goes on where the last batch ended, and only Redis has a stream.
ReadInv ==
    /\ NoGaps /\ (lastId = 0 => handled = {})
    /\ polling >= 0 /\ lastId > 0 => polling = lastId
    /\ medium = "memory" => stream = <<>> /\ polling = -1

\* What was handed over is in the part of the stream that has been passed, or
\* was published with success in memory.
HandedOk(m, s) ==
        /\ medium = "memory" => handed[m][s] <= (IF sent[m] = "true" THEN 1 ELSE 0)
        /\ medium = "redis" => handed[m][s] <= Cardinality(Upto(stream, m, Passed))

\* ... for every message and subscriber.
HandedInv == \A m \in Messages, s \in Subscribers : HandedOk(m, s)

\* Every copy has an attempt of its own.
CopiesOk(m) ==
        /\ sent[m] = "new" => Copies(m) = 0
        /\ sent[m] = "again" => Copies(m) <= attempts[m]
        /\ sent[m] = "true" /\ medium = "redis" => Copies(m) > 0
        /\ sent[m] = "dlq" => attempts[m] = MaxRetry
        /\ Copies(m) <= MaxRetry

\* ... for every message.
CopiesInv == \A m \in Messages : CopiesOk(m)

\* The inductive invariant. BusSafe alone does not say where the poll stands in
\* the stream, nor that a stopped bus reads nothing.
BusInv == BusTypes /\ ReadInv /\ HandedInv /\ CopiesInv /\ StoppedIsQuiet

\* Copies are counted, and more of the stream holds more of them.
LEMMA CopiesCount ==
    ASSUME NEW st \in Seq(Messages), NEW m \in Messages, NEW k \in 0 .. Len(st), NEW j \in 0 .. k
    PROVE  /\ Cardinality(Upto(st, m, k)) \in Nat /\ IsFiniteSet(Upto(st, m, k))
           /\ Cardinality(Upto(st, m, j)) <= Cardinality(Upto(st, m, k))
           /\ Cardinality(Upto(st, m, Len(st))) \in Nat
           /\ Cardinality(Upto(st, m, k)) <= Cardinality(Upto(st, m, Len(st)))
<1> DEFINE n == Len(st)
<1>1. n \in Nat /\ IsFiniteSet(1 .. n)
  BY FS_Interval
<1>2. Upto(st, m, n) \subseteq 1 .. n /\ Upto(st, m, k) \subseteq Upto(st, m, n) /\
      Upto(st, m, j) \subseteq Upto(st, m, k)
  BY <1>1 DEF Upto
<1>3. IsFiniteSet(Upto(st, m, n)) /\ IsFiniteSet(Upto(st, m, k)) /\ IsFiniteSet(Upto(st, m, j))
  BY <1>1, <1>2, FS_Subset
<1> QED
  BY <1>2, <1>3, FS_Subset, FS_CardinalityType

\* All copies are those among all messages of the stream.
LEMMA CopiesAreUpto ==
    ASSUME NEW st \in Seq(Messages), NEW m \in Messages
    PROVE  {i \in DOMAIN st : st[i] = m} = Upto(st, m, Len(st))
<1>1. DOMAIN st = 1 .. Len(st)
  OBVIOUS
<1> QED
  BY <1>1 DEF Upto

\* A message at the end of the stream is one copy more of it.
LEMMA AppendCopies ==
    ASSUME NEW st \in Seq(Messages), NEW e \in Messages
    PROVE  /\ Append(st, e) \in Seq(Messages) /\ Len(Append(st, e)) = Len(st) + 1
           /\ \A m \in Messages : \A k \in 0 .. Len(st) : Upto(Append(st, e), m, k) = Upto(st, m, k)
           /\ \A m \in Messages \ {e} : Upto(Append(st, e), m, Len(Append(st, e))) = Upto(st, m,
              Len(st))
           /\ Cardinality(Upto(Append(st, e), e, Len(Append(st, e)))) = Cardinality(Upto(st, e,
              Len(st))) + 1
<1> DEFINE nw == Append(st, e)
<1>1. /\ nw \in Seq(Messages) /\ Len(nw) = Len(st) + 1 /\ Len(st) \in Nat
      /\ \A i \in 1 .. Len(st) : nw[i] = st[i]
      /\ nw[Len(st) + 1] = e
  OBVIOUS
<1>2. \A m \in Messages : \A k \in 0 .. Len(st) : Upto(nw, m, k) = Upto(st, m, k)
  BY <1>1 DEF Upto
<1>3. ASSUME NEW m \in Messages
      PROVE  Upto(nw, m, Len(nw)) =
                IF m = e THEN Upto(st, m, Len(st)) \cup {Len(st) + 1} ELSE Upto(st, m, Len(st))
  BY <1>1 DEF Upto
<1>4. Len(st) + 1 \notin Upto(st, e, Len(st)) /\ Len(st) \in 0 .. Len(st) /\ 0 \in 0 .. Len(st)
  BY <1>1 DEF Upto
<1>5. IsFiniteSet(Upto(st, e, Len(st)))
  BY <1>4, CopiesCount
<1>6. Cardinality(Upto(nw, e, Len(nw))) = Cardinality(Upto(st, e, Len(st))) + 1
  BY <1>3, <1>4, <1>5, FS_AddElement
<1> QED
  BY <1>1, <1>2, <1>3, <1>6

\* Every subscriber of the moment gets one task more.
LEMMA DispatchHands ==
    ASSUME handed \in [Messages -> [Subscribers -> Nat]], NEW ms, Dispatch(ms)
    PROVE  /\ handed' \in [Messages -> [Subscribers -> Nat]]
           /\ \A m \in Messages, s \in Subscribers :
                 handed'[m][s] = handed[m][s] + (IF m \in ms /\ s \in subscribed THEN 1 ELSE 0)
<1>1. ASSUME NEW m \in Messages, NEW s \in Subscribers
      PROVE  handed[m][s] + (IF m \in ms /\ s \in subscribed THEN 1 ELSE 0) \in Nat
  <2>1. handed[m][s] \in Nat /\ handed[m][s] + 1 \in Nat /\ handed[m][s] + 0 \in Nat
    OBVIOUS
  <2>2. CASE m \in ms /\ s \in subscribed
    BY <2>1, <2>2
  <2>3. CASE ~(m \in ms /\ s \in subscribed)
    BY <2>1, <2>3
  <2> QED
    BY <2>2, <2>3
<1>2. handed' = [m \in Messages |-> [s \in Subscribers |->
                    handed[m][s] + (IF m \in ms /\ s \in subscribed THEN 1 ELSE 0)]]
  BY DEF Dispatch
<1> QED
  BY <1>1, <1>2, Zenon

\* The batch is a piece of the stream after the place of the poll.
LEMMA BatchRead ==
    ASSUME BusInv, EndRead
    PROVE  \E k \in 1 .. Batch :
              /\ polling + k \in 1 .. Len(stream) /\ lastId' = polling + k
              /\ handled' = handled \cup (polling + 1 .. polling + k)
              /\ Dispatch({stream[i] : i \in polling + 1 .. polling + k})
<1> DEFINE k == Min2(Batch, Len(stream) - polling)
           new == SubSeq(stream, polling + 1, polling + k)
<1>1. /\ polling \in Nat /\ Len(stream) \in Nat /\ Len(stream) > polling /\ stream \in Seq(Messages)
      /\ Batch \in Nat \ {0}
  BY EventBusAssumption DEF EndRead, BusInv, BusTypes, BusTypeOK
<1>2. k \in 1 .. Batch /\ polling + k \in 1 .. Len(stream)
  BY <1>1 DEF Min2
<1> HIDE DEF k
<1>3. /\ new \in Seq(Messages) /\ Len(new) = k
      /\ \A i \in 1 .. k : new[i] = stream[polling + i]
  <2> DEFINE a == polling + 1
             b == polling + k
  <2>1. a \in Int /\ b \in Int /\ a <= b /\ b - a + 1 = k /\ \A i \in a .. b : stream[i] \in Messages
    BY <1>1, <1>2
  <2>2. \A i \in 1 .. k : a + i - 1 = polling + i
    BY <1>1, <1>2
  <2> HIDE DEF a, b
  <2>3. /\ SubSeq(stream, a, b) \in Seq(Messages)
        /\ Len(SubSeq(stream, a, b)) = IF a <= b THEN b - a + 1 ELSE 0
        /\ \A i \in 1 .. b - a + 1 : SubSeq(stream, a, b)[i] = stream[a + i - 1]
    BY <2>1, SubSeqProperties
  <2>4. new = SubSeq(stream, a, b)
    BY DEF a, b
  <2> HIDE DEF new
  <2> QED
    BY <2>1, <2>2, <2>3, <2>4
<1>4. ToSet(new) = {stream[i] : i \in polling + 1 .. polling + k}
  <2>1. DOMAIN new = 1 .. k
    BY <1>2, <1>3
  <2>2. ToSet(new) = {new[i] : i \in 1 .. k}
    BY <2>1 DEF ToSet
  <2>3. {new[i] : i \in 1 .. k} = {stream[polling + i] : i \in 1 .. k}
    BY <1>3
  <2>4. {stream[polling + i] : i \in 1 .. k} = {stream[i] : i \in polling + 1 .. polling + k}
    <3>1. \A i \in 1 .. k : polling + i \in polling + 1 .. polling + k
      BY <1>1, <1>2
    <3>2. \A i \in polling + 1 .. polling + k : i - polling \in 1 .. k /\ polling + (i - polling) = i
      BY <1>1, <1>2
    <3> QED
      BY <3>1, <3>2
  <2> QED
    BY <2>2, <2>3, <2>4
<1>5. Advance(new) /\ handled' = handled \cup (polling + 1 .. polling + Len(new)) /\
      Dispatch(ToSet(new))
  BY DEF EndRead, k
<1> QED
  BY <1>2, <1>3, <1>4, <1>5 DEF Advance

\* A step keeps the types.
LEMMA BusTypesKept ==
    ASSUME BusInv, [BusNext]_busVars
    PROVE  BusTypes'
<1> USE EventBusAssumption DEF BusInv, BusTypes, BusTypeOK
<1>1. CASE StartBus
  BY <1>1 DEF StartBus
<1>2. CASE StopBus
  <2>1. Len(stream) \in Nat /\ -1 \in -1 .. Len(stream)
    OBVIOUS
  <2> QED
    BY <1>2, <2>1 DEF StopBus
<1>3. CASE ShutdownBus
  <2>1. Len(stream) \in Nat /\ -1 \in -1 .. Len(stream)
    OBVIOUS
  <2> QED
    BY <1>3, <2>1 DEF ShutdownBus
<1>4. CASE RouterShutdown
  BY <1>4 DEF RouterShutdown
<1>5. CASE BeginRead
  BY <1>5 DEF BeginRead
<1>6. CASE EndRead
  <2>1. PICK k \in 1 .. Batch :
               /\ polling + k \in 1 .. Len(stream) /\ lastId' = polling + k
               /\ handled' = handled \cup (polling + 1 .. polling + k)
               /\ Dispatch({stream[i] : i \in polling + 1 .. polling + k})
    BY <1>6, BatchRead
  <2>2. UNCHANGED <<medium, active, stream, sent, attempts>> /\ polling' = -1
    BY <1>6 DEF EndRead
  <2>3. handed' \in [Messages -> [Subscribers -> Nat]]
    BY <2>1, DispatchHands
  <2> QED
    BY <2>1, <2>2, <2>3
<1>7. CASE ReadEmpty
  BY <1>7 DEF ReadEmpty
<1>8. ASSUME NEW s \in Subscribers, BusSubscribe(s)
      PROVE  BusTypes'
  BY <1>8 DEF BusSubscribe
<1>9. ASSUME NEW s \in Subscribers, Unsubscribe(s)
      PROVE  BusTypes'
  BY <1>9 DEF Unsubscribe
<1>10. ASSUME NEW m \in Messages, BusPublish(m)
      PROVE  BusTypes'
  <2>1. stream' \in Seq(Messages) /\ Len(stream') >= Len(stream)
    <3>1. stream' = stream \/ stream' = Append(stream, m)
      BY <1>10 DEF BusPublish, Published, Dropped, PublishRaises
    <3>2. CASE stream' = stream
      BY <3>2
    <3>3. CASE stream' = Append(stream, m)
      <4>1. stream' \in Seq(Messages) /\ Len(stream') = Len(stream) + 1 /\ Len(stream) \in Nat
        BY <3>3
      <4> QED
        BY <4>1
    <3> QED
      BY <3>1, <3>2, <3>3
  <2>2. handed' \in [Messages -> [Subscribers -> Nat]]
    <3>1. UNCHANGED handed \/ Dispatch({m})
      BY <1>10 DEF BusPublish, Published, Dropped, PublishRaises
    <3> QED
      BY <3>1, DispatchHands
  <2>3. UNCHANGED <<medium, active, lastId, polling>>
    BY <1>10 DEF BusPublish
  <2>4. lastId' \in 0 .. Len(stream') /\ polling' \in -1 .. Len(stream')
    <3>1. Len(stream) \in Nat /\ Len(stream') \in Nat
      BY <2>1
    <3> QED
      BY <2>1, <2>3, <3>1
  <2>5. sent' \in [Messages -> {"new", "again", "true", "false", "raised", "dlq"}]
    BY <1>10 DEF BusPublish
  <2>6. attempts' \in [Messages -> 0 .. MaxRetry]
    <3>1. attempts[m] \in 0 .. MaxRetry
      OBVIOUS
    <3> QED
      BY <1>10, <3>1 DEF BusPublish
  <2> QED
    BY <2>1, <2>2, <2>3, <2>4, <2>5, <2>6
<1>11. ASSUME NEW m \in Messages, PublishMessage(m)
      PROVE  BusTypes'
  <2>1. stream' \in Seq(Messages) /\ Len(stream') >= Len(stream)
    <3>1. stream' = stream \/ stream' = Append(stream, m)
      BY <1>11 DEF PublishMessage, Published, Dropped, PublishRaises
    <3>2. CASE stream' = stream
      BY <3>2
    <3>3. CASE stream' = Append(stream, m)
      <4>1. stream' \in Seq(Messages) /\ Len(stream') = Len(stream) + 1 /\ Len(stream) \in Nat
        BY <3>3
      <4> QED
        BY <4>1
    <3> QED
      BY <3>1, <3>2, <3>3
  <2>2. handed' \in [Messages -> [Subscribers -> Nat]]
    <3>1. UNCHANGED handed \/ Dispatch({m})
      BY <1>11 DEF PublishMessage, Published, Dropped, PublishRaises
    <3> QED
      BY <3>1, DispatchHands
  <2>3. UNCHANGED <<medium, active, lastId, polling>>
    BY <1>11 DEF PublishMessage
  <2>4. lastId' \in 0 .. Len(stream') /\ polling' \in -1 .. Len(stream')
    <3>1. Len(stream) \in Nat /\ Len(stream') \in Nat
      BY <2>1
    <3> QED
      BY <2>1, <2>3, <3>1
  <2>5. sent' \in [Messages -> {"new", "again", "true", "false", "raised", "dlq"}]
    BY <1>11 DEF PublishMessage
  <2>6. attempts' \in [Messages -> 0 .. MaxRetry]
    <3>1. attempts[m] \in 0 .. MaxRetry
      OBVIOUS
    <3> QED
      BY <1>11, <3>1 DEF PublishMessage
  <2> QED
    BY <2>1, <2>2, <2>3, <2>4, <2>5, <2>6
<1>12. ASSUME NEW m \in Messages, DeadLetter(m)
      PROVE  BusTypes'
  BY <1>12 DEF DeadLetter
<1>13. ASSUME NEW m \in Messages, NEW s \in Subscribers, CallbackEnds(m, s)
      PROVE  BusTypes'
  BY <1>13 DEF CallbackEnds
<1>14. CASE UNCHANGED busVars
  BY <1>14 DEF busVars
<1> QED
  BY <1>1, <1>2, <1>3, <1>4, <1>5, <1>6, <1>7, <1>8, <1>9, <1>10, <1>11, <1>12, <1>13,
     <1>14
     DEF BusNext

\* A poll that runs, ends or is restarted leaves no gap behind it.
LEMMA ReadKept ==
    ASSUME BusInv, [BusNext]_busVars
    PROVE  ReadInv'
<1> USE EventBusAssumption DEF BusInv, BusTypes, BusTypeOK, ReadInv, NoGaps, StoppedIsQuiet
<1>1. CASE StartBus
  BY <1>1 DEF StartBus
<1>2. CASE StopBus
  BY <1>2 DEF StopBus
<1>3. CASE ShutdownBus
  BY <1>3 DEF ShutdownBus
<1>4. CASE RouterShutdown
  BY <1>4 DEF RouterShutdown
<1>5. CASE BeginRead
  BY <1>5 DEF BeginRead
<1>6. CASE EndRead
  <2>1. PICK k \in 1 .. Batch :
               /\ polling + k \in 1 .. Len(stream) /\ lastId' = polling + k
               /\ handled' = handled \cup (polling + 1 .. polling + k)
               /\ Dispatch({stream[i] : i \in polling + 1 .. polling + k})
    BY <1>6, BatchRead
  <2>2. UNCHANGED <<medium, stream>> /\ polling' = -1 /\ polling \in Nat
    BY <1>6 DEF EndRead
  <2>3. NoGaps'
    <3>1. CASE lastId = 0
      <4>1. handled' = polling + 1 .. lastId' /\ polling + 1 \in 1 .. lastId'
        BY <2>1, <2>2, <3>1 DEF ReadInv
      <4> QED
        BY <4>1 DEF NoGaps
    <3>2. CASE lastId > 0
      <4>1. PICK first \in 1 .. lastId : handled = first .. lastId
        BY <3>2 DEF ReadInv, NoGaps
      <4>2. handled' = first .. lastId' /\ first \in 1 .. lastId'
        BY <2>1, <2>2, <3>2, <4>1 DEF ReadInv
      <4> QED
        BY <4>2 DEF NoGaps
    <3> QED
      BY <3>1, <3>2
  <2> QED
    <3>1. lastId' # 0 /\ ~(polling' >= 0) /\ medium # "memory"
      BY <2>1, <2>2 DEF ReadInv
    <3> QED
      BY <2>2, <2>3, <3>1 DEF ReadInv
<1>7. CASE ReadEmpty
  BY <1>7 DEF ReadEmpty
<1>8. ASSUME NEW s \in Subscribers, BusSubscribe(s)
      PROVE  ReadInv'
  BY <1>8 DEF BusSubscribe
<1>9. ASSUME NEW s \in Subscribers, Unsubscribe(s)
      PROVE  ReadInv'
  BY <1>9 DEF Unsubscribe
<1>10. ASSUME NEW m \in Messages, BusPublish(m)
      PROVE  ReadInv'
  BY <1>10 DEF BusPublish, Published, Dropped, PublishRaises, Dispatch
<1>11. ASSUME NEW m \in Messages, PublishMessage(m)
      PROVE  ReadInv'
  BY <1>11 DEF PublishMessage, Published, Dropped, PublishRaises, Dispatch
<1>12. ASSUME NEW m \in Messages, DeadLetter(m)
      PROVE  ReadInv'
  BY <1>12 DEF DeadLetter
<1>13. ASSUME NEW m \in Messages, NEW s \in Subscribers, CallbackEnds(m, s)
      PROVE  ReadInv'
  BY <1>13 DEF CallbackEnds
<1>14. CASE UNCHANGED busVars
  BY <1>14 DEF busVars
<1> QED
  BY <1>1, <1>2, <1>3, <1>4, <1>5, <1>6, <1>7, <1>8, <1>9, <1>10, <1>11, <1>12, <1>13,
     <1>14
     DEF BusNext

\* After stop() no step reads.
LEMMA QuietKept ==
    ASSUME BusInv, [BusNext]_busVars
    PROVE  StoppedIsQuiet'
<1> USE EventBusAssumption DEF BusInv, BusTypes, BusTypeOK, StoppedIsQuiet
<1>1. CASE StartBus
  BY <1>1 DEF StartBus
<1>2. CASE StopBus
  BY <1>2 DEF StopBus
<1>3. CASE ShutdownBus
  BY <1>3 DEF ShutdownBus
<1>4. CASE RouterShutdown
  BY <1>4 DEF RouterShutdown
<1>5. CASE BeginRead
  BY <1>5 DEF BeginRead
<1>6. CASE EndRead
  BY <1>6 DEF EndRead, Advance, Dispatch
<1>7. CASE ReadEmpty
  BY <1>7 DEF ReadEmpty
<1>8. ASSUME NEW s \in Subscribers, BusSubscribe(s)
      PROVE  StoppedIsQuiet'
  BY <1>8 DEF BusSubscribe
<1>9. ASSUME NEW s \in Subscribers, Unsubscribe(s)
      PROVE  StoppedIsQuiet'
  BY <1>9 DEF Unsubscribe
<1>10. ASSUME NEW m \in Messages, BusPublish(m)
      PROVE  StoppedIsQuiet'
  BY <1>10 DEF BusPublish, Published, Dropped, PublishRaises, Dispatch
<1>11. ASSUME NEW m \in Messages, PublishMessage(m)
      PROVE  StoppedIsQuiet'
  BY <1>11 DEF PublishMessage, Published, Dropped, PublishRaises, Dispatch
<1>12. ASSUME NEW m \in Messages, DeadLetter(m)
      PROVE  StoppedIsQuiet'
  BY <1>12 DEF DeadLetter
<1>13. ASSUME NEW m \in Messages, NEW s \in Subscribers, CallbackEnds(m, s)
      PROVE  StoppedIsQuiet'
  BY <1>13 DEF CallbackEnds
<1>14. CASE UNCHANGED busVars
  BY <1>14 DEF busVars
<1> QED
  BY <1>1, <1>2, <1>3, <1>4, <1>5, <1>6, <1>7, <1>8, <1>9, <1>10, <1>11, <1>12, <1>13,
     <1>14
     DEF BusNext

\* What was passed stays passed.
LEMMA PassedGrows ==
    ASSUME BusInv, [BusNext]_busVars
    PROVE  Passed \in 0 .. Len(stream) /\ Passed' \in 0 .. Len(stream') /\ Passed <= Passed'
<1> USE EventBusAssumption DEF BusInv, BusTypes, BusTypeOK, ReadInv, StoppedIsQuiet, Passed
<1>1. CASE StartBus
  BY <1>1 DEF StartBus
<1>2. CASE StopBus
  BY <1>2 DEF StopBus
<1>3. CASE ShutdownBus
  BY <1>3 DEF ShutdownBus
<1>4. CASE RouterShutdown
  BY <1>4 DEF RouterShutdown
<1>5. CASE BeginRead
  BY <1>5 DEF BeginRead
<1>6. CASE EndRead
  <2>1. PICK k \in 1 .. Batch :
               /\ polling + k \in 1 .. Len(stream) /\ lastId' = polling + k
               /\ handled' = handled \cup (polling + 1 .. polling + k)
               /\ Dispatch({stream[i] : i \in polling + 1 .. polling + k})
    BY <1>6, BatchRead
  <2>2. UNCHANGED stream /\ polling' = -1 /\ polling \in Nat
    BY <1>6 DEF EndRead
  <2>3. Passed = polling /\ Passed' = polling + k
    BY <2>1, <2>2 DEF Passed
  <2> QED
    BY <2>1, <2>2, <2>3
<1>7. CASE ReadEmpty
  BY <1>7 DEF ReadEmpty
<1>8. ASSUME NEW s \in Subscribers, BusSubscribe(s)
      PROVE  Passed \in 0 .. Len(stream) /\ Passed' \in 0 .. Len(stream') /\ Passed <= Passed'
  BY <1>8 DEF BusSubscribe
<1>9. ASSUME NEW s \in Subscribers, Unsubscribe(s)
      PROVE  Passed \in 0 .. Len(stream) /\ Passed' \in 0 .. Len(stream') /\ Passed <= Passed'
  BY <1>9 DEF Unsubscribe
<1>10. ASSUME NEW m \in Messages, BusPublish(m)
      PROVE  Passed \in 0 .. Len(stream) /\ Passed' \in 0 .. Len(stream') /\ Passed <= Passed'
  <2>1. stream' = stream \/ stream' = Append(stream, m)
    BY <1>10 DEF BusPublish, Published, Dropped, PublishRaises
  <2>2. stream' \in Seq(Messages) /\ Len(stream') >= Len(stream) /\ Len(stream) \in Nat /\
        Len(stream') \in Nat
    <3>1. CASE stream' = stream
      BY <3>1
    <3>2. CASE stream' = Append(stream, m)
      BY <3>2
    <3> QED
      BY <2>1, <3>1, <3>2
  <2>3. UNCHANGED <<polling, lastId>>
    BY <1>10 DEF BusPublish
  <2>4. Passed' = Passed \/ (Passed = Len(stream) /\ Passed' = Len(stream'))
    BY <2>3 DEF Passed
  <2>5. Passed \in 0 .. Len(stream)
    BY DEF Passed
  <2> QED
    BY <2>2, <2>4, <2>5
<1>11. ASSUME NEW m \in Messages, PublishMessage(m)
      PROVE  Passed \in 0 .. Len(stream) /\ Passed' \in 0 .. Len(stream') /\ Passed <= Passed'
  <2>1. stream' = stream \/ stream' = Append(stream, m)
    BY <1>11 DEF PublishMessage, Published, Dropped, PublishRaises
  <2>2. stream' \in Seq(Messages) /\ Len(stream') >= Len(stream) /\ Len(stream) \in Nat /\
        Len(stream') \in Nat
    <3>1. CASE stream' = stream
      BY <3>1
    <3>2. CASE stream' = Append(stream, m)
      BY <3>2
    <3> QED
      BY <2>1, <3>1, <3>2
  <2>3. UNCHANGED <<polling, lastId>>
    BY <1>11 DEF PublishMessage
  <2>4. Passed' = Passed \/ (Passed = Len(stream) /\ Passed' = Len(stream'))
    BY <2>3 DEF Passed
  <2>5. Passed \in 0 .. Len(stream)
    BY DEF Passed
  <2> QED
    BY <2>2, <2>4, <2>5
<1>12. ASSUME NEW m \in Messages, DeadLetter(m)
      PROVE  Passed \in 0 .. Len(stream) /\ Passed' \in 0 .. Len(stream') /\ Passed <= Passed'
  BY <1>12 DEF DeadLetter
<1>13. ASSUME NEW m \in Messages, NEW s \in Subscribers, CallbackEnds(m, s)
      PROVE  Passed \in 0 .. Len(stream) /\ Passed' \in 0 .. Len(stream') /\ Passed <= Passed'
  BY <1>13 DEF CallbackEnds
<1>14. CASE UNCHANGED busVars
  BY <1>14 DEF busVars
<1> QED
  BY <1>1, <1>2, <1>3, <1>4, <1>5, <1>6, <1>7, <1>8, <1>9, <1>10, <1>11, <1>12, <1>13,
     <1>14
     DEF BusNext

\* The stream only grows, by a message at a time.
LEMMA StreamGrows ==
    ASSUME BusInv, [BusNext]_busVars
    PROVE  stream' = stream \/ \E e \in Messages : stream' = Append(stream, e)
<1> USE EventBusAssumption DEF BusInv, BusTypes, BusTypeOK
<1>1. CASE StartBus
  BY <1>1 DEF StartBus
<1>2. CASE StopBus
  BY <1>2 DEF StopBus
<1>3. CASE ShutdownBus
  BY <1>3 DEF ShutdownBus
<1>4. CASE RouterShutdown
  BY <1>4 DEF RouterShutdown
<1>5. CASE BeginRead
  BY <1>5 DEF BeginRead
<1>6. CASE EndRead
  BY <1>6 DEF EndRead, Advance, Dispatch
<1>7. CASE ReadEmpty
  BY <1>7 DEF ReadEmpty
<1>8. ASSUME NEW s \in Subscribers, BusSubscribe(s)
      PROVE  stream' = stream \/ \E e \in Messages : stream' = Append(stream, e)
  BY <1>8 DEF BusSubscribe
<1>9. ASSUME NEW s \in Subscribers, Unsubscribe(s)
      PROVE  stream' = stream \/ \E e \in Messages : stream' = Append(stream, e)
  BY <1>9 DEF Unsubscribe
<1>10. ASSUME NEW m \in Messages, BusPublish(m)
      PROVE  stream' = stream \/ \E e \in Messages : stream' = Append(stream, e)
  BY <1>10 DEF BusPublish, Published, Dropped, PublishRaises
<1>11. ASSUME NEW m \in Messages, PublishMessage(m)
      PROVE  stream' = stream \/ \E e \in Messages : stream' = Append(stream, e)
  BY <1>11 DEF PublishMessage, Published, Dropped, PublishRaises
<1>12. ASSUME NEW m \in Messages, DeadLetter(m)
      PROVE  stream' = stream \/ \E e \in Messages : stream' = Append(stream, e)
  BY <1>12 DEF DeadLetter
<1>13. ASSUME NEW m \in Messages, NEW s \in Subscribers, CallbackEnds(m, s)
      PROVE  stream' = stream \/ \E e \in Messages : stream' = Append(stream, e)
  BY <1>13 DEF CallbackEnds
<1>14. CASE UNCHANGED busVars
  BY <1>14 DEF busVars
<1> QED
  BY <1>1, <1>2, <1>3, <1>4, <1>5, <1>6, <1>7, <1>8, <1>9, <1>10, <1>11, <1>12, <1>13,
     <1>14
     DEF BusNext

\* A message has as many copies in what was passed as before, or more.
LEMMA PassedCopies ==
    ASSUME BusInv, [BusNext]_busVars, NEW m \in Messages
    PROVE  /\ Cardinality(Upto(stream, m, Passed)) \in Nat
           /\ Cardinality(Upto(stream', m, Passed')) \in Nat
           /\ Cardinality(Upto(stream, m, Passed)) <= Cardinality(Upto(stream', m, Passed'))
<1>1. stream \in Seq(Messages) /\ Len(stream) \in Nat
  BY DEF BusInv, BusTypes, BusTypeOK
<1>2. Passed \in 0 .. Len(stream) /\ Passed' \in 0 .. Len(stream') /\ Passed <= Passed'
  BY PassedGrows
<1>3. stream' \in Seq(Messages) /\ Upto(stream', m, Passed) = Upto(stream, m, Passed)
  <2>1. CASE stream' = stream
    BY <1>1, <2>1
  <2>2. ASSUME NEW e \in Messages, stream' = Append(stream, e)
        PROVE  stream' \in Seq(Messages) /\ Upto(stream', m, Passed) = Upto(stream, m, Passed)
    BY <1>1, <1>2, <2>2, AppendCopies
  <2> QED
    BY <2>1, <2>2, StreamGrows
<1>4. Len(stream') \in Nat /\ Passed \in 0 .. Passed'
  BY <1>2, <1>3
<1> QED
  BY <1>1, <1>2, <1>3, <1>4, CopiesCount

\* A step hands a message over as often as copies of it were passed, at most.
LEMMA HandedKept ==
    ASSUME BusInv, NEW q \in Messages, NEW r \in Subscribers, [BusNext]_busVars
    PROVE  HandedOk(q, r)'
<1> USE EventBusAssumption DEF BusInv, BusTypes, HandedInv, HandedOk
<1>1. CASE StartBus
  <2>9. /\ Cardinality(Upto(stream, q, Passed)) \in Nat /\
           Cardinality(Upto(stream', q, Passed')) \in Nat
        /\ Cardinality(Upto(stream, q, Passed)) <= Cardinality(Upto(stream', q, Passed'))
    BY PassedCopies
  <2>8. handed[q][r] \in Nat
    OBVIOUS
  <2>1. UNCHANGED <<medium, sent, handed>>
    BY <1>1 DEF StartBus
  <2> QED
    BY <2>1, <2>8, <2>9
<1>2. CASE StopBus
  <2>9. /\ Cardinality(Upto(stream, q, Passed)) \in Nat /\
           Cardinality(Upto(stream', q, Passed')) \in Nat
        /\ Cardinality(Upto(stream, q, Passed)) <= Cardinality(Upto(stream', q, Passed'))
    BY PassedCopies
  <2>8. handed[q][r] \in Nat
    OBVIOUS
  <2>1. UNCHANGED <<medium, sent, handed>>
    BY <1>2 DEF StopBus
  <2> QED
    BY <2>1, <2>8, <2>9
<1>3. CASE ShutdownBus
  <2>9. /\ Cardinality(Upto(stream, q, Passed)) \in Nat /\
           Cardinality(Upto(stream', q, Passed')) \in Nat
        /\ Cardinality(Upto(stream, q, Passed)) <= Cardinality(Upto(stream', q, Passed'))
    BY PassedCopies
  <2>8. handed[q][r] \in Nat
    OBVIOUS
  <2>1. UNCHANGED <<medium, sent, handed>>
    BY <1>3 DEF ShutdownBus
  <2> QED
    BY <2>1, <2>8, <2>9
<1>4. CASE RouterShutdown
  <2>9. /\ Cardinality(Upto(stream, q, Passed)) \in Nat /\
           Cardinality(Upto(stream', q, Passed')) \in Nat
        /\ Cardinality(Upto(stream, q, Passed)) <= Cardinality(Upto(stream', q, Passed'))
    BY PassedCopies
  <2>8. handed[q][r] \in Nat
    OBVIOUS
  <2>1. UNCHANGED <<medium, sent, handed>>
    BY <1>4 DEF RouterShutdown
  <2> QED
    BY <2>1, <2>8, <2>9
<1>5. CASE BeginRead
  <2>9. /\ Cardinality(Upto(stream, q, Passed)) \in Nat /\
           Cardinality(Upto(stream', q, Passed')) \in Nat
        /\ Cardinality(Upto(stream, q, Passed)) <= Cardinality(Upto(stream', q, Passed'))
    BY PassedCopies
  <2>8. handed[q][r] \in Nat
    OBVIOUS
  <2>1. UNCHANGED <<medium, sent, handed>>
    BY <1>5 DEF BeginRead
  <2> QED
    BY <2>1, <2>8, <2>9
<1>6. CASE EndRead
  <2>1. PICK k \in 1 .. Batch :
               /\ polling + k \in 1 .. Len(stream) /\ lastId' = polling + k
               /\ handled' = handled \cup (polling + 1 .. polling + k)
               /\ Dispatch({stream[i] : i \in polling + 1 .. polling + k})
    BY <1>6, BatchRead
  <2>2. UNCHANGED <<stream, medium, sent>> /\ polling' = -1 /\ polling \in Nat /\ medium = "redis"
    BY <1>6 DEF EndRead, ReadInv, BusTypeOK
  <2>3. Passed = polling /\ Passed' = polling + k /\ k \in Nat /\ Len(stream) \in Nat
    BY <2>1, <2>2 DEF Passed, BusTypeOK
  <2>4. handed'[q][r] = handed[q][r] + (IF q \in {stream[i] : i \in polling + 1 .. polling + k} /\
        r \in subscribed THEN 1 ELSE 0)
    BY <2>1, DispatchHands
  <2>9. /\ Cardinality(Upto(stream, q, Passed)) \in Nat /\
           Cardinality(Upto(stream', q, Passed')) \in Nat
        /\ Cardinality(Upto(stream, q, Passed)) <= Cardinality(Upto(stream', q, Passed'))
    BY PassedCopies
  <2>8. handed[q][r] \in Nat
    OBVIOUS
  <2>5. CASE q \in {stream[i] : i \in polling + 1 .. polling + k}
    <3>1. PICK i \in polling + 1 .. polling + k : stream[i] = q
      BY <2>5
    <3>2. Upto(stream, q, polling) \cup {i} \subseteq Upto(stream, q, polling + k) /\
          i \notin Upto(stream, q, polling)
      BY <2>2, <2>3, <3>1 DEF Upto
    <3>3. /\ IsFiniteSet(Upto(stream, q, polling)) /\ IsFiniteSet(Upto(stream, q, polling + k))
          /\ Cardinality(Upto(stream, q, polling)) \in Nat
      <4>1. stream \in Seq(Messages) /\ polling \in 0 .. Len(stream) /\
            polling + k \in 0 .. Len(stream) /\ 0 \in 0 .. polling /\ 0 \in 0 .. polling + k
        BY <2>1, <2>2, <2>3 DEF BusTypeOK
      <4> QED
        BY <4>1, CopiesCount
    <3>4. Cardinality(Upto(stream, q, polling) \cup {i}) = Cardinality(Upto(stream, q, polling)) + 1
      BY <3>2, <3>3, FS_AddElement
    <3>5. Cardinality(Upto(stream, q, polling) \cup {i}) <= Cardinality(Upto(stream, q, polling + k))
      BY <3>2, <3>3, FS_Subset
    <3>6. handed[q][r] <= Cardinality(Upto(stream, q, polling))
      BY <2>2, <2>3
    <3>7. handed'[q][r] <= handed[q][r] + 1
      BY <2>4, <2>8
    <3>8. handed'[q][r] <= Cardinality(Upto(stream', q, Passed'))
      <4>1. handed'[q][r] \in Nat
        BY <2>4, <2>8
      <4> QED
        BY <2>2, <2>3, <2>8, <2>9, <3>3, <3>4, <3>5, <3>6, <3>7, <4>1
    <3> QED
      BY <2>2, <3>8
  <2>6. CASE q \notin {stream[i] : i \in polling + 1 .. polling + k}
    BY <2>2, <2>4, <2>6, <2>8, <2>9
  <2> QED
    BY <2>5, <2>6
<1>7. CASE ReadEmpty
  <2>9. /\ Cardinality(Upto(stream, q, Passed)) \in Nat /\
           Cardinality(Upto(stream', q, Passed')) \in Nat
        /\ Cardinality(Upto(stream, q, Passed)) <= Cardinality(Upto(stream', q, Passed'))
    BY PassedCopies
  <2>8. handed[q][r] \in Nat
    OBVIOUS
  <2>1. UNCHANGED <<medium, sent, handed>>
    BY <1>7 DEF ReadEmpty
  <2> QED
    BY <2>1, <2>8, <2>9
<1>8. ASSUME NEW s \in Subscribers, BusSubscribe(s)
      PROVE  HandedOk(q, r)'
  <2>9. /\ Cardinality(Upto(stream, q, Passed)) \in Nat /\
           Cardinality(Upto(stream', q, Passed')) \in Nat
        /\ Cardinality(Upto(stream, q, Passed)) <= Cardinality(Upto(stream', q, Passed'))
    BY PassedCopies
  <2>8. handed[q][r] \in Nat
    OBVIOUS
  <2>1. UNCHANGED <<medium, sent, handed>>
    BY <1>8 DEF BusSubscribe
  <2> QED
    BY <2>1, <2>8, <2>9
<1>9. ASSUME NEW s \in Subscribers, Unsubscribe(s)
      PROVE  HandedOk(q, r)'
  <2>9. /\ Cardinality(Upto(stream, q, Passed)) \in Nat /\
           Cardinality(Upto(stream', q, Passed')) \in Nat
        /\ Cardinality(Upto(stream, q, Passed)) <= Cardinality(Upto(stream', q, Passed'))
    BY PassedCopies
  <2>8. handed[q][r] \in Nat
    OBVIOUS
  <2>1. UNCHANGED <<medium, sent, handed>>
    BY <1>9 DEF Unsubscribe
  <2> QED
    BY <2>1, <2>8, <2>9
<1>10. ASSUME NEW m \in Messages, BusPublish(m)
      PROVE  HandedOk(q, r)'
  <2>9. /\ Cardinality(Upto(stream, q, Passed)) \in Nat /\
           Cardinality(Upto(stream', q, Passed')) \in Nat
        /\ Cardinality(Upto(stream, q, Passed)) <= Cardinality(Upto(stream', q, Passed'))
    BY PassedCopies
  <2>8. handed[q][r] \in Nat
    OBVIOUS
  <2>1. /\ UNCHANGED medium /\ sent[m] \in {"new", "again"}
        /\ \/ Published(m) /\ sent' = [sent EXCEPT ![m] = "true"]
           \/ \E a \in {"false", "raised", "again"} : sent' = [sent EXCEPT ![m] = a] /\ UNCHANGED handed
    BY <1>10 DEF BusPublish, Dropped, PublishRaises
  <2>2. sent \in [Messages -> {"new", "again", "true", "false", "raised", "dlq"}]
    BY DEF BusTypeOK
  <2>3. CASE UNCHANGED handed
    <3>1. sent[q] = "true" => sent'[q] = "true"
      BY <2>1, <2>2, <2>3
    <3> QED
      BY <2>1, <2>3, <2>8, <2>9, <3>1
  <2>4. CASE medium = "memory" /\ Dispatch({m}) /\ sent' = [sent EXCEPT ![m] = "true"]
    <3>1. handed'[q][r] = handed[q][r] + (IF q \in {m} /\ r \in subscribed THEN 1 ELSE 0)
      BY <2>4, DispatchHands
    <3>2. CASE q = m
      <4>1. handed[q][r] <= 0 /\ sent'[q] = "true"
        BY <2>1, <2>2, <2>4, <3>2
      <4> QED
        BY <2>1, <2>4, <2>8, <3>1, <4>1
    <3>3. CASE q # m
      BY <2>1, <2>2, <2>4, <2>8, <3>1, <3>3
    <3> QED
      BY <3>2, <3>3
  <2> QED
    BY <2>1, <2>3, <2>4 DEF Published
<1>11. ASSUME NEW m \in Messages, PublishMessage(m)
      PROVE  HandedOk(q, r)'
  <2>9. /\ Cardinality(Upto(stream, q, Passed)) \in Nat /\
           Cardinality(Upto(stream', q, Passed')) \in Nat
        /\ Cardinality(Upto(stream, q, Passed)) <= Cardinality(Upto(stream', q, Passed'))
    BY PassedCopies
  <2>8. handed[q][r] \in Nat
    OBVIOUS
  <2>1. /\ UNCHANGED medium /\ sent[m] \in {"new", "again"}
        /\ \/ Published(m) /\ sent' = [sent EXCEPT ![m] = "true"]
           \/ \E a \in {"false", "raised", "again"} : sent' = [sent EXCEPT ![m] = a] /\ UNCHANGED handed
    BY <1>11 DEF PublishMessage, Dropped, PublishRaises
  <2>2. sent \in [Messages -> {"new", "again", "true", "false", "raised", "dlq"}]
    BY DEF BusTypeOK
  <2>3. CASE UNCHANGED handed
    <3>1. sent[q] = "true" => sent'[q] = "true"
      BY <2>1, <2>2, <2>3
    <3> QED
      BY <2>1, <2>3, <2>8, <2>9, <3>1
  <2>4. CASE medium = "memory" /\ Dispatch({m}) /\ sent' = [sent EXCEPT ![m] = "true"]
    <3>1. handed'[q][r] = handed[q][r] + (IF q \in {m} /\ r \in subscribed THEN 1 ELSE 0)
      BY <2>4, DispatchHands
    <3>2. CASE q = m
      <4>1. handed[q][r] <= 0 /\ sent'[q] = "true"
        BY <2>1, <2>2, <2>4, <3>2
      <4> QED
        BY <2>1, <2>4, <2>8, <3>1, <4>1
    <3>3. CASE q # m
      BY <2>1, <2>2, <2>4, <2>8, <3>1, <3>3
    <3> QED
      BY <3>2, <3>3
  <2> QED
    BY <2>1, <2>3, <2>4 DEF Published
<1>12. ASSUME NEW m \in Messages, DeadLetter(m)
      PROVE  HandedOk(q, r)'
  <2>9. /\ Cardinality(Upto(stream, q, Passed)) \in Nat /\
           Cardinality(Upto(stream', q, Passed')) \in Nat
        /\ Cardinality(Upto(stream, q, Passed)) <= Cardinality(Upto(stream', q, Passed'))
    BY PassedCopies
  <2>8. handed[q][r] \in Nat
    OBVIOUS
  <2>1. UNCHANGED <<medium, handed>> /\ sent[m] = "again" /\ sent' = [sent EXCEPT ![m] = "dlq"]
    BY <1>12 DEF DeadLetter
  <2> QED
    BY <2>1, <2>8, <2>9 DEF BusTypeOK
<1>13. ASSUME NEW m \in Messages, NEW s \in Subscribers, CallbackEnds(m, s)
      PROVE  HandedOk(q, r)'
  <2>9. /\ Cardinality(Upto(stream, q, Passed)) \in Nat /\
           Cardinality(Upto(stream', q, Passed')) \in Nat
        /\ Cardinality(Upto(stream, q, Passed)) <= Cardinality(Upto(stream', q, Passed'))
    BY PassedCopies
  <2>8. handed[q][r] \in Nat
    OBVIOUS
  <2>1. UNCHANGED <<medium, sent, handed>>
    BY <1>13 DEF CallbackEnds
  <2> QED
    BY <2>1, <2>8, <2>9
<1>14. CASE UNCHANGED busVars
  <2>9. /\ Cardinality(Upto(stream, q, Passed)) \in Nat /\
           Cardinality(Upto(stream', q, Passed')) \in Nat
        /\ Cardinality(Upto(stream, q, Passed)) <= Cardinality(Upto(stream', q, Passed'))
    BY PassedCopies
  <2>8. handed[q][r] \in Nat
    OBVIOUS
  <2> QED
    BY <1>14, <2>8, <2>9 DEF busVars
<1> QED
  BY <1>1, <1>2, <1>3, <1>4, <1>5, <1>6, <1>7, <1>8, <1>9, <1>10, <1>11, <1>12, <1>13,
     <1>14
     DEF BusNext

\* Every publish() puts one copy into the stream at most and counts an attempt;
\* what a failed one leaves is attempted again or goes to the dead letters.
LEMMA CopiesKept ==
    ASSUME BusInv, NEW q \in Messages, [BusNext]_busVars
    PROVE  CopiesOk(q)'
<1> USE EventBusAssumption DEF BusInv, BusTypes, BusTypeOK, CopiesInv, CopiesOk
<1>1. CASE StartBus
  <2>1. UNCHANGED <<medium, sent, attempts>> /\ Copies(q)' = Copies(q)
    BY <1>1 DEF StartBus, Copies
  <2> QED
    BY <2>1
<1>2. CASE StopBus
  <2>1. UNCHANGED <<medium, sent, attempts>> /\ Copies(q)' = Copies(q)
    BY <1>2 DEF StopBus, Copies
  <2> QED
    BY <2>1
<1>3. CASE ShutdownBus
  <2>1. UNCHANGED <<medium, sent, attempts>> /\ Copies(q)' = Copies(q)
    BY <1>3 DEF ShutdownBus, Copies
  <2> QED
    BY <2>1
<1>4. CASE RouterShutdown
  <2>1. UNCHANGED <<medium, sent, attempts>> /\ Copies(q)' = Copies(q)
    BY <1>4 DEF RouterShutdown, Copies
  <2> QED
    BY <2>1
<1>5. CASE BeginRead
  <2>1. UNCHANGED <<medium, sent, attempts>> /\ Copies(q)' = Copies(q)
    BY <1>5 DEF BeginRead, Copies
  <2> QED
    BY <2>1
<1>6. CASE EndRead
  <2>1. UNCHANGED <<medium, sent, attempts>> /\ Copies(q)' = Copies(q)
    BY <1>6 DEF EndRead, Copies
  <2> QED
    BY <2>1
<1>7. CASE ReadEmpty
  <2>1. UNCHANGED <<medium, sent, attempts>> /\ Copies(q)' = Copies(q)
    BY <1>7 DEF ReadEmpty, Copies
  <2> QED
    BY <2>1
<1>8. ASSUME NEW s \in Subscribers, BusSubscribe(s)
      PROVE  CopiesOk(q)'
  <2>1. UNCHANGED <<medium, sent, attempts>> /\ Copies(q)' = Copies(q)
    BY <1>8 DEF BusSubscribe, Copies
  <2> QED
    BY <2>1
<1>9. ASSUME NEW s \in Subscribers, Unsubscribe(s)
      PROVE  CopiesOk(q)'
  <2>1. UNCHANGED <<medium, sent, attempts>> /\ Copies(q)' = Copies(q)
    BY <1>9 DEF Unsubscribe, Copies
  <2> QED
    BY <2>1
<1>10. ASSUME NEW m \in Messages, BusPublish(m)
      PROVE  CopiesOk(q)'
  <2>1. stream' = stream \/ stream' = Append(stream, m)
    BY <1>10 DEF BusPublish, Published, Dropped, PublishRaises
  <2>2. /\ Copies(q) \in Nat /\ Copies(q)' \in Nat
        /\ q # m => Copies(q)' = Copies(q)
        /\ stream' = stream => Copies(q)' = Copies(q)
        /\ stream' = Append(stream, m) => Copies(m)' = Copies(m) + 1
    <3>1. stream' \in Seq(Messages) /\ Len(stream) \in 0 .. Len(stream) /\ 0 \in 0 .. Len(stream) /\
          0 \in 0 .. Len(stream')
      <4>1. stream' \in Seq(Messages)
        <5>1. CASE stream' = stream
          BY <5>1
        <5>2. CASE stream' = Append(stream, m)
          BY <5>2
        <5> QED
          BY <2>1, <5>1, <5>2
      <4>2. Len(stream) \in Nat /\ Len(stream') \in Nat
        BY <4>1
      <4> QED
        BY <4>1, <4>2
    <3>2. /\ Copies(q) = Cardinality(Upto(stream, q, Len(stream))) /\
             Copies(m) = Cardinality(Upto(stream, m, Len(stream)))
          /\ Copies(q)' = Cardinality(Upto(stream', q, Len(stream'))) /\
             Copies(m)' = Cardinality(Upto(stream', m, Len(stream')))
      BY <3>1, CopiesAreUpto DEF Copies
    <3>3. Len(stream') \in 0 .. Len(stream')
      BY <3>1
    <3>4. Copies(q) \in Nat /\ Copies(q)' \in Nat
      BY <3>1, <3>2, <3>3, CopiesCount
    <3>5. CASE stream' = stream
      <4>1. Append(stream, m) # stream
        <5>1. Len(Append(stream, m)) = Len(stream) + 1 /\ Len(stream) \in Nat
          OBVIOUS
        <5> QED
          BY <5>1
      <4>2. Copies(q)' = Copies(q)
        BY <3>5 DEF Copies
      <4> QED
        BY <3>4, <3>5, <4>1, <4>2
    <3>6. CASE stream' = Append(stream, m) /\ stream' # stream
      <4>1. /\ \A x \in Messages \ {m} : Upto(stream', x, Len(stream')) = Upto(stream, x, Len(stream))
            /\ Cardinality(Upto(stream', m, Len(stream'))) = Cardinality(Upto(stream, m,
               Len(stream))) + 1
        BY <3>6, AppendCopies
      <4> QED
        BY <3>2, <3>4, <3>6, <4>1
    <3> QED
      BY <2>1, <3>5, <3>6
  <2>3. sent[m] = "new" /\ UNCHANGED <<medium, attempts>>
    BY <1>10 DEF BusPublish
  <2>4. \/ active /\ sent' = [sent EXCEPT ![m] = "true"] /\ (medium = "redis" =>
           stream' = Append(stream, m))
        \/ sent' = [sent EXCEPT ![m] = "false"] \/ sent' = [sent EXCEPT ![m] = "raised"]
    BY <1>10 DEF BusPublish, Published
  <2>5. CASE q # m
    <3>1. sent'[q] = sent[q]
      BY <2>4, <2>5
    <3> QED
      BY <2>2, <2>3, <2>5, <3>1
  <2>6. CASE q = m
    <3>1. Copies(q) = 0 /\ Copies(q)' <= 1
      BY <2>1, <2>2, <2>3, <2>6
    <3>2. sent'[q] \in {"true", "false", "raised"} /\ (sent'[q] = "true" /\ medium = "redis" =>
          stream' = Append(stream, m))
      BY <2>4, <2>6
    <3> QED
      BY <2>2, <2>3, <2>6, <3>1, <3>2
  <2> QED
    BY <2>5, <2>6
<1>11. ASSUME NEW m \in Messages, PublishMessage(m)
      PROVE  CopiesOk(q)'
  <2>1. stream' = stream \/ stream' = Append(stream, m)
    BY <1>11 DEF PublishMessage, Published, Dropped, PublishRaises
  <2>2. /\ Copies(q) \in Nat /\ Copies(q)' \in Nat
        /\ q # m => Copies(q)' = Copies(q)
        /\ stream' = stream => Copies(q)' = Copies(q)
        /\ stream' = Append(stream, m) => Copies(m)' = Copies(m) + 1
    <3>1. stream' \in Seq(Messages) /\ Len(stream) \in 0 .. Len(stream) /\ 0 \in 0 .. Len(stream) /\
          0 \in 0 .. Len(stream')
      <4>1. stream' \in Seq(Messages)
        <5>1. CASE stream' = stream
          BY <5>1
        <5>2. CASE stream' = Append(stream, m)
          BY <5>2
        <5> QED
          BY <2>1, <5>1, <5>2
      <4>2. Len(stream) \in Nat /\ Len(stream') \in Nat
        BY <4>1
      <4> QED
        BY <4>1, <4>2
    <3>2. /\ Copies(q) = Cardinality(Upto(stream, q, Len(stream))) /\
             Copies(m) = Cardinality(Upto(stream, m, Len(stream)))
          /\ Copies(q)' = Cardinality(Upto(stream', q, Len(stream'))) /\
             Copies(m)' = Cardinality(Upto(stream', m, Len(stream')))
      BY <3>1, CopiesAreUpto DEF Copies
    <3>3. Len(stream') \in 0 .. Len(stream')
      BY <3>1
    <3>4. Copies(q) \in Nat /\ Copies(q)' \in Nat
      BY <3>1, <3>2, <3>3, CopiesCount
    <3>5. CASE stream' = stream
      <4>1. Append(stream, m) # stream
        <5>1. Len(Append(stream, m)) = Len(stream) + 1 /\ Len(stream) \in Nat
          OBVIOUS
        <5> QED
          BY <5>1
      <4>2. Copies(q)' = Copies(q)
        BY <3>5 DEF Copies
      <4> QED
        BY <3>4, <3>5, <4>1, <4>2
    <3>6. CASE stream' = Append(stream, m) /\ stream' # stream
      <4>1. /\ \A x \in Messages \ {m} : Upto(stream', x, Len(stream')) = Upto(stream, x, Len(stream))
            /\ Cardinality(Upto(stream', m, Len(stream'))) = Cardinality(Upto(stream, m,
               Len(stream))) + 1
        BY <3>6, AppendCopies
      <4> QED
        BY <3>2, <3>4, <3>6, <4>1
    <3> QED
      BY <2>1, <3>5, <3>6
  <2>3. sent[m] \in {"new", "again"} /\ attempts[m] < MaxRetry /\
        attempts' = [attempts EXCEPT ![m] = @ + 1] /\ UNCHANGED medium
    BY <1>11 DEF PublishMessage
  <2>4. \/ active /\ sent' = [sent EXCEPT ![m] = "true"] /\ (medium = "redis" =>
           stream' = Append(stream, m))
        \/ sent' = [sent EXCEPT ![m] = "again"]
    BY <1>11 DEF PublishMessage, Published
  <2>5. CASE q # m
    <3>1. sent'[q] = sent[q] /\ attempts'[q] = attempts[q]
      BY <2>3, <2>4, <2>5
    <3> QED
      BY <2>2, <2>3, <2>5, <3>1
  <2>6. CASE q = m
    <3>1. attempts[q] \in 0 .. MaxRetry /\ Copies(q) <= attempts[q] /\ attempts'[q] = attempts[q] + 1
      <4>1. attempts[q] \in 0 .. MaxRetry
        OBVIOUS
      <4>2. attempts'[q] = attempts[q] + 1
        BY <2>3, <2>6
      <4>3. Copies(q) <= attempts[q]
        <5>1. CASE sent[q] = "new"
          BY <4>1, <5>1
        <5>2. CASE sent[q] = "again"
          BY <5>2
        <5> QED
          BY <2>3, <2>6, <5>1, <5>2
      <4> QED
        BY <4>1, <4>2, <4>3
    <3>2. sent'[q] \in {"true", "again"} /\ (sent'[q] = "true" /\ medium = "redis" =>
          stream' = Append(stream, m))
      BY <2>4, <2>6
    <3>3. Copies(q)' <= Copies(q) + 1 /\ (stream' = Append(stream, m) => Copies(q)' = Copies(q) + 1)
      BY <2>1, <2>2, <2>6
    <3>4. Copies(q)' <= MaxRetry /\ Copies(q)' <= attempts'[q]
      BY <2>2, <2>3, <2>6, <3>1, <3>3
    <3> QED
      BY <2>2, <2>3, <3>2, <3>3, <3>4
  <2> QED
    BY <2>5, <2>6
<1>12. ASSUME NEW m \in Messages, DeadLetter(m)
      PROVE  CopiesOk(q)'
  <2>1. UNCHANGED <<medium, attempts>> /\ Copies(q)' = Copies(q)
    BY <1>12 DEF DeadLetter, Copies
  <2>2. sent[m] = "again" /\ sent' = [sent EXCEPT ![m] = "dlq"] /\ attempts[m] = MaxRetry
    BY <1>12 DEF DeadLetter
  <2> QED
    BY <2>1, <2>2
<1>13. ASSUME NEW m \in Messages, NEW s \in Subscribers, CallbackEnds(m, s)
      PROVE  CopiesOk(q)'
  <2>1. UNCHANGED <<medium, sent, attempts>> /\ Copies(q)' = Copies(q)
    BY <1>13 DEF CallbackEnds, Copies
  <2> QED
    BY <2>1
<1>14. CASE UNCHANGED busVars
  BY <1>14 DEF busVars, Copies
<1> QED
  BY <1>1, <1>2, <1>3, <1>4, <1>5, <1>6, <1>7, <1>8, <1>9, <1>10, <1>11, <1>12, <1>13,
     <1>14
     DEF BusNext

\* An empty bus is in the invariant.
LEMMA BusStarts == ASSUME BusInit PROVE BusInv
<1> USE EventBusAssumption DEF BusInit
<1>1. BusTypes /\ ReadInv /\ StoppedIsQuiet
  <2>1. stream \in Seq(Messages) /\ Len(stream) = 0
    OBVIOUS
  <2>2. handed \in [Messages -> [Subscribers -> Nat]]
    OBVIOUS
  <2>3. sent \in [Messages -> {"new", "again", "true", "false", "raised", "dlq"}] /\
        attempts \in [Messages -> 0 .. MaxRetry]
    OBVIOUS
  <2>4. lastId \in 0 .. Len(stream) /\ polling \in -1 .. Len(stream)
    BY <2>1
  <2>6. medium \in {"memory", "redis"} /\ active \in BOOLEAN
    OBVIOUS
  <2>7. BusTypes
    BY <2>1, <2>2, <2>3, <2>4, <2>6, Zenon DEF BusTypes, BusTypeOK
  <2>5. ReadInv /\ StoppedIsQuiet
    BY <2>1 DEF ReadInv, NoGaps, StoppedIsQuiet
  <2> QED
    BY <2>5, <2>7
<1>2. \A m \in Messages : Copies(m) = 0
  <2>1. \A m \in Messages : {i \in DOMAIN stream : stream[i] = m} = {}
    OBVIOUS
  <2> QED
    BY <2>1, FS_EmptySet DEF Copies
<1>3. \A m \in Messages : Cardinality(Upto(stream, m, Passed)) = 0
  <2>1. \A m \in Messages : Upto(stream, m, Passed) = {}
    BY DEF Upto, Passed
  <2> QED
    BY <2>1, FS_EmptySet
<1>4. HandedInv
  <2>1. \A m \in Messages, s \in Subscribers : handed[m][s] = 0
    OBVIOUS
  <2> QED
    BY <1>3, <2>1 DEF HandedInv, HandedOk
<1>5. CopiesInv
  BY <1>2 DEF CopiesInv, CopiesOk
<1> QED
  BY <1>1, <1>4, <1>5 DEF BusInv

\* Every step keeps it.
LEMMA BusStepKeeps == ASSUME BusInv, [BusNext]_busVars PROVE BusInv'
<1>1. BusTypes' /\ ReadInv' /\ StoppedIsQuiet'
  BY BusTypesKept, ReadKept, QuietKept
<1>2. HandedInv' /\ CopiesInv'
  BY HandedKept, CopiesKept DEF HandedInv, CopiesInv
<1> QED
  BY <1>1, <1>2 DEF BusInv

\* The invariant is more than what BusSafe says.
LEMMA BusIsSafe == ASSUME BusInv PROVE BusSafe
<1>0. \A m \in Messages, s \in Subscribers : handed[m][s] \in Nat /\ HandedOk(m, s)
  BY DEF BusInv, BusTypes, HandedInv
<1>9. /\ medium \in {"memory", "redis"} /\ BusTypeOK /\ stream \in Seq(Messages) /\
         lastId \in 0 .. Len(stream)
      /\ polling \in -1 .. Len(stream) /\ \A m \in Messages : CopiesOk(m)
  BY DEF BusInv, BusTypes, BusTypeOK, CopiesInv
<1>1. DispatchedOnce
  <2>1. ASSUME NEW m \in Messages, NEW s \in Subscribers
        PROVE  handed[m][s] <= (IF medium = "memory" THEN 1 ELSE Copies(m))
    <3>1. handed[m][s] \in Nat
      BY <1>0
    <3>2. CASE medium = "memory"
      <4>1. handed[m][s] <= (IF sent[m] = "true" THEN 1 ELSE 0)
        BY <1>0, <3>2 DEF HandedOk
      <4> QED
        BY <3>1, <3>2, <4>1
    <3>3. CASE medium = "redis"
      <4>1. Passed \in 0 .. Len(stream) /\ 0 \in 0 .. Passed /\ Len(stream) \in Nat
        BY <1>9 DEF Passed
      <4>2. Copies(m) = Cardinality(Upto(stream, m, Len(stream)))
        BY <1>9, CopiesAreUpto DEF Copies
      <4>3. Cardinality(Upto(stream, m, Passed)) <= Copies(m) /\
            Cardinality(Upto(stream, m, Passed)) \in Nat /\ Copies(m) \in Nat
        BY <1>9, <4>1, <4>2, CopiesCount
      <4>4. handed[m][s] <= Cardinality(Upto(stream, m, Passed))
        BY <1>0, <3>3 DEF HandedOk
      <4> QED
        BY <3>1, <3>3, <4>3, <4>4
    <3> QED
      BY <1>9, <3>2, <3>3
  <2> QED
    BY <2>1 DEF DispatchedOnce
<1>2. AnswersAreTrue
  <2>1. ASSUME NEW m \in Messages, sent[m] \in {"dlq", "false"}, medium = "memory",
               NEW s \in Subscribers
        PROVE  handed[m][s] = 0
    <3>1. handed[m][s] \in Nat /\ handed[m][s] <= 0
      BY <1>0, <2>1 DEF HandedOk
    <3> QED
      BY <3>1
  <2> QED
    BY <1>9, <2>1 DEF AnswersAreTrue, CopiesOk
<1> QED
  BY <1>1, <1>2 DEF BusSafe, BusInv, BusTypes, ReadInv

-----------------------------------------------------------------------------
(* The agent loop.                                                         *)

\* One run of the agent loop.
LoopSpec == LoopInit /\ [][LoopNext]_loopVars

\* A task is in an iteration, or was when the run was cancelled.
Working == loopAt \in {"first", "repair", "fallback", "planning", "selecting", "reflect", "cancelled"}

\* The iterations that are over.
Rounds == IF Working THEN iteration - 1 ELSE iteration

\* The steps inside one iteration: they choose, call and reap.
DispatchStep ==
    \/ PlanRepair \/ SelectFallback \/ ProcessTimesOut \/ CancelRun
    \/ \E r \in Errors \cup {"ok", "fatal"} : Answers(r) \/ ProcessExits(r)
    \/ \E e \in Errors : Reaped(e)

\* The entries of the queue.
QueueEntries == [id : Ids, after : Ids \cup {0}]

\* The types, as far as the model's type invariant leaves them open.
LoopTypes ==
    /\ LoopTypeOK
    /\ todo \in Seq(QueueEntries)
    /\ completed \in Nat /\ failures \in Nat
    /\ journal \in Seq({"CONTINUE", "SUCCESS", "ABORT", "REPLAN"})
    /\ last \in [Ids -> Errors \cup {"ok", "fatal", "exhausted", "unregistered", "none"}]
    /\ answer \in Errors \cup {"ok", "fatal", "exhausted", "unregistered", "none"}

\* Every iteration that is over is a completion or a failure and has one entry in
\* the journal.
CountInv ==
    /\ completed + failures = Rounds /\ Len(journal) = Rounds
    /\ Working => iteration > 0 /\ cursor <= Len(todo)

\* Every id is in the queue once at most from the cursor on, and is not done.
IdsInv ==
    /\ \A j \in 1 .. Len(todo) : todo[j].id <= TaskCount + Rounds
    /\ \A j, k \in cursor .. Len(todo) : todo[j].id = todo[k].id => j = k
    /\ \A j \in cursor .. Len(todo) : last[todo[j].id] # "ok"
    /\ \A i \in Ids : i > TaskCount + Rounds => last[i] = "none"

\* A repair that is not done comes before the retry it was made for.
RepairInv ==
    \A j \in cursor .. Len(todo) :
        todo[j].after # 0 =>
            \/ last[todo[j].after] = "ok"
            \/ \E k \in cursor .. j - 1 : todo[k].id = todo[j].after

\* A task is done or still in the queue.
PendingInv ==
    /\ \A i \in 1 .. TaskCount : last[i] = "ok" \/ \E j \in cursor .. Len(todo) : todo[j].id = i
    /\ loopAt = "ended" =>
          \/ reason = "ITERATION_LIMIT"
          \/ cursor > Len(todo)
          \/ cursor <= Len(todo) /\ last[todo[cursor].id] = "fatal"

\* How many executors the dispatch has called, and may still call.
DispatchInv ==
    /\ tried \in Seq(Executors) /\ strategies \in Seq(Executors)
    /\ helper \in {"repair", "fallback", "plain"}
    /\ Len(tried) <= 1 + MAXREPAIRSTAGES
    /\ loopAt \in {"first", "planning"} => Len(tried) = 1
    /\ loopAt = "planning" => helper = "repair"
    /\ loopAt = "repair" => helper = "repair" /\ Len(tried) + Len(strategies) <= 1 + MAXREPAIRSTAGES
    /\ loopAt = "selecting" => helper = "fallback" /\ Len(tried) <= MAXRETRIES
    /\ loopAt = "fallback" => helper = "fallback" /\ Len(tried) <= 1 + MAXRETRIES
    /\ helper = "fallback" => \A i, j \in 1 .. Len(tried) : tried[i] = tried[j] => i = j

\* Calls and their processes.
CallsInv ==
    /\ calls \in Nat /\ recorded \in Nat /\ repaired \in Nat
    /\ helper # "plain" => recorded = calls - (IF InCall \/ loopAt = "cancelled" THEN 1 ELSE 0)
    /\ (patterns = {}) <=> (repaired = 0)
    /\ ChildIsReaped

\* The inductive invariant: counters, ids, repairs and tasks of the queue, and
\* the calls of the iteration that is under way.
LoopInv == LoopTypes /\ CountInv /\ IdsInv /\ RepairInv /\ PendingInv /\ DispatchInv /\ CallsInv

\* What a dispatch does, it does not to the queue.
LEMMA DispatchKeepsQueue ==
    ASSUME LoopInv, DispatchStep
    PROVE  UNCHANGED queueVars /\ UNCHANGED helper /\ Working /\ Working' /\ UNCHANGED Rounds
<1>0. SUFFICES UNCHANGED queueVars /\ UNCHANGED helper /\ Working /\ Working'
  BY DEF Rounds, queueVars
<1>1. ASSUME NEW r, InCall, CallReturns(r)
      PROVE  UNCHANGED queueVars /\ UNCHANGED helper /\ Working /\ Working'
  <2>1. CASE loopAt = "first"
    BY <1>1, <2>1 DEF CallReturns, FirstReturns, Working
  <2>2. CASE loopAt = "repair"
    <3>1. CallReturns(r) => RepairCallReturns(r) /\ UNCHANGED queueVars /\ UNCHANGED helper
      BY <2>2 DEF CallReturns
    <3>2. loopAt' \in {"reflect", "repair"}
      BY <1>1, <3>1 DEF RepairCallReturns, NextStrategy
    <3> QED
      BY <1>1, <2>2, <3>1, <3>2 DEF Working
  <2>3. CASE loopAt = "fallback"
    BY <1>1, <2>3 DEF CallReturns, FallbackReturns, Working
  <2> QED
    BY <1>1, <2>1, <2>2, <2>3 DEF InCall
<1>2. CASE PlanRepair
  BY <1>2 DEF PlanRepair, NextStrategy, Working
<1>3. CASE SelectFallback
  BY <1>3 DEF SelectFallback, Working
<1>4. CASE ProcessTimesOut \/ CancelRun
  BY <1>4 DEF ProcessTimesOut, CancelRun, InCall, Working
<1>5. CASE \E r \in Errors \cup {"ok", "fatal"} : Answers(r) \/ ProcessExits(r)
  BY <1>1, <1>5 DEF Answers, ProcessExits
<1>6. CASE \E e \in Errors : Reaped(e)
  BY <1>1, <1>6 DEF Reaped
<1> QED
  BY <1>2, <1>3, <1>4, <1>5, <1>6 DEF DispatchStep

\* Two entries put behind place c.
TwoBehind(st, c, a, b) == SubSeq(st, 1, c) \o <<a, b>> \o SubSeq(st, c + 1, Len(st))

\* They move the entries behind it.
LEMMA TwoPutBehind ==
    ASSUME NEW S, NEW st \in Seq(S), NEW c \in 1 .. Len(st), NEW a \in S, NEW b \in S
    PROVE  /\ TwoBehind(st, c, a, b) \in Seq(S) /\ Len(TwoBehind(st, c, a, b)) = Len(st) + 2
           /\ \A i \in 1 .. c : TwoBehind(st, c, a, b)[i] = st[i]
           /\ TwoBehind(st, c, a, b)[c + 1] = a /\ TwoBehind(st, c, a, b)[c + 2] = b
           /\ \A i \in c + 3 .. Len(st) + 2 : TwoBehind(st, c, a, b)[i] = st[i - 2]
<1> DEFINE front == SubSeq(st, 1, c)
           back == SubSeq(st, c + 1, Len(st))
           mid == front \o <<a, b>>
<1>1. Len(st) \in Nat /\ c \in 1 .. Len(st)
  OBVIOUS
<1>2. front \in Seq(S) /\ Len(front) = c /\ \A i \in 1 .. c : front[i] = st[i]
  BY <1>1
<1>3. back \in Seq(S) /\ Len(back) = Len(st) - c /\ \A i \in 1 .. Len(st) - c : back[i] = st[c + i]
  BY <1>1
<1>4. <<a, b>> \in Seq(S) /\ Len(<<a, b>>) = 2
  OBVIOUS
<1>5. mid \in Seq(S) /\ Len(mid) = c + 2 /\ (\A i \in 1 .. c : mid[i] = st[i]) /\ mid[c + 1] = a /\
      mid[c + 2] = b
  <2> HIDE DEF front
  <2> QED
    BY <1>1, <1>2, <1>4
<1> HIDE DEF mid, back
<1>6. /\ mid \o back \in Seq(S) /\ Len(mid \o back) = Len(mid) + Len(back)
      /\ \A i \in 1 .. Len(mid) + Len(back) :
            (mid \o back)[i] = IF i <= Len(mid) THEN mid[i] ELSE back[i - Len(mid)]
  BY <1>3, <1>5, ConcatProperties
<1>7. Len(mid) = c + 2 /\ Len(back) = Len(st) - c /\ c \in Nat /\ c >= 1
  BY <1>1, <1>3, <1>5
<1>8. \A i \in 1 .. c + 2 : (mid \o back)[i] = mid[i]
  BY <1>1, <1>6, <1>7
<1>9. \A i \in c + 3 .. Len(st) + 2 : (mid \o back)[i] = st[i - 2]
  <2>1. ASSUME NEW i \in c + 3 .. Len(st) + 2
        PROVE  (mid \o back)[i] = st[i - 2]
    <3>1. i \in 1 .. Len(mid) + Len(back) /\ ~(i <= Len(mid)) /\ i - Len(mid) \in 1 .. Len(st) - c /\
          c + (i - Len(mid)) = i - 2
      BY <1>1, <1>7
    <3>2. (mid \o back)[i] = back[i - Len(mid)]
      BY <1>6, <3>1
    <3> QED
      BY <1>3, <3>1, <3>2
  <2> QED
    BY <2>1
<1>10. TwoBehind(st, c, a, b) = mid \o back
  BY DEF TwoBehind, mid, back
<1>11. /\ \A i \in 1 .. c : (mid \o back)[i] = st[i]
       /\ (mid \o back)[c + 1] = a /\ (mid \o back)[c + 2] = b /\ Len(mid \o back) = Len(st) + 2
  BY <1>1, <1>5, <1>6, <1>7, <1>8
<1> QED
  BY <1>6, <1>9, <1>10, <1>11

\* What a failed task leaves in the queue.
QueueGrows(id, r) ==
    /\ todo' \in Seq(QueueEntries) /\ Len(todo') = Len(todo) + 2
    /\ \A i \in 1 .. cursor : todo'[i] = todo[i]
    /\ todo'[cursor + 1] = [id |-> r, after |-> 0]
    /\ todo'[cursor + 2] = [id |-> id, after |-> r]
    /\ \A i \in cursor + 3 .. Len(todo) + 2 : todo'[i] = todo[i - 2]

\* The reflection has a task, and does one of three things.
LEMMA ReflectionCases ==
    ASSUME LoopInv, Reflection
    PROVE  /\ cursor \in 1 .. Len(todo) /\ todo[cursor].id \in Ids /\ RepairId \in Ids /\
              RepairId \in Nat
           /\ RepairId = TaskCount + Rounds + 1 /\ Rounds' = Rounds + 1 /\ Rounds \in Nat /\
              iteration \in Nat
           /\ last' = [last EXCEPT ![todo[cursor].id] = answer] /\ UNCHANGED iteration
           /\ \/ answer = "ok" /\ Succeeded
              \/ answer = "fatal" /\ Aborted
              \/ answer \notin {"ok", "fatal"} /\ Replan /\ QueueGrows(todo[cursor].id, RepairId)
<1> USE AgentLoopAssumption
<1>1. Working /\ loopAt = "reflect" /\ last' = [last EXCEPT ![todo[cursor].id] = answer] /\
      UNCHANGED iteration
  BY DEF Reflection, Working
<1>2. cursor \in 1 .. Len(todo) /\ iteration \in 1 .. MaxIterations /\ todo \in Seq(QueueEntries)
  BY <1>1 DEF LoopInv, LoopTypes, LoopTypeOK, CountInv
<1>3. todo[cursor].id \in Ids /\ todo[cursor] \in QueueEntries
  <2>1. todo[cursor] \in QueueEntries
    BY <1>2
  <2> QED
    BY <2>1 DEF QueueEntries
<1>4. RepairId \in Ids /\ RepairId = TaskCount + Rounds + 1 /\ Rounds \in Nat /\ RepairId \in Nat
  BY <1>1, <1>2 DEF RepairId, Ids, Rounds
<1>5. \/ answer = "ok" /\ Succeeded
      \/ answer = "fatal" /\ Aborted
      \/ answer \notin {"ok", "fatal"} /\ Replan
  BY DEF Reflection
<1>6. ~Working'
  BY <1>5 DEF Succeeded, Aborted, Replan, Terminate, Working
<1>7. Rounds' = Rounds + 1
  BY <1>1, <1>2, <1>6 DEF Rounds
<1>8. ASSUME Replan PROVE QueueGrows(todo[cursor].id, RepairId)
  <2>1. PICK x \in QueueEntries : x = [id |-> RepairId, after |-> 0]
    BY <1>4 DEF QueueEntries
  <2>2. PICK y \in QueueEntries : y = [id |-> todo[cursor].id, after |-> RepairId]
    BY <1>3, <1>4 DEF QueueEntries
  <2>3. todo' = TwoBehind(todo, cursor, x, y)
    BY <1>8, <2>1, <2>2 DEF Replan, TwoBehind
  <2>4. PICK nw : nw = TwoBehind(todo, cursor, x, y)
    OBVIOUS
  <2>5. /\ nw \in Seq(QueueEntries) /\ Len(nw) = Len(todo) + 2
        /\ \A i \in 1 .. cursor : nw[i] = todo[i]
        /\ nw[cursor + 1] = x /\ nw[cursor + 2] = y
        /\ \A i \in cursor + 3 .. Len(todo) + 2 : nw[i] = todo[i - 2]
    <3>0. cursor \in 1 .. Len(todo) /\ todo \in Seq(QueueEntries) /\ x \in QueueEntries /\
          y \in QueueEntries
      BY <1>2
    <3>1. TwoBehind(todo, cursor, x, y) \in Seq(QueueEntries)
      BY <3>0, TwoPutBehind
    <3>2. Len(TwoBehind(todo, cursor, x, y)) = Len(todo) + 2
      BY <3>0, TwoPutBehind
    <3>3. \A i \in 1 .. cursor : TwoBehind(todo, cursor, x, y)[i] = todo[i]
      BY <3>0, TwoPutBehind
    <3>4. TwoBehind(todo, cursor, x, y)[cursor + 1] = x
      BY <3>0, TwoPutBehind
    <3>5. TwoBehind(todo, cursor, x, y)[cursor + 2] = y
      BY <3>0, TwoPutBehind
    <3>6. \A i \in cursor + 3 .. Len(todo) + 2 : TwoBehind(todo, cursor, x, y)[i] = todo[i - 2]
      BY <3>0, TwoPutBehind
    <3> QED
      BY <2>4, <3>1, <3>2, <3>3, <3>4, <3>5, <3>6
  <2> QED
    BY <2>1, <2>2, <2>3, <2>4, <2>5 DEF QueueGrows
<1> QED
  BY <1>1, <1>2, <1>3, <1>4, <1>5, <1>7, <1>8

\* What a dispatch ends with is an answer.
LEMMA AnswerStays ==
    ASSUME LoopInv, DispatchStep
    PROVE  answer' \in Errors \cup {"ok", "fatal", "exhausted", "unregistered", "none"}
<1>0. answer \in Errors \cup {"ok", "fatal", "exhausted", "unregistered", "none"}
  BY DEF LoopInv, LoopTypes
<1>1. ASSUME NEW r \in Errors \cup {"ok", "fatal"}, InCall, CallReturns(r)
      PROVE  answer' = r \/ answer' = "ok"
  <2>1. CASE loopAt = "first"
    BY <1>1, <2>1 DEF CallReturns, FirstReturns
  <2>2. CASE loopAt = "repair"
    BY <1>1, <2>2 DEF CallReturns, RepairCallReturns, NextStrategy
  <2>3. CASE loopAt = "fallback"
    BY <1>1, <2>3 DEF CallReturns, FallbackReturns
  <2> QED
    BY <1>1, <2>1, <2>2, <2>3 DEF InCall
<1>2. CASE PlanRepair
  BY <1>2 DEF PlanRepair, NextStrategy
<1>3. CASE SelectFallback \/ ProcessTimesOut \/ CancelRun
  BY <1>0, <1>3 DEF SelectFallback, ProcessTimesOut, CancelRun
<1>4. CASE \E r \in Errors \cup {"ok", "fatal"} : Answers(r) \/ ProcessExits(r)
  BY <1>1, <1>4 DEF Answers, ProcessExits
<1>5. CASE \E e \in Errors : Reaped(e)
  BY <1>1, <1>5 DEF Reaped
<1> QED
  BY <1>2, <1>3, <1>4, <1>5 DEF DispatchStep

\* A step keeps the types.
LEMMA LoopTypesKept ==
    ASSUME LoopInv, [LoopNext]_loopVars
    PROVE  LoopTypes'
<1> USE AgentLoopAssumption DEF LoopInv, LoopTypes
<1>1. CASE FinishRun
  <2>1. UNCHANGED <<cursor, todo, iteration, completed, failures, journal, last, answer>>
    BY <1>1 DEF FinishRun
  <2>2. loopAt' = "ended" /\ reason' \in {"SUCCESS", "FAILED", "ITERATION_LIMIT"}
    BY <1>1 DEF FinishRun, Terminate
  <2> QED
    BY <2>1, <2>2 DEF LoopTypeOK
<1>2. ASSUME NEW x \in Executors, Iterate(x)
      PROVE  LoopTypes'
  <2>1. UNCHANGED <<cursor, todo, completed, failures, journal, last, reason>> /\
        iteration' = iteration + 1 /\ iteration < MaxIterations
    BY <1>2 DEF Iterate
  <2>2. loopAt' \in {"first", "reflect"} /\ answer' \in {"none", "unregistered"}
    BY <1>2 DEF Iterate
  <2> QED
    BY <2>1, <2>2, AgentLoopAssumption DEF LoopTypeOK
<1>3. CASE Reflection
  <2>1. /\ cursor \in 1 .. Len(todo) /\ todo[cursor].id \in Ids /\ RepairId \in Ids
        /\ last' = [last EXCEPT ![todo[cursor].id] = answer] /\ UNCHANGED iteration
        /\ \/ answer = "ok" /\ Succeeded
           \/ answer = "fatal" /\ Aborted
           \/ answer \notin {"ok", "fatal"} /\ Replan /\ QueueGrows(todo[cursor].id, RepairId)
    BY <1>3, ReflectionCases
  <2>2. last' \in [Ids -> Errors \cup {"ok", "fatal", "exhausted", "unregistered", "none"}] /\
        UNCHANGED answer
    BY <1>3, <2>1 DEF Reflection
  <2>3. Len(todo) \in Nat /\ cursor \in Nat /\ iteration \in 0 .. MaxIterations
    BY <2>1 DEF LoopTypeOK
  <2>4. CASE Succeeded
    <3>1. UNCHANGED todo /\ cursor' = cursor + 1 /\ completed' = completed + 1 /\
          UNCHANGED <<failures, reason>> /\ loopAt' = "head"
      BY <2>4 DEF Succeeded
    <3>2. journal' \in Seq({"CONTINUE", "SUCCESS", "ABORT", "REPLAN"})
      BY <2>4 DEF Succeeded, Record
    <3> QED
      BY <2>1, <2>2, <2>3, <3>1, <3>2 DEF LoopTypeOK
  <2>5. CASE Aborted
    <3>1. UNCHANGED <<todo, cursor, completed>> /\ failures' = failures + 1 /\ reason' = "FAILED" /\
          loopAt' = "ended"
      BY <2>5 DEF Aborted, Terminate
    <3>2. journal' \in Seq({"CONTINUE", "SUCCESS", "ABORT", "REPLAN"})
      BY <2>5 DEF Aborted, Record
    <3> QED
      BY <2>1, <2>2, <2>3, <3>1, <3>2 DEF LoopTypeOK
  <2>6. CASE Replan /\ QueueGrows(todo[cursor].id, RepairId)
    <3>1. UNCHANGED <<completed, reason>> /\ cursor' = cursor + 1 /\ failures' = failures + 1 /\
          loopAt' = "head"
      BY <2>6 DEF Replan
    <3>2. journal' \in Seq({"CONTINUE", "SUCCESS", "ABORT", "REPLAN"})
      BY <2>6 DEF Replan, Record
    <3>3. todo' \in Seq(QueueEntries) /\ Len(todo') = Len(todo) + 2
      BY <2>6 DEF QueueGrows
    <3> QED
      BY <2>1, <2>2, <2>3, <3>1, <3>2, <3>3 DEF LoopTypeOK
  <2> QED
    BY <2>1, <2>4, <2>5, <2>6
<1>4. CASE DispatchStep
  <2>1. UNCHANGED <<cursor, todo, iteration, completed, failures, reason, journal, last>> /\ Working'
    BY <1>4, DispatchKeepsQueue DEF queueVars
  <2>2. answer' \in Errors \cup {"ok", "fatal", "exhausted", "unregistered", "none"}
    BY <1>4, AnswerStays
  <2> QED
    BY <2>1, <2>2 DEF LoopTypeOK, Working
<1>5. CASE UNCHANGED loopVars
  BY <1>5 DEF loopVars, LoopTypeOK, Rounds, Working
<1> QED
  BY <1>1, <1>2, <1>3, <1>4, <1>5
     DEF LoopNext, DispatchStep

\* Only a reflection ends an iteration, and counts it once.
LEMMA CountKept ==
    ASSUME LoopInv, [LoopNext]_loopVars
    PROVE  CountInv'
<1> USE AgentLoopAssumption DEF LoopInv, LoopTypes, CountInv
<1>1. CASE FinishRun
  <2>1. UNCHANGED <<completed, failures, journal, iteration>> /\ loopAt = "head" /\ loopAt' = "ended"
    BY <1>1 DEF FinishRun, Terminate
  <2> QED
    BY <2>1 DEF CountInv, Working, Rounds
<1>2. ASSUME NEW x \in Executors, Iterate(x)
      PROVE  CountInv'
  <2>1. UNCHANGED <<completed, failures, journal, cursor, todo>> /\ loopAt = "head" /\
        loopAt' \in {"first", "reflect"} /\ iteration' = iteration + 1 /\ cursor <= Len(todo)
    BY <1>2 DEF Iterate
  <2>2. iteration \in Nat
    BY DEF LoopTypeOK
  <2> QED
    BY <2>1, <2>2 DEF CountInv, Working, Rounds
<1>3. CASE Reflection
  <2>1. /\ cursor \in 1 .. Len(todo) /\ todo[cursor].id \in Ids /\ RepairId \in Ids /\ RepairId \in Nat
        /\ RepairId = TaskCount + Rounds + 1 /\ Rounds' = Rounds + 1 /\ Rounds \in Nat
        /\ last' = [last EXCEPT ![todo[cursor].id] = answer]
        /\ \/ answer = "ok" /\ Succeeded
           \/ answer = "fatal" /\ Aborted
           \/ answer \notin {"ok", "fatal"} /\ Replan /\ QueueGrows(todo[cursor].id, RepairId)
    BY <1>3, ReflectionCases
  <2>2. Len(journal') = Len(journal) + 1
    <3>1. \E e \in {"CONTINUE", "SUCCESS", "ABORT", "REPLAN"} : journal' = Append(journal, e)
      BY <2>1 DEF Succeeded, Aborted, Replan, Record
    <3> QED
      BY <3>1
  <2>3. completed' + failures' = completed + failures + 1
    <3>1. \/ completed' = completed + 1 /\ failures' = failures
          \/ completed' = completed /\ failures' = failures + 1
      BY <2>1 DEF Succeeded, Aborted, Replan
    <3>2. completed \in Nat /\ failures \in Nat
      OBVIOUS
    <3> QED
      BY <3>1, <3>2
  <2>4. ~Working'
    BY <2>1 DEF Succeeded, Aborted, Replan, Terminate, Working
  <2> QED
    BY <2>1, <2>2, <2>3, <2>4 DEF CountInv
<1>4. CASE DispatchStep
  <2>1. UNCHANGED <<cursor, todo, iteration, completed, failures, reason, journal, last, Rounds>> /\
        Working /\ Working'
    BY <1>4, DispatchKeepsQueue DEF queueVars
  <2> QED
    BY <2>1 DEF CountInv
<1>5. CASE UNCHANGED loopVars
  BY <1>5 DEF loopVars, LoopTypeOK, Rounds, Working
<1> QED
  BY <1>1, <1>2, <1>3, <1>4, <1>5
     DEF LoopNext, DispatchStep

\* A repair gets an id nothing had before; the retry keeps the id of its task,
\* which the cursor has passed.
LEMMA IdsKept ==
    ASSUME LoopInv, [LoopNext]_loopVars
    PROVE  IdsInv'
<1> USE AgentLoopAssumption DEF LoopInv, LoopTypes
<1>1. CASE FinishRun
  <2>1. UNCHANGED <<cursor, todo, last, iteration>> /\ loopAt = "head" /\ loopAt' = "ended"
    BY <1>1 DEF FinishRun, Terminate
  <2>2. Rounds' = Rounds
    BY <2>1 DEF Working, Rounds
  <2> QED
    BY <2>1, <2>2 DEF IdsInv
<1>2. ASSUME NEW x \in Executors, Iterate(x)
      PROVE  IdsInv'
  <2>1. /\ UNCHANGED <<cursor, todo, last, reason>> /\ loopAt = "head" /\
           loopAt' \in {"first", "reflect"}
        /\ iteration' = iteration + 1 /\ cursor <= Len(todo)
    BY <1>2 DEF Iterate
  <2>2. Rounds' = Rounds /\ Rounds = iteration
    <3>1. iteration \in Nat
      BY DEF LoopTypeOK
    <3> QED
      BY <2>1, <3>1 DEF Working, Rounds
  <2> QED
    BY <2>1, <2>2 DEF IdsInv
<1>3. CASE Reflection
  <2>1. /\ cursor \in 1 .. Len(todo) /\ todo[cursor].id \in Ids /\ RepairId \in Ids /\ RepairId \in Nat
        /\ RepairId = TaskCount + Rounds + 1 /\ Rounds' = Rounds + 1 /\ Rounds \in Nat
        /\ last' = [last EXCEPT ![todo[cursor].id] = answer]
        /\ \/ answer = "ok" /\ Succeeded
           \/ answer = "fatal" /\ Aborted
           \/ answer \notin {"ok", "fatal"} /\ Replan /\ QueueGrows(todo[cursor].id, RepairId)
    BY <1>3, ReflectionCases
  <2> DEFINE x == todo[cursor].id
  <2>2. /\ last' \in [Ids -> Errors \cup {"ok", "fatal", "exhausted", "unregistered", "none"}]
        /\ last'[x] = answer /\ \A i \in Ids \ {x} : last'[i] = last[i]
    BY <2>1 DEF LoopTypeOK
  <2>3. /\ Len(todo) \in Nat /\ cursor \in Nat /\ cursor >= 1 /\ cursor <= Len(todo) /\
           TaskCount \in Nat
        /\ \A j \in 1 .. Len(todo) : todo[j].id \in Ids /\ todo[j].after \in Ids \cup {0}
    <3>1. \A j \in 1 .. Len(todo) : todo[j] \in QueueEntries
      OBVIOUS
    <3> QED
      BY <2>1, <3>1 DEF QueueEntries
  <2>4. /\ x <= TaskCount + Rounds /\ x # RepairId
        /\ \A j \in 1 .. Len(todo) : todo[j].id # RepairId
        /\ \A j \in cursor .. Len(todo) : j # cursor => todo[j].id # x
        /\ last[RepairId] = "none" /\ x \in Ids /\ x \in Int
    <3>1. \A j \in 1 .. Len(todo) : todo[j].id <= TaskCount + Rounds /\ todo[j].id # RepairId
      BY <2>1, <2>3 DEF IdsInv, Ids
    <3>2. \A j \in cursor .. Len(todo) : todo[j].id = todo[cursor].id => j = cursor
      BY <2>1, <2>3 DEF IdsInv
    <3>3. last[RepairId] = "none"
      BY <2>1, <2>3 DEF IdsInv
    <3> QED
      BY <2>1, <2>3, <3>1, <3>2, <3>3 DEF Ids
  <2> HIDE DEF x
  <2>5. CASE answer = "ok" /\ Succeeded
    <3>1. UNCHANGED todo /\ cursor' = cursor + 1 /\ loopAt' = "head"
      BY <2>5 DEF Succeeded
    <3>2. \A j \in cursor' .. Len(todo') : j \in cursor .. Len(todo) /\ todo[j].id # x /\
          todo[j].id \in Ids
      BY <2>3, <2>4, <3>1
    <3>3. \A j \in cursor' .. Len(todo') : last'[todo'[j].id] # "ok"
      BY <2>2, <3>1, <3>2 DEF IdsInv
    <3>4. \A i \in Ids : i > TaskCount + Rounds' => last'[i] = "none"
      BY <2>1, <2>2, <2>3, <2>4 DEF IdsInv, Ids
    <3>5. \A j \in 1 .. Len(todo') : todo'[j].id <= TaskCount + Rounds'
      BY <2>1, <2>3, <3>1 DEF IdsInv, Ids
    <3> QED
      BY <3>1, <3>2, <3>3, <3>4, <3>5 DEF IdsInv
  <2>6. CASE answer = "fatal" /\ Aborted
    <3>1. UNCHANGED <<todo, cursor>> /\ loopAt' = "ended"
      BY <2>6 DEF Aborted, Terminate
    <3>2. \A j \in cursor' .. Len(todo') : last'[todo'[j].id] # "ok"
      <4>1. ASSUME NEW j \in cursor .. Len(todo) PROVE last'[todo[j].id] # "ok"
        <5>1. todo[j].id \in Ids /\ last[todo[j].id] # "ok"
          BY <2>3 DEF IdsInv
        <5> QED
          BY <2>2, <2>6, <5>1
      <4> QED
        BY <3>1, <4>1
    <3>4. \A i \in Ids : i > TaskCount + Rounds' => last'[i] = "none"
      BY <2>1, <2>2, <2>3, <2>4 DEF IdsInv, Ids
    <3>5. \A j \in 1 .. Len(todo') : todo'[j].id <= TaskCount + Rounds'
      BY <2>1, <2>3, <3>1 DEF IdsInv, Ids
    <3> QED
      BY <3>1, <3>2, <3>4, <3>5 DEF IdsInv
  <2>7. CASE answer \notin {"ok", "fatal"} /\ Replan /\ QueueGrows(todo[cursor].id, RepairId)
    <3>1. /\ Len(todo') = Len(todo) + 2 /\ \A i \in 1 .. cursor : todo'[i] = todo[i]
          /\ todo'[cursor + 1] = [id |-> RepairId, after |-> 0] /\
             todo'[cursor + 2] = [id |-> x, after |-> RepairId]
          /\ \A i \in cursor + 3 .. Len(todo) + 2 : todo'[i] = todo[i - 2]
      BY <2>7 DEF QueueGrows, x
    <3>2. cursor' = cursor + 1 /\ loopAt' = "head"
      BY <2>7 DEF Replan
    <3>3. /\ \A j \in cursor' .. Len(todo') : j = cursor + 1 \/ j = cursor + 2 \/
             j \in cursor + 3 .. Len(todo) + 2
          /\ \A j \in cursor + 3 .. Len(todo) + 2 : j - 2 \in cursor + 1 .. Len(todo) /\
             j - 2 \in 1 .. Len(todo) /\ j - 2 \in cursor .. Len(todo) /\ j - 2 # cursor
      BY <2>3, <3>1, <3>2
    <3>4. /\ todo'[cursor + 1].id = RepairId /\ todo'[cursor + 1].after = 0
          /\ todo'[cursor + 2].id = x /\ todo'[cursor + 2].after = RepairId
      BY <3>1
    <3>5. \A j \in 1 .. Len(todo') : todo'[j].id <= TaskCount + Rounds'
      <4>1. ASSUME NEW j \in 1 .. Len(todo') PROVE todo'[j].id <= TaskCount + Rounds'
        <5>1. CASE j \in 1 .. cursor
          <6>0. j \in 1 .. Len(todo)
            BY <2>3, <5>1
          <6>1. j \in 1 .. Len(todo) /\ todo'[j] = todo[j]
            BY <3>1, <5>1, <6>0
          <6>2. todo[j].id <= TaskCount + Rounds /\ todo[j].id \in Int
            BY <2>3, <6>1 DEF IdsInv, Ids
          <6> QED
            BY <2>1, <2>3, <6>1, <6>2
        <5>2. CASE j = cursor + 1 \/ j = cursor + 2
          BY <2>1, <2>3, <2>4, <3>4, <5>2
        <5>3. CASE j \in cursor + 3 .. Len(todo) + 2
          <6>1. todo[j - 2].id <= TaskCount + Rounds /\ todo[j - 2].id \in Int
            BY <2>3, <3>3, <5>3 DEF IdsInv, Ids
          <6> QED
            BY <2>1, <2>3, <3>1, <5>3, <6>1
        <5> QED
          BY <2>3, <3>1, <5>1, <5>2, <5>3
      <4> QED
        BY <4>1
    <3>6. \A j, k \in cursor' .. Len(todo') : todo'[j].id = todo'[k].id => j = k
      <4>1. \A j \in cursor + 3 .. Len(todo) + 2 : todo'[j].id # RepairId /\ todo'[j].id # x
        BY <2>4, <3>1, <3>3
      <4>2. \A j, k \in cursor + 3 .. Len(todo) + 2 : todo'[j].id = todo'[k].id => j = k
        <5>1. ASSUME NEW j \in cursor + 3 .. Len(todo) + 2, NEW k \in cursor + 3 .. Len(todo) + 2,
                     todo'[j].id = todo'[k].id
              PROVE  j = k
          <6>1. todo[j - 2].id = todo[k - 2].id /\ j - 2 \in cursor .. Len(todo) /\
                k - 2 \in cursor .. Len(todo)
            BY <3>1, <3>3, <5>1
          <6>2. j - 2 = k - 2
            BY <6>1 DEF IdsInv
          <6> QED
            BY <2>3, <6>2
        <5> QED
          BY <5>1
      <4> QED
        BY <2>4, <3>3, <3>4, <4>1, <4>2
    <3>7. \A j \in cursor' .. Len(todo') : last'[todo'[j].id] # "ok"
      <4>1. last'[RepairId] = "none" /\ last'[x] # "ok"
        BY <2>1, <2>2, <2>4, <2>7
      <4>2. ASSUME NEW j \in cursor + 3 .. Len(todo) + 2 PROVE last'[todo'[j].id] # "ok"
        <5>1. todo'[j].id \in Ids /\ todo'[j].id # x /\ last[todo'[j].id] # "ok"
          <6>1. todo'[j] = todo[j - 2] /\ j - 2 \in cursor .. Len(todo) /\
                j - 2 \in 1 .. Len(todo) /\ j - 2 # cursor
            BY <3>1, <3>3
          <6>2. todo[j - 2].id \in Ids /\ todo[j - 2].id # x /\ last[todo[j - 2].id] # "ok"
            BY <2>3, <2>4, <6>1 DEF IdsInv
          <6> QED
            BY <6>1, <6>2
        <5> QED
          BY <2>2, <5>1
      <4> QED
        BY <3>3, <3>4, <4>1, <4>2
    <3>8. \A i \in Ids : i > TaskCount + Rounds' => last'[i] = "none"
      BY <2>1, <2>2, <2>3, <2>4 DEF IdsInv, Ids
    <3> QED
      BY <3>5, <3>6, <3>7, <3>8 DEF IdsInv
  <2> QED
    BY <2>1, <2>5, <2>6, <2>7
<1>4. CASE DispatchStep
  <2>1. UNCHANGED <<cursor, todo, iteration, completed, failures, reason, journal, last, Rounds>> /\
        Working /\ Working'
    BY <1>4, DispatchKeepsQueue DEF queueVars
  <2> QED
    BY <2>1 DEF IdsInv
<1>5. CASE UNCHANGED loopVars
  <2>1. UNCHANGED <<todo, cursor, last, Rounds>>
    BY <1>5 DEF loopVars, Rounds, Working
  <2> QED
    BY <2>1 DEF IdsInv
<1> QED
  BY <1>1, <1>2, <1>3, <1>4, <1>5
     DEF LoopNext, DispatchStep

\* A repair is put in the queue right before its retry.
LEMMA RepairKept ==
    ASSUME LoopInv, [LoopNext]_loopVars
    PROVE  RepairInv'
<1> USE AgentLoopAssumption DEF LoopInv, LoopTypes
<1>1. CASE FinishRun
  <2>1. UNCHANGED <<cursor, todo, last, iteration>> /\ loopAt = "head" /\ loopAt' = "ended"
    BY <1>1 DEF FinishRun, Terminate
  <2>2. Rounds' = Rounds
    BY <2>1 DEF Working, Rounds
  <2> QED
    BY <2>1, <2>2 DEF RepairInv
<1>2. ASSUME NEW x \in Executors, Iterate(x)
      PROVE  RepairInv'
  <2>1. /\ UNCHANGED <<cursor, todo, last, reason>> /\ loopAt = "head" /\
           loopAt' \in {"first", "reflect"}
        /\ iteration' = iteration + 1 /\ cursor <= Len(todo)
    BY <1>2 DEF Iterate
  <2>2. Rounds' = Rounds /\ Rounds = iteration
    <3>1. iteration \in Nat
      BY DEF LoopTypeOK
    <3> QED
      BY <2>1, <3>1 DEF Working, Rounds
  <2> QED
    BY <2>1, <2>2 DEF RepairInv
<1>3. CASE Reflection
  <2>1. /\ cursor \in 1 .. Len(todo) /\ todo[cursor].id \in Ids /\ RepairId \in Ids /\ RepairId \in Nat
        /\ RepairId = TaskCount + Rounds + 1 /\ Rounds' = Rounds + 1 /\ Rounds \in Nat
        /\ last' = [last EXCEPT ![todo[cursor].id] = answer]
        /\ \/ answer = "ok" /\ Succeeded
           \/ answer = "fatal" /\ Aborted
           \/ answer \notin {"ok", "fatal"} /\ Replan /\ QueueGrows(todo[cursor].id, RepairId)
    BY <1>3, ReflectionCases
  <2> DEFINE x == todo[cursor].id
  <2>2. /\ last' \in [Ids -> Errors \cup {"ok", "fatal", "exhausted", "unregistered", "none"}]
        /\ last'[x] = answer /\ \A i \in Ids \ {x} : last'[i] = last[i]
    BY <2>1 DEF LoopTypeOK
  <2>3. /\ Len(todo) \in Nat /\ cursor \in Nat /\ cursor >= 1 /\ cursor <= Len(todo) /\
           TaskCount \in Nat
        /\ \A j \in 1 .. Len(todo) : todo[j].id \in Ids /\ todo[j].after \in Ids \cup {0}
    <3>1. \A j \in 1 .. Len(todo) : todo[j] \in QueueEntries
      OBVIOUS
    <3> QED
      BY <2>1, <3>1 DEF QueueEntries
  <2>4. /\ x <= TaskCount + Rounds /\ x # RepairId
        /\ \A j \in 1 .. Len(todo) : todo[j].id # RepairId
        /\ \A j \in cursor .. Len(todo) : j # cursor => todo[j].id # x
        /\ last[RepairId] = "none" /\ x \in Ids /\ x \in Int
    <3>1. \A j \in 1 .. Len(todo) : todo[j].id <= TaskCount + Rounds /\ todo[j].id # RepairId
      BY <2>1, <2>3 DEF IdsInv, Ids
    <3>2. \A j \in cursor .. Len(todo) : todo[j].id = todo[cursor].id => j = cursor
      BY <2>1, <2>3 DEF IdsInv
    <3>3. last[RepairId] = "none"
      BY <2>1, <2>3 DEF IdsInv
    <3> QED
      BY <2>1, <2>3, <3>1, <3>2, <3>3 DEF Ids
  <2> HIDE DEF x
  <2>5. CASE answer = "ok" /\ Succeeded
    <3>1. UNCHANGED todo /\ cursor' = cursor + 1 /\ loopAt' = "head"
      BY <2>5 DEF Succeeded
    <3>8. \A i \in Ids : last[i] = "ok" => last'[i] = "ok"
      <4>1. last[x] # "ok"
        BY <2>3 DEF IdsInv, x
      <4> QED
        BY <2>2, <4>1
    <3>2. ASSUME NEW j \in cursor' .. Len(todo'), todo'[j].after # 0
          PROVE  last'[todo'[j].after] = "ok" \/
                 \E k \in cursor' .. j - 1 : todo'[k].id = todo'[j].after
      <4>1. j \in cursor .. Len(todo) /\ todo[j].after \in Ids /\ todo[j].after # 0
        BY <2>3, <3>1, <3>2
      <4>2. CASE last[todo[j].after] = "ok"
        BY <3>1, <3>8, <4>1, <4>2
      <4>3. ASSUME NEW k \in cursor .. j - 1, todo[k].id = todo[j].after
            PROVE  last'[todo'[j].after] = "ok" \/
                   \E l \in cursor' .. j - 1 : todo'[l].id = todo'[j].after
        <5>1. CASE k = cursor
          BY <2>2, <2>5, <3>1, <4>3, <5>1 DEF x
        <5>2. CASE k # cursor
          <6>1. k \in cursor' .. j - 1
            BY <2>3, <3>1, <5>2
          <6> QED
            BY <3>1, <4>3, <6>1
        <5> QED
          BY <5>1, <5>2
      <4> QED
        BY <4>1, <4>2, <4>3 DEF RepairInv
    <3> QED
      BY <3>2 DEF RepairInv
  <2>6. CASE answer = "fatal" /\ Aborted
    <3>1. UNCHANGED <<todo, cursor>> /\ loopAt' = "ended"
      BY <2>6 DEF Aborted, Terminate
    <3>8. \A i \in Ids : last[i] = "ok" => last'[i] = "ok"
      <4>1. last[x] # "ok"
        BY <2>3 DEF IdsInv, x
      <4> QED
        BY <2>2, <4>1
    <3>2. ASSUME NEW j \in cursor .. Len(todo), todo[j].after # 0
          PROVE  last'[todo[j].after] = "ok" \/ \E k \in cursor .. j - 1 : todo[k].id = todo[j].after
      <4>1. todo[j].after \in Ids
        BY <2>3, <3>2
      <4> QED
        BY <3>2, <3>8, <4>1 DEF RepairInv
    <3> QED
      BY <3>1, <3>2 DEF RepairInv
  <2>7. CASE answer \notin {"ok", "fatal"} /\ Replan /\ QueueGrows(todo[cursor].id, RepairId)
    <3>1. /\ Len(todo') = Len(todo) + 2 /\ \A i \in 1 .. cursor : todo'[i] = todo[i]
          /\ todo'[cursor + 1] = [id |-> RepairId, after |-> 0] /\
             todo'[cursor + 2] = [id |-> x, after |-> RepairId]
          /\ \A i \in cursor + 3 .. Len(todo) + 2 : todo'[i] = todo[i - 2]
      BY <2>7 DEF QueueGrows, x
    <3>2. cursor' = cursor + 1 /\ loopAt' = "head"
      BY <2>7 DEF Replan
    <3>3. /\ \A j \in cursor' .. Len(todo') : j = cursor + 1 \/ j = cursor + 2 \/
             j \in cursor + 3 .. Len(todo) + 2
          /\ \A j \in cursor + 3 .. Len(todo) + 2 : j - 2 \in cursor + 1 .. Len(todo) /\
             j - 2 \in 1 .. Len(todo) /\ j - 2 \in cursor .. Len(todo) /\ j - 2 # cursor
      BY <2>3, <3>1, <3>2
    <3>4. /\ todo'[cursor + 1].id = RepairId /\ todo'[cursor + 1].after = 0
          /\ todo'[cursor + 2].id = x /\ todo'[cursor + 2].after = RepairId
      BY <3>1
    <3>8. \A i \in Ids : last[i] = "ok" => last'[i] = "ok"
      <4>1. last[x] # "ok"
        BY <2>3 DEF IdsInv, x
      <4> QED
        BY <2>2, <4>1
    <3>5. ASSUME NEW j \in cursor' .. Len(todo'), todo'[j].after # 0
          PROVE  last'[todo'[j].after] = "ok" \/
                 \E k \in cursor' .. j - 1 : todo'[k].id = todo'[j].after
      <4>1. CASE j = cursor + 1
        BY <3>4, <3>5, <4>1
      <4>2. CASE j = cursor + 2
        <5>1. cursor + 1 \in cursor' .. j - 1
          BY <2>3, <3>2, <4>2
        <5> QED
          BY <3>4, <4>2, <5>1
      <4>3. CASE j \in cursor + 3 .. Len(todo) + 2
        <5>1. todo'[j] = todo[j - 2] /\ j - 2 \in cursor .. Len(todo) /\ todo[j - 2].after \in Ids /\
              todo[j - 2].after # 0
          BY <2>3, <3>1, <3>3, <3>5, <4>3
        <5>2. CASE last[todo[j - 2].after] = "ok"
          BY <3>8, <5>1, <5>2
        <5>3. ASSUME NEW k \in cursor .. j - 3, todo[k].id = todo[j - 2].after
              PROVE  \E l \in cursor' .. j - 1 : todo'[l].id = todo'[j].after
          <6>1. CASE k = cursor
            <7>1. cursor + 2 \in cursor' .. j - 1 /\ todo'[cursor + 2].id = todo'[j].after
              BY <2>3, <3>2, <3>4, <4>3, <5>1, <5>3, <6>1 DEF x
            <7> QED
              BY <7>1
          <6>2. CASE k # cursor
            <7>1. k + 2 \in cursor' .. j - 1 /\ k + 2 \in cursor + 3 .. Len(todo) + 2 /\ (k + 2) - 2 = k
              BY <2>3, <3>2, <4>3, <6>2
            <7>2. todo'[k + 2] = todo[k]
              BY <3>1, <7>1
            <7> QED
              BY <5>1, <5>3, <7>1, <7>2
          <6> QED
            BY <6>1, <6>2
        <5>4. (j - 2) - 1 = j - 3
          BY <2>3, <4>3
        <5>5. last[todo[j - 2].after] = "ok" \/
              \E k \in cursor .. (j - 2) - 1 : todo[k].id = todo[j - 2].after
          BY <5>1 DEF RepairInv
        <5> QED
          BY <5>2, <5>3, <5>4, <5>5
      <4> QED
        BY <3>3, <4>1, <4>2, <4>3
    <3> QED
      BY <3>5 DEF RepairInv
  <2> QED
    BY <2>1, <2>5, <2>6, <2>7
<1>4. CASE DispatchStep
  <2>1. UNCHANGED <<cursor, todo, iteration, completed, failures, reason, journal, last, Rounds>> /\
        Working /\ Working'
    BY <1>4, DispatchKeepsQueue DEF queueVars
  <2> QED
    BY <2>1 DEF RepairInv
<1>5. CASE UNCHANGED loopVars
  <2>1. UNCHANGED <<todo, cursor, last, Rounds>>
    BY <1>5 DEF loopVars, Rounds, Working
  <2> QED
    BY <2>1 DEF RepairInv
<1> QED
  BY <1>1, <1>2, <1>3, <1>4, <1>5
     DEF LoopNext, DispatchStep

\* A task that failed goes back into the queue, is fatal, or the limit is reached.
LEMMA PendingKept ==
    ASSUME LoopInv, [LoopNext]_loopVars
    PROVE  PendingInv'
<1> USE AgentLoopAssumption DEF LoopInv, LoopTypes
<1>1. CASE FinishRun
  <2>1. UNCHANGED <<cursor, todo, last, iteration>> /\ loopAt = "head" /\ loopAt' = "ended"
    BY <1>1 DEF FinishRun, Terminate
  <2>2. Rounds' = Rounds
    BY <2>1 DEF Working, Rounds
  <2>3. reason' = "ITERATION_LIMIT" \/ cursor > Len(todo)
    BY <1>1 DEF FinishRun, Terminate
  <2> QED
    BY <2>1, <2>3 DEF PendingInv
<1>2. ASSUME NEW x \in Executors, Iterate(x)
      PROVE  PendingInv'
  <2>1. /\ UNCHANGED <<cursor, todo, last, reason>> /\ loopAt = "head" /\
           loopAt' \in {"first", "reflect"}
        /\ iteration' = iteration + 1 /\ cursor <= Len(todo)
    BY <1>2 DEF Iterate
  <2>2. Rounds' = Rounds /\ Rounds = iteration
    <3>1. iteration \in Nat
      BY DEF LoopTypeOK
    <3> QED
      BY <2>1, <3>1 DEF Working, Rounds
  <2> QED
    BY <2>1 DEF PendingInv
<1>3. CASE Reflection
  <2>1. /\ cursor \in 1 .. Len(todo) /\ todo[cursor].id \in Ids /\ RepairId \in Ids /\ RepairId \in Nat
        /\ RepairId = TaskCount + Rounds + 1 /\ Rounds' = Rounds + 1 /\ Rounds \in Nat
        /\ last' = [last EXCEPT ![todo[cursor].id] = answer]
        /\ \/ answer = "ok" /\ Succeeded
           \/ answer = "fatal" /\ Aborted
           \/ answer \notin {"ok", "fatal"} /\ Replan /\ QueueGrows(todo[cursor].id, RepairId)
    BY <1>3, ReflectionCases
  <2> DEFINE x == todo[cursor].id
  <2>2. /\ last' \in [Ids -> Errors \cup {"ok", "fatal", "exhausted", "unregistered", "none"}]
        /\ last'[x] = answer /\ \A i \in Ids \ {x} : last'[i] = last[i]
    BY <2>1 DEF LoopTypeOK
  <2>3. /\ Len(todo) \in Nat /\ cursor \in Nat /\ cursor >= 1 /\ cursor <= Len(todo) /\
           TaskCount \in Nat
        /\ \A j \in 1 .. Len(todo) : todo[j].id \in Ids /\ todo[j].after \in Ids \cup {0}
    <3>1. \A j \in 1 .. Len(todo) : todo[j] \in QueueEntries
      OBVIOUS
    <3> QED
      BY <2>1, <3>1 DEF QueueEntries
  <2>4. /\ x <= TaskCount + Rounds /\ x # RepairId
        /\ \A j \in 1 .. Len(todo) : todo[j].id # RepairId
        /\ \A j \in cursor .. Len(todo) : j # cursor => todo[j].id # x
        /\ last[RepairId] = "none" /\ x \in Ids /\ x \in Int
    <3>1. \A j \in 1 .. Len(todo) : todo[j].id <= TaskCount + Rounds /\ todo[j].id # RepairId
      BY <2>1, <2>3 DEF IdsInv, Ids
    <3>2. \A j \in cursor .. Len(todo) : todo[j].id = todo[cursor].id => j = cursor
      BY <2>1, <2>3 DEF IdsInv
    <3>3. last[RepairId] = "none"
      BY <2>1, <2>3 DEF IdsInv
    <3> QED
      BY <2>1, <2>3, <3>1, <3>2, <3>3 DEF Ids
  <2> HIDE DEF x
  <2>5. CASE answer = "ok" /\ Succeeded
    <3>1. UNCHANGED todo /\ cursor' = cursor + 1 /\ loopAt' = "head"
      BY <2>5 DEF Succeeded
    <3>8. \A i \in Ids : last[i] = "ok" => last'[i] = "ok"
      <4>1. last[x] # "ok"
        BY <2>3 DEF IdsInv, x
      <4> QED
        BY <2>2, <4>1
    <3>2. ASSUME NEW i \in 1 .. TaskCount PROVE last'[i] = "ok" \/
                 \E j \in cursor' .. Len(todo') : todo'[j].id = i
      <4>0. i \in Ids
        BY <2>3, AgentLoopAssumption DEF Ids
      <4>1. CASE last[i] = "ok"
        BY <3>8, <4>0, <4>1
      <4>2. ASSUME NEW j \in cursor .. Len(todo), todo[j].id = i PROVE last'[i] = "ok" \/
                   \E k \in cursor' .. Len(todo') : todo'[k].id = i
        <5>1. CASE j = cursor
          BY <2>2, <2>5, <4>2, <5>1 DEF x
        <5>2. CASE j # cursor
          <6>1. j \in cursor' .. Len(todo')
            BY <2>3, <3>1, <5>2
          <6> QED
            BY <3>1, <4>2, <6>1
        <5> QED
          BY <5>1, <5>2
      <4> QED
        BY <4>1, <4>2 DEF PendingInv
    <3> QED
      BY <3>1, <3>2 DEF PendingInv
  <2>6. CASE answer = "fatal" /\ Aborted
    <3>1. UNCHANGED <<todo, cursor>> /\ loopAt' = "ended"
      BY <2>6 DEF Aborted, Terminate
    <3>8. \A i \in Ids : last[i] = "ok" => last'[i] = "ok"
      <4>1. last[x] # "ok"
        BY <2>3 DEF IdsInv, x
      <4> QED
        BY <2>2, <4>1
    <3>2. \A i \in 1 .. TaskCount : i \in Ids
      BY <2>3, AgentLoopAssumption DEF Ids
    <3>3. last'[todo[cursor].id] = "fatal"
      BY <2>2, <2>6 DEF x
    <3> QED
      BY <2>3, <3>1, <3>2, <3>3, <3>8 DEF PendingInv
  <2>7. CASE answer \notin {"ok", "fatal"} /\ Replan /\ QueueGrows(todo[cursor].id, RepairId)
    <3>1. /\ Len(todo') = Len(todo) + 2 /\ \A i \in 1 .. cursor : todo'[i] = todo[i]
          /\ todo'[cursor + 1] = [id |-> RepairId, after |-> 0] /\
             todo'[cursor + 2] = [id |-> x, after |-> RepairId]
          /\ \A i \in cursor + 3 .. Len(todo) + 2 : todo'[i] = todo[i - 2]
      BY <2>7 DEF QueueGrows, x
    <3>2. cursor' = cursor + 1 /\ loopAt' = "head"
      BY <2>7 DEF Replan
    <3>3. /\ \A j \in cursor' .. Len(todo') : j = cursor + 1 \/ j = cursor + 2 \/
             j \in cursor + 3 .. Len(todo) + 2
          /\ \A j \in cursor + 3 .. Len(todo) + 2 : j - 2 \in cursor + 1 .. Len(todo) /\
             j - 2 \in 1 .. Len(todo) /\ j - 2 \in cursor .. Len(todo) /\ j - 2 # cursor
      BY <2>3, <3>1, <3>2
    <3>4. /\ todo'[cursor + 1].id = RepairId /\ todo'[cursor + 1].after = 0
          /\ todo'[cursor + 2].id = x /\ todo'[cursor + 2].after = RepairId
      BY <3>1
    <3>8. \A i \in Ids : last[i] = "ok" => last'[i] = "ok"
      <4>1. last[x] # "ok"
        BY <2>3 DEF IdsInv, x
      <4> QED
        BY <2>2, <4>1
    <3>5. ASSUME NEW i \in 1 .. TaskCount PROVE last'[i] = "ok" \/
                 \E j \in cursor' .. Len(todo') : todo'[j].id = i
      <4>0. i \in Ids
        BY <2>3, AgentLoopAssumption DEF Ids
      <4>1. CASE last[i] = "ok"
        BY <3>8, <4>0, <4>1
      <4>2. ASSUME NEW j \in cursor .. Len(todo),
                   todo[j].id = i PROVE \E k \in cursor' .. Len(todo') : todo'[k].id = i
        <5>1. CASE j = cursor
          <6>1. cursor + 2 \in cursor' .. Len(todo') /\ todo'[cursor + 2].id = i
            BY <2>3, <3>1, <3>2, <3>4, <4>2, <5>1 DEF x
          <6> QED
            BY <6>1
        <5>2. CASE j # cursor
          <6>1. j + 2 \in cursor' .. Len(todo') /\ j + 2 \in cursor + 3 .. Len(todo) + 2 /\
                (j + 2) - 2 = j
            BY <2>3, <3>1, <3>2, <5>2
          <6>2. todo'[j + 2] = todo[j]
            BY <3>1, <6>1
          <6> QED
            BY <4>2, <6>1, <6>2
        <5> QED
          BY <5>1, <5>2
      <4> QED
        BY <4>1, <4>2 DEF PendingInv
    <3> QED
      BY <3>2, <3>5 DEF PendingInv
  <2> QED
    BY <2>1, <2>5, <2>6, <2>7
<1>4. CASE DispatchStep
  <2>1. UNCHANGED <<cursor, todo, iteration, completed, failures, reason, journal, last, Rounds>> /\
        Working /\ Working'
    BY <1>4, DispatchKeepsQueue DEF queueVars
  <2> QED
    BY <2>1 DEF PendingInv, Working
<1>5. CASE UNCHANGED loopVars
  <2>1. UNCHANGED <<todo, cursor, last, loopAt, reason, Rounds>>
    BY <1>5 DEF loopVars, Rounds, Working
  <2> QED
    BY <2>1 DEF PendingInv
<1> QED
  BY <1>1, <1>2, <1>3, <1>4, <1>5
     DEF LoopNext, DispatchStep

\* A strategy is used up for a call.
LEMMA NextCalls ==
    ASSUME NEW left \in Seq(Executors), NEW r, tried \in Seq(Executors), NextStrategy(left, r)
    PROVE  /\ tried' \in Seq(Executors) /\ strategies' \in Seq(Executors)
           /\ Len(tried') \in Nat /\ Len(strategies') \in Nat /\ Len(tried) \in Nat
           /\ \/ loopAt' = "reflect" /\ Len(strategies') = 0 /\ child' = "none" /\
                 UNCHANGED <<tried, calls>>
              \/ /\ loopAt' = "repair" /\ Len(strategies') < Len(left)
                 /\ Len(tried') = Len(tried) + 1 /\ calls' = calls + 1
<1>1. ASSUME NEW n \in DOMAIN left, strategies' = SubSeq(left, n + 1, Len(left)), Call(left[n]),
             loopAt' = "repair"
      PROVE  /\ loopAt' = "repair" /\ strategies' \in Seq(Executors) /\ Len(strategies') < Len(left)
             /\ tried' \in Seq(Executors) /\ Len(tried') = Len(tried) + 1 /\ calls' = calls + 1
  <2>1. n \in 1 .. Len(left) /\ Len(left) \in Nat /\ left[n] \in Executors
    OBVIOUS
  <2>2. strategies' \in Seq(Executors) /\ Len(strategies') = Len(left) - n
    BY <1>1, <2>1
  <2>3. tried' = Append(tried, left[n]) /\ calls' = calls + 1
    BY <1>1 DEF Call
  <2>4. tried' \in Seq(Executors) /\ Len(tried') = Len(tried) + 1
    BY <2>1, <2>3
  <2> QED
    BY <1>1, <2>1, <2>2, <2>3, <2>4
<1>2. CASE loopAt' = "reflect" /\ strategies' = <<>> /\ child' = "none" /\ UNCHANGED <<tried, calls>>
  BY <1>2
<1>3. CASE /\ loopAt' = "repair" /\ strategies' \in Seq(Executors) /\ Len(strategies') < Len(left)
           /\ tried' \in Seq(Executors) /\ Len(tried') = Len(tried) + 1 /\ calls' = calls + 1
  BY <1>3
<1> QED
  BY <1>1, <1>2, <1>3 DEF NextStrategy

\* A dispatch uses up its strategies and tries no fallback twice.
LEMMA DispatchKept ==
    ASSUME LoopInv, [LoopNext]_loopVars
    PROVE  DispatchInv'
<1> USE AgentLoopAssumption DEF LoopInv
<1>1. CASE FinishRun
  <2>1. UNCHANGED <<helper, tried, strategies>> /\ loopAt' = "ended"
    BY <1>1 DEF FinishRun, Terminate
  <2> QED
    BY <2>1 DEF DispatchInv
<1>2. CASE Reflection
  <2>1. UNCHANGED <<helper, tried, strategies>>
    BY <1>2 DEF Reflection
  <2>2. loopAt' \in {"head", "ended"}
    <3>1. Succeeded \/ Aborted \/ Replan
      BY <1>2, ReflectionCases
    <3> QED
      BY <3>1 DEF Succeeded, Aborted, Replan, Terminate
  <2> QED
    BY <2>1, <2>2 DEF DispatchInv
<1>3. CASE PlanRepair
  <2>0. PICK n \in 1 .. MAXREPAIRSTAGES : \E plan \in [1 .. n -> Executors] : NextStrategy(plan,
             "exhausted")
    BY <1>3 DEF PlanRepair
  <2>1. PICK plan \in [1 .. n -> Executors] : NextStrategy(plan, "exhausted")
    BY <2>0
  <2>2. UNCHANGED helper /\ loopAt = "planning"
    BY <1>3 DEF PlanRepair
  <2>3. plan \in Seq(Executors) /\ Len(plan) = n /\ n \in 1 .. 3
    BY DEF MAXREPAIRSTAGES
  <2>4. tried \in Seq(Executors) /\ strategies \in Seq(Executors) /\ helper = "repair" /\ Len(tried) = 1
    BY <2>2 DEF DispatchInv
  <2>5. /\ tried' \in Seq(Executors) /\ strategies' \in Seq(Executors)
        /\ Len(tried') \in Nat /\ Len(strategies') \in Nat
        /\ \/ loopAt' = "reflect" /\ UNCHANGED tried
           \/ loopAt' = "repair" /\ Len(strategies') < Len(plan) /\ Len(tried') = Len(tried) + 1
    BY <2>1, <2>3, <2>4, NextCalls
  <2>6. helper' = "repair" /\ Len(tried') <= 2 /\ (loopAt' = "repair" =>
        Len(tried') + Len(strategies') <= 4) /\ loopAt' \in {"reflect", "repair"}
    <3>1. helper' = "repair" /\ loopAt' \in {"reflect", "repair"}
      BY <2>2, <2>4, <2>5
    <3>2. Len(tried') <= 2
      <4>1. Len(tried) = 1
        BY <2>4
      <4>2. CASE UNCHANGED tried
        <5>1. Len(tried') = Len(tried)
          BY <4>2
        <5>2. Len(tried') = 1
          BY <4>1, <5>1
        <5> QED
          BY <5>2
      <4>3. CASE Len(tried') = Len(tried) + 1
        BY <4>1, <4>3
      <4> QED
        BY <2>5, <4>2, <4>3
    <3>3. loopAt' = "repair" => Len(strategies') <= 2
      BY <2>3, <2>5
    <3> QED
      BY <2>5, <3>1, <3>2, <3>3
  <2> QED
    BY <2>5, <2>6 DEF DispatchInv, MAXREPAIRSTAGES
<1>4. CASE SelectFallback
  <2>1. UNCHANGED <<helper, strategies>> /\ loopAt = "selecting"
    BY <1>4 DEF SelectFallback
  <2>2. helper = "fallback" /\ Len(tried) \in Nat /\ Len(tried) <= 2 /\ tried \in Seq(Executors) /\
        strategies \in Seq(Executors)
        /\ \A i, j \in 1 .. Len(tried) : tried[i] = tried[j] => i = j
    <3>1. helper = "fallback" /\ Len(tried) <= 2 /\ tried \in Seq(Executors) /\
          strategies \in Seq(Executors)
      BY <2>1 DEF DispatchInv, MAXRETRIES
    <3>2. \A i, j \in 1 .. Len(tried) : tried[i] = tried[j] => i = j
      BY <3>1 DEF DispatchInv
    <3>3. Len(tried) \in Nat
      BY <3>1
    <3> QED
      BY <3>1, <3>2, <3>3
  <2>3. CASE loopAt' = "reflect" /\ UNCHANGED tried
    BY <2>1, <2>2, <2>3 DEF DispatchInv, MAXREPAIRSTAGES
  <2>4. ASSUME NEW x \in Executors, ~Contains(tried, x), tried' = Append(tried, x),
               loopAt' = "fallback" \/
                 (loopAt' = IF Len(tried) < MAXRETRIES THEN "selecting" ELSE "reflect")
        PROVE  DispatchInv'
    <3>1. tried' \in Seq(Executors) /\ Len(tried') = Len(tried) + 1 /\
          (\A i \in 1 .. Len(tried) : tried'[i] = tried[i]) /\ tried'[Len(tried) + 1] = x
      BY <2>2, <2>4
    <3>2. \A i \in 1 .. Len(tried) : tried[i] # x
      BY <2>4 DEF Contains
    <3>3. \A i, j \in 1 .. Len(tried') : tried'[i] = tried'[j] => i = j
      <4>1. \A i \in 1 .. Len(tried') : i \in 1 .. Len(tried) \/ i = Len(tried) + 1
        BY <2>2, <3>1
      <4> QED
        BY <2>2, <3>1, <3>2, <4>1
    <3>4. loopAt' \in {"fallback", "selecting", "reflect"} /\ (loopAt' = "selecting" => Len(tried) < 2)
      BY <2>4 DEF MAXRETRIES
    <3> QED
      BY <2>1, <2>2, <3>1, <3>3, <3>4 DEF DispatchInv, MAXREPAIRSTAGES, MAXRETRIES
  <2> QED
    <3>1. PICK x \in Executors \cup {NoExecutor} :
           IF x = NoExecutor \/ Contains(tried, x)
             THEN loopAt' = "reflect" /\ UNCHANGED <<tried, calls, child>>
           ELSE IF x \in Registered
             THEN Call(x) /\ loopAt' = "fallback"
           ELSE /\ tried' = Append(tried, x)
                /\ loopAt' = IF Len(tried) < MAXRETRIES THEN "selecting" ELSE "reflect"
                /\ UNCHANGED <<calls, child>>
      BY <1>4 DEF SelectFallback
    <3> QED
      BY <2>3, <2>4, <3>1 DEF Call
<1>5. CASE ProcessTimesOut
  <2>1. UNCHANGED <<helper, tried, strategies, loopAt>>
    BY <1>5 DEF ProcessTimesOut
  <2> QED
    BY <2>1 DEF DispatchInv
<1>6. ASSUME NEW x \in Executors, Iterate(x)
      PROVE  DispatchInv'
  <2>1. /\ UNCHANGED helper /\ strategies' = <<>>
        /\ \/ loopAt' = "first" /\ tried' = <<x>>
           \/ loopAt' = "reflect" /\ tried' = <<>>
    <3>1. UNCHANGED helper /\ strategies' = <<>>
      BY <1>6 DEF Iterate
    <3>2. CASE x \in Registered
      <4>1. loopAt' = "first" /\ tried' = <<x>>
        BY <1>6, <3>2 DEF Iterate
      <4> QED
        BY <3>1, <4>1
    <3>3. CASE x \notin Registered
      <4>1. loopAt' = "reflect" /\ tried' = <<>>
        BY <1>6, <3>3 DEF Iterate
      <4> QED
        BY <3>1, <4>1
    <3> QED
      BY <3>2, <3>3
  <2>2. helper \in {"repair", "fallback", "plain"}
    BY DEF DispatchInv
  <2>3. tried' \in Seq(Executors) /\ Len(tried') \in 0 .. 1 /\ (loopAt' = "first" => Len(tried') = 1)
    <3>1. <<x>> \in Seq(Executors) /\ Len(<<x>>) = 1 /\ <<>> \in Seq(Executors) /\ Len(<<>>) = 0
      OBVIOUS
    <3>2. CASE tried' = <<x>>
      BY <3>1, <3>2
    <3>3. CASE loopAt' = "reflect" /\ tried' = <<>>
      BY <3>1, <3>3
    <3> QED
      BY <2>1, <3>2, <3>3
  <2>4. strategies' \in Seq(Executors)
    BY <2>1
  <2>5. \A i, j \in 1 .. Len(tried') : i = j
    <3>1. Len(tried') \in Int /\ Len(tried') <= 1
      BY <2>3
    <3>2. \A i \in 1 .. Len(tried') : i = 1
      BY <3>1
    <3> QED
      BY <3>2
  <2>6. loopAt' \in {"first", "reflect"}
    BY <2>1
  <2> QED
    BY <2>1, <2>2, <2>3, <2>4, <2>5, <2>6 DEF DispatchInv, MAXREPAIRSTAGES
<1>7. ASSUME NEW r, InCall /\ CallReturns(r)
      PROVE  DispatchInv'
  <2>1. UNCHANGED helper
    BY <1>7 DEF CallReturns
  <2>2. CASE loopAt = "first"
    <3>1. UNCHANGED <<tried, strategies>> /\ loopAt' \in {"reflect", "planning", "selecting"}
          /\ (loopAt' = "planning" => helper = "repair") /\ (loopAt' = "selecting" =>
             helper \notin {"repair", "plain"})
      BY <1>7, <2>2 DEF CallReturns, FirstReturns
    <3>2. Len(tried) = 1 /\ tried \in Seq(Executors) /\ strategies \in Seq(Executors) /\
          helper \in {"repair", "fallback", "plain"}
      BY <2>2 DEF DispatchInv
    <3>3. helper = "fallback" => \A i, j \in 1 .. Len(tried) : tried[i] = tried[j] => i = j
      BY DEF DispatchInv
    <3> QED
      BY <2>1, <3>1, <3>2, <3>3 DEF DispatchInv, MAXRETRIES, MAXREPAIRSTAGES
  <2>3. CASE loopAt = "repair"
    <3>1. RepairCallReturns(r)
      BY <1>7, <2>3 DEF CallReturns
    <3>2. tried \in Seq(Executors) /\ strategies \in Seq(Executors) /\ helper = "repair" /\
          Len(tried) + Len(strategies) <= 4
      BY <2>3 DEF DispatchInv, MAXREPAIRSTAGES
    <3>3. CASE loopAt' = "reflect" /\ UNCHANGED <<tried, strategies>>
      BY <2>1, <3>2, <3>3 DEF DispatchInv
    <3>4. CASE NextStrategy(strategies, r)
      <4>1. /\ tried' \in Seq(Executors) /\ strategies' \in Seq(Executors)
            /\ Len(tried') \in Nat /\ Len(strategies') \in Nat /\ Len(tried) \in Nat
            /\ \/ loopAt' = "reflect" /\ UNCHANGED tried
               \/ loopAt' = "repair" /\ Len(strategies') < Len(strategies) /\
                  Len(tried') = Len(tried) + 1
        BY <3>2, <3>4, NextCalls
      <4>2. Len(strategies) \in Nat
        BY <3>2
      <4>3. helper' = "repair" /\ Len(tried') <= 4 /\ (loopAt' = "repair" =>
            Len(tried') + Len(strategies') <= 4) /\ loopAt' \in {"reflect", "repair"}
        BY <2>1, <3>2, <4>1, <4>2
      <4> QED
        BY <4>1, <4>3 DEF DispatchInv, MAXREPAIRSTAGES
    <3> QED
      BY <3>1, <3>3, <3>4 DEF RepairCallReturns, Learn
  <2>4. CASE loopAt = "fallback"
    <3>1. UNCHANGED <<tried, strategies>> /\ loopAt' \in {"reflect", "selecting"} /\
          (loopAt' = "selecting" => ~(Len(tried) > 2))
      BY <1>7, <2>4 DEF CallReturns, FallbackReturns, MAXRETRIES
    <3>2. Len(tried) \in Nat
      BY DEF DispatchInv
    <3> QED
      BY <2>1, <2>4, <3>1, <3>2 DEF DispatchInv, MAXRETRIES
  <2> QED
    BY <1>7, <2>2, <2>3, <2>4 DEF InCall
<1>8. CASE CancelRun
  <2>1. UNCHANGED <<helper, tried, strategies>> /\ loopAt' = "cancelled"
    BY <1>8 DEF CancelRun
  <2> QED
    BY <2>1 DEF DispatchInv
<1>9. CASE UNCHANGED loopVars
  <2>1. UNCHANGED <<helper, tried, strategies, loopAt>>
    BY <1>9 DEF loopVars
  <2> QED
    BY <2>1 DEF DispatchInv
<1> QED
  BY <1>1, <1>2, <1>3, <1>4, <1>5, <1>6, <1>7, <1>8, <1>9
     DEF LoopNext, Answers, ProcessExits, Reaped

\* Every call is recorded before the next one, and no process is left behind.
LEMMA CallsKept ==
    ASSUME LoopInv, [LoopNext]_loopVars
    PROVE  CallsInv'
<1> USE AgentLoopAssumption DEF LoopInv, CallsInv
<1>1. CASE FinishRun
  <2>1. UNCHANGED <<helper, child, calls, recorded, patterns, repaired>> /\ loopAt = "head" /\
        loopAt' = "ended"
    BY <1>1 DEF FinishRun, Terminate
  <2> QED
    BY <2>1 DEF InCall, ChildIsReaped
<1>2. CASE Reflection
  <2>1. UNCHANGED <<helper, child, calls, recorded, patterns, repaired>> /\ loopAt = "reflect"
    BY <1>2 DEF Reflection
  <2>2. loopAt' \in {"head", "ended"}
    <3>1. Succeeded \/ Aborted \/ Replan
      BY <1>2, ReflectionCases
    <3> QED
      BY <3>1 DEF Succeeded, Aborted, Replan, Terminate
  <2> QED
    BY <2>1, <2>2 DEF InCall, ChildIsReaped
<1>3. CASE PlanRepair
  <2>0. PICK n \in 1 .. MAXREPAIRSTAGES : \E plan \in [1 .. n -> Executors] : NextStrategy(plan,
             "exhausted")
    BY <1>3 DEF PlanRepair
  <2>1. PICK plan \in [1 .. n -> Executors] : NextStrategy(plan, "exhausted")
    BY <2>0
  <2>2. UNCHANGED <<helper, recorded, patterns, repaired>> /\ loopAt = "planning"
    BY <1>3 DEF PlanRepair
  <2>3. plan \in Seq(Executors) /\ tried \in Seq(Executors)
    BY DEF MAXREPAIRSTAGES, DispatchInv
  <2>4. \/ loopAt' = "reflect" /\ child' = "none" /\ UNCHANGED calls
        \/ loopAt' = "repair" /\ calls' = calls + 1
    BY <2>1, <2>3, NextCalls
  <2> QED
    BY <2>2, <2>4 DEF InCall, ChildIsReaped
<1>4. CASE SelectFallback
  <2>1. UNCHANGED <<helper, recorded, patterns, repaired>> /\ loopAt = "selecting"
        /\ \/ loopAt' \in {"reflect", "selecting"} /\ UNCHANGED <<calls, child>>
           \/ loopAt' = "fallback" /\ calls' = calls + 1
    BY <1>4 DEF SelectFallback, Call
  <2> QED
    BY <2>1 DEF InCall, ChildIsReaped
<1>5. CASE ProcessTimesOut
  <2>1. UNCHANGED <<helper, calls, recorded, patterns, repaired, loopAt>> /\ InCall
    BY <1>5 DEF ProcessTimesOut
  <2> QED
    BY <2>1 DEF InCall, ChildIsReaped
<1>6. ASSUME NEW x \in Executors, Iterate(x)
      PROVE  CallsInv'
  <2>1. UNCHANGED <<helper, recorded, patterns, repaired>> /\ loopAt = "head"
        /\ \/ loopAt' = "first" /\ calls' = calls + 1
           \/ loopAt' = "reflect" /\ UNCHANGED <<calls, child>>
    BY <1>6 DEF Iterate
  <2> QED
    BY <2>1 DEF InCall, ChildIsReaped
<1>7. ASSUME NEW r, InCall /\ CallReturns(r)
      PROVE  CallsInv'
  <2>1. UNCHANGED helper /\ InCall /\ recorded' = IF helper = "plain" THEN recorded ELSE recorded + 1
    BY <1>7 DEF CallReturns, Track
  <2>2. /\ (patterns' = {}) <=> (repaired' = 0)
        /\ repaired' \in Nat
    <3>1. UNCHANGED <<patterns, repaired>> \/ Learn
      BY <1>7 DEF InCall, CallReturns, FirstReturns, RepairCallReturns, FallbackReturns
    <3> QED
      BY <3>1 DEF Learn
  <2>3. \/ loopAt' \in {"reflect", "planning", "selecting"} /\ UNCHANGED calls /\ child' = "none"
        \/ loopAt' = "repair" /\ calls' = calls + 1
    <3>1. CASE loopAt = "first"
      BY <1>7, <3>1 DEF CallReturns, FirstReturns
    <3>2. CASE loopAt = "fallback"
      BY <1>7, <3>2 DEF CallReturns, FallbackReturns
    <3>3. CASE loopAt = "repair"
      <4>1. RepairCallReturns(r) /\ strategies \in Seq(Executors) /\ tried \in Seq(Executors)
        BY <1>7, <3>3 DEF CallReturns, DispatchInv
      <4>2. CASE NextStrategy(strategies, r)
        BY <4>1, <4>2, NextCalls
      <4> QED
        BY <4>1, <4>2 DEF RepairCallReturns
    <3> QED
      BY <1>7, <3>1, <3>2, <3>3 DEF InCall
  <2> QED
    BY <2>1, <2>2, <2>3 DEF InCall, ChildIsReaped
<1>8. CASE CancelRun
  <2>1. UNCHANGED <<helper, child, calls, recorded, patterns, repaired>> /\ InCall /\
        loopAt' = "cancelled"
    BY <1>8 DEF CancelRun
  <2> QED
    BY <2>1 DEF InCall, ChildIsReaped
<1>9. CASE UNCHANGED loopVars
  <2>1. UNCHANGED <<helper, child, calls, recorded, patterns, repaired, loopAt>>
    BY <1>9 DEF loopVars
  <2> QED
    BY <2>1 DEF InCall, ChildIsReaped
<1> QED
  BY <1>1, <1>2, <1>3, <1>4, <1>5, <1>6, <1>7, <1>8, <1>9
     DEF LoopNext, Answers, ProcessExits, Reaped

\* A run that has not begun is in the invariant.
LEMMA LoopStarts == ASSUME LoopInit PROVE LoopInv
<1> USE AgentLoopAssumption DEF LoopInit
<1>1. ~Working /\ Rounds = 0 /\ cursor = 1 /\ Len(todo) = TaskCount
  BY DEF Working, Rounds
<1>2. todo \in Seq(QueueEntries) /\ \A i \in 1 .. TaskCount : todo[i].id = i /\ todo[i].after = 0
  <2>1. \A i \in 1 .. TaskCount : [id |-> i, after |-> 0] \in QueueEntries
    BY DEF QueueEntries, Ids
  <2> QED
    BY <2>1
<1>3. LoopTypeOK
  BY <1>1 DEF LoopTypeOK
<1>4. LoopTypes
  <2>1. last \in [Ids -> Errors \cup {"ok", "fatal", "exhausted", "unregistered", "none"}]
    OBVIOUS
  <2>2. journal \in Seq({"CONTINUE", "SUCCESS", "ABORT", "REPLAN"})
    OBVIOUS
  <2> QED
    BY <1>2, <1>3, <2>1, <2>2 DEF LoopTypes
<1>5. CountInv
  BY <1>1 DEF CountInv
<1>6. IdsInv
  <2>1. \A i \in Ids : last[i] = "none"
    OBVIOUS
  <2>2. \A i \in 1 .. TaskCount : i \in Ids
    BY DEF Ids
  <2> QED
    BY <1>1, <1>2, <2>1, <2>2 DEF IdsInv
<1>7. RepairInv /\ PendingInv
  BY <1>1, <1>2 DEF RepairInv, PendingInv
<1>8. DispatchInv
  BY DEF DispatchInv, MAXREPAIRSTAGES
<1>9. CallsInv
  <2>1. calls = 0 /\ recorded = 0 /\ repaired = 0 /\ patterns = {} /\ loopAt = "head" /\ child = "none"
    OBVIOUS
  <2>2. calls - 0 = 0
    BY <2>1
  <2>3. ChildIsReaped /\ ~InCall /\ loopAt # "cancelled"
    BY <2>1 DEF ChildIsReaped, InCall
  <2>4. helper # "plain" => recorded = calls - (IF InCall \/ loopAt = "cancelled" THEN 1 ELSE 0)
    BY <2>1, <2>2, <2>3
  <2>5. calls \in Nat /\ recorded \in Nat /\ repaired \in Nat
    BY <2>1
  <2>6. (patterns = {}) <=> (repaired = 0)
    BY <2>1
  <2> QED
    BY <2>3, <2>4, <2>5, <2>6 DEF CallsInv
<1> QED
  BY <1>4, <1>5, <1>6, <1>7, <1>8, <1>9 DEF LoopInv

\* Every step keeps it.
LEMMA LoopStepKeeps == ASSUME LoopInv, [LoopNext]_loopVars PROVE LoopInv'
  BY LoopTypesKept, CountKept, IdsKept, RepairKept, PendingKept, DispatchKept, CallsKept DEF LoopInv

\* The invariant is more than what LoopSafe says.
LEMMA LoopIsSafe == ASSUME LoopInv PROVE LoopSafe
<1> USE AgentLoopAssumption DEF LoopInv, LoopTypes, LoopTypeOK
<1>1. Counted
  BY DEF Counted, CountInv, Working, Rounds
<1>2. WorkedOff
  <2>1. ASSUME loopAt = "ended", reason # "ITERATION_LIMIT",
               last[todo[Min({cursor, Len(todo)})].id] # "fatal",
               NEW i \in 1 .. TaskCount
        PROVE  last[i] = "ok"
    <3>1. CASE cursor > Len(todo)
      <4>1. cursor .. Len(todo) = {}
        <5>1. cursor \in Nat /\ Len(todo) \in Nat
          OBVIOUS
        <5> QED
          BY <3>1, <5>1
      <4> QED
        BY <2>1, <4>1 DEF PendingInv
    <3>2. CASE cursor <= Len(todo) /\ last[todo[cursor].id] = "fatal"
      <4>1. Min({cursor, Len(todo)}) = cursor
        <5>1. cursor \in Nat /\ Len(todo) \in Nat
          OBVIOUS
        <5>2. cursor \in {cursor, Len(todo)} /\ \A y \in {cursor, Len(todo)} : cursor <= y
          BY <3>2, <5>1
        <5>3. \A z \in {cursor, Len(todo)} : (\A y \in {cursor, Len(todo)} : z <= y) => z = cursor
          BY <3>2, <5>1
        <5> QED
          BY <5>2, <5>3 DEF Min
      <4> QED
        BY <2>1, <3>2, <4>1
    <3> QED
      BY <2>1, <3>1, <3>2 DEF PendingInv
  <2> QED
    BY <2>1 DEF WorkedOff
<1>3. RetryAfterRepair
  <2>1. ASSUME loopAt \in {"first", "planning", "selecting", "repair", "fallback", "reflect"},
               todo[cursor].after # 0
        PROVE  last[todo[cursor].after] = "ok"
    <3>1. cursor \in cursor .. Len(todo)
      BY <2>1 DEF CountInv, Working
    <3>2. cursor .. cursor - 1 = {}
      <4>1. cursor \in Nat
        OBVIOUS
      <4> QED
        BY <4>1
    <3> QED
      BY <2>1, <3>1, <3>2 DEF RepairInv
  <2> QED
    BY <2>1 DEF RetryAfterRepair
<1>4. DispatchIsBounded
  <2>1. helper = "fallback" => IsInjective(tried)
    <3>1. tried \in Seq(Executors) /\ DOMAIN tried = 1 .. Len(tried)
      BY DEF DispatchInv
    <3> QED
      BY <3>1 DEF DispatchInv, IsInjective
  <2> QED
    BY <2>1 DEF DispatchIsBounded, DispatchInv
<1>5. TrackerIsExact /\ ChildIsReaped
  BY DEF TrackerIsExact, CallsInv
<1> QED
  BY <1>1, <1>2, <1>3, <1>4, <1>5 DEF LoopSafe

-----------------------------------------------------------------------------
(* The providers.                                                          *)

\* Clients and models, with the budget and the health they share.
ProviderSpec == ProviderInit /\ [][ProviderNext]_providerVars

\* The points of a request at which it holds a slot.
Holding == {"starting", "calling", "completing", "backoff"}

\* Where a client can be.
Stages == Holding \cup {"idle", "choosing", "ended", "streaming"}

\* The types, as far as the model's type invariant leaves them open.
ProviderTypes ==
    /\ ProviderTypeOK
    /\ slots \in [Models -> Nat] /\ leaked \in [Models -> Nat]
    /\ request \in [Clients -> Stages]
    /\ candidates \in [Clients -> Seq(Models)] /\ thrifty \in [Clients -> BOOLEAN]
    /\ sends \in [Clients -> Nat] /\ probed \in Models \cup {NoModel} /\ overBudget \in BOOLEAN
    /\ items \in Seq({"chunk", "error", "end"}) /\ gone \in 0 .. StreamLength + 1 /\ received \in Nat

\* A request holds a provider from its slot to giving it back; direct calls need none.
HoldsOk(c) ==
    /\ c \in Direct => request[c] \notin {"choosing", "starting", "completing", "backoff"}
    /\ c \in Requests => request[c] # "streaming" /\ (serving[c] # NoModel <=> request[c] \in Holding)

\* It was sent once more than it was retried at most.
SendsOk(c) ==
    /\ retries[c] <= MaxSends
    /\ sends[c] <= retries[c] + (IF request[c] \in {"calling", "completing", "backoff"} THEN 1 ELSE 0)
    /\ request[c] \in {"idle", "ended", "streaming"} => sends[c] = 0 /\ retries[c] = 0

\* With the budget used up its candidates are local.
BudgetOk(c) ==
    c \in Requests /\ thrifty[c] =>
        /\ \A i \in 1 .. Len(candidates[c]) : candidates[c][i] = LocalModel
        /\ serving[c] \in {NoModel, LocalModel}

\* A direct call goes to the hosted model.
DirectOk(c) == c \in Direct /\ request[c] = "calling" => serving[c] = HostedModel

\* ... for every client.
ClientsInv == \A c \in Clients : HoldsOk(c) /\ DirectOk(c) /\ SendsOk(c) /\ BudgetOk(c)

\* A stream is chunks, then its end, perhaps with an error before it.
StreamInv ==
    /\ gone <= StreamLength => received + Len(items) = gone /\
       \A i \in 1 .. Len(items) : items[i] = "chunk"
    /\ gone = StreamLength + 1 =>
          \/ /\ Len(items) > 0 /\ items[Len(items)] = "end" /\ received + Len(items) = StreamLength + 1
             /\ \A i \in 1 .. Len(items) - 1 : items[i] = "chunk"
          \/ /\ Len(items) > 1 /\ items[Len(items)] = "end" /\ items[Len(items) - 1] = "error"
             /\ received + Len(items) < StreamLength + 2
             /\ \A i \in 1 .. Len(items) - 2 : items[i] = "chunk"

\* The inductive invariant. That the slots are exact needs where each request
\* stands, and that a request is sent MaxSends times at most, its retries.
ProviderInv == ProviderTypes /\ ClientsInv /\ SlotsAreExact /\ HealthMatchesStrikes /\ StreamInv

\* The lesser and the greater of two.
LEMMA LeastOfTwo ==
    ASSUME NEW a \in Int, NEW b \in Int
    PROVE  Min({a, b}) = IF a <= b THEN a ELSE b
<1>1. CASE a <= b
  <2>1. \A z \in {a, b} : (\A y \in {a, b} : z <= y) <=> z = a
    BY <1>1
  <2> QED
    BY <1>1, <2>1 DEF Min
<1>2. CASE b < a
  <2>1. \A z \in {a, b} : (\A y \in {a, b} : z <= y) <=> z = b
    BY <1>2
  <2>2. ~(a <= b)
    BY <1>2
  <2> QED
    BY <2>1, <2>2 DEF Min
<1> QED
  BY <1>1, <1>2

\* ... and of the greater.
LEMMA GreatestOfTwo ==
    ASSUME NEW a \in Int, NEW b \in Int
    PROVE  Max({a, b}) = IF a >= b THEN a ELSE b
<1>1. CASE a >= b
  <2>1. \A z \in {a, b} : (\A y \in {a, b} : z >= y) <=> z = a
    BY <1>1
  <2> QED
    BY <1>1, <2>1 DEF Max
<1>2. CASE b > a
  <2>1. \A z \in {a, b} : (\A y \in {a, b} : z >= y) <=> z = b
    BY <1>2
  <2>2. ~(a >= b)
    BY <1>2
  <2> QED
    BY <2>1, <2>2 DEF Max
<1> QED
  BY <1>1, <1>2

\* There are two models.
LEMMA TwoModels ==
    /\ Models = {HostedModel, LocalModel} /\ NoModel \notin Models
    /\ Ranking \in Seq(Models) /\ LocalRanking \in Seq(Models)
    /\ Len(LocalRanking) = 1 /\ LocalRanking[1] = LocalModel
<1>1. DOMAIN Ranking = {1, 2} /\ Ranking[1] = HostedModel /\ Ranking[2] = LocalModel
  BY DEF Ranking
<1>2. Models = {HostedModel, LocalModel}
  BY <1>1 DEF Models, Range
<1>3. Ranking \in Seq({HostedModel, LocalModel}) /\ LocalRanking \in Seq({HostedModel, LocalModel})
  BY DEF Ranking, LocalRanking
<1>4. Len(LocalRanking) = 1 /\ LocalRanking[1] = LocalModel
  BY DEF LocalRanking
<1> QED
  BY <1>2, <1>3, <1>4, ProvidersAssumption

\* How health moves: it does not, or by one operation of the registry.
HealthMove ==
    \/ UNCHANGED healthVars
    \/ \E m \in Models : Success(m) \/ CooldownPasses(m) \/ Failure(m, 1) \/ Failure(m, 2)

\* Every step moves the health of one model at most.
LEMMA HealthMoves ==
    ASSUME ProviderInv, [ProviderNext]_providerVars
    PROVE  HealthMove
<1> USE ProvidersAssumption, TwoModels
        DEF ProviderInv, ProviderTypes, ProviderTypeOK, healthVars, limitVars, requestVars,
            streamVars, HealthMove
<1>1. ASSUME NEW p \in Models, CooldownPasses(p)
      PROVE  HealthMove
  BY <1>1 DEF CooldownPasses
<1>2. ASSUME NEW p \in Models, MinutePasses(p)
      PROVE  HealthMove
  BY <1>2 DEF MinutePasses
<1>3. ASSUME NEW p \in Models, PingProvider(p)
      PROVE  HealthMove
  BY <1>3 DEF PingProvider
<1>4. ASSUME NEW c \in Clients, NewRequest(c)
      PROVE  HealthMove
  BY <1>4 DEF NewRequest
<1>5. ASSUME NEW c \in Clients, Choose(c)
      PROVE  HealthMove
  <2>1. HealthCheck(Head(candidates[c])) /\ candidates[c] # <<>>
    BY <1>5 DEF Choose
  <2>2. Head(candidates[c]) \in Models
    <3>1. candidates[c] \in Seq(Models)
      OBVIOUS
    <3> QED
      BY <2>1, <3>1
  <2> QED
    BY <2>1, <2>2 DEF HealthCheck
<1>6. ASSUME NEW c \in Clients, LastResort(c)
      PROVE  HealthMove
  <2> QED
    BY <1>6 DEF LastResort, HealthCheck
<1>7. ASSUME NEW c \in Clients, Send(c)
      PROVE  HealthMove
  BY <1>7 DEF Send
<1>8. ASSUME NEW c \in Clients, ProviderAnswers(c)
      PROVE  HealthMove
  <2>1. serving[c] \in Models
    <3>1. HoldsOk(c)
      BY DEF ClientsInv
    <3>2. request[c] \in {"calling", "completing"} /\ c \in Requests
      BY <1>8 DEF ProviderAnswers
    <3> QED
      BY <3>1, <3>2 DEF HoldsOk, Holding, Stages
  <2> QED
    BY <1>8, <2>1 DEF ProviderAnswers
<1>9. ASSUME NEW c \in Clients, Refused(c)
      PROVE  HealthMove
  <2>1. serving[c] \in Models
    <3>1. HoldsOk(c)
      BY DEF ClientsInv
    <3>2. request[c] \in {"calling", "completing"} /\ c \in Requests
      BY <1>9 DEF Refused
    <3> QED
      BY <3>1, <3>2 DEF HoldsOk, Holding, Stages
  <2> QED
    BY <1>9, <2>1 DEF Refused
<1>10. ASSUME NEW c \in Clients, Complete(c)
      PROVE  HealthMove
  <2>1. serving[c] \in Models
    <3>1. HoldsOk(c)
      BY DEF ClientsInv
    <3>2. request[c] \in {"calling", "completing"} /\ c \in Requests
      BY <1>10, <3>1 DEF Complete, HoldsOk, Clients
    <3> QED
      BY <3>1, <3>2 DEF HoldsOk, Holding, Stages
  <2> QED
    BY <1>10, <2>1 DEF Complete
<1>11. ASSUME NEW c \in Clients, BackedOff(c)
      PROVE  HealthMove
  BY <1>11 DEF BackedOff
<1>12. ASSUME NEW c \in Clients, CancelRequest(c)
      PROVE  HealthMove
  BY <1>12 DEF CancelRequest
<1>13. ASSUME NEW c \in Clients, CallDirect(c)
      PROVE  HealthMove
  BY <1>13 DEF CallDirect
<1>14. ASSUME NEW c \in Clients, DirectReturns(c)
      PROVE  HealthMove
  <2>1. serving[c] \in Models
    BY <1>14 DEF DirectReturns, ClientsInv, DirectOk
  <2> QED
    BY <1>14, <2>1 DEF DirectReturns
<1>15. ASSUME NEW c \in Clients, OpenStream(c)
      PROVE  HealthMove
  BY <1>15 DEF OpenStream
<1>16. ASSUME NEW c \in Clients, ReadChunk(c)
      PROVE  HealthMove
  BY <1>16 DEF ReadChunk
<1>17. ASSUME NEW c \in Clients, EndOfStream(c)
      PROVE  HealthMove
  BY <1>17 DEF EndOfStream
<1>18. ASSUME NEW c \in Clients, NextItem(c)
      PROVE  HealthMove
  BY <1>18 DEF NextItem
<1>19. ASSUME NEW c \in Clients, AbandonStream(c)
      PROVE  HealthMove
  BY <1>19 DEF AbandonStream
<1>20. CASE PingReturns
  BY <1>20 DEF PingReturns
<1>21. CASE UNCHANGED providerVars
  BY <1>21 DEF providerVars
<1> QED
  BY <1>1, <1>2, <1>3, <1>4, <1>5, <1>6, <1>7, <1>8, <1>9, <1>10, <1>11, <1>12, <1>13,
     <1>14, <1>15, <1>16, <1>17, <1>18, <1>19, <1>20, <1>21
     DEF ProviderNext

\* Health and strikes go together after each of them.
LEMMA HealthKept ==
    ASSUME ProviderInv, [ProviderNext]_providerVars
    PROVE  /\ health' \in [Models -> {"ONLINE", "COOLDOWN", "COOLED", "OFFLINE"}]
           /\ strikes' \in [Models -> 0 .. MaxStrikes] /\ HealthMatchesStrikes'
<1> USE ProvidersAssumption
<1>0. /\ health \in [Models -> {"ONLINE", "COOLDOWN", "COOLED", "OFFLINE"}]
      /\ strikes \in [Models -> 0 .. MaxStrikes] /\ HealthMatchesStrikes
  BY DEF ProviderInv, ProviderTypes, ProviderTypeOK
<1>1. CASE UNCHANGED healthVars
  BY <1>0, <1>1 DEF healthVars, HealthMatchesStrikes
<1>2. ASSUME NEW m \in Models, Success(m)
      PROVE  /\ health' \in [Models -> {"ONLINE", "COOLDOWN", "COOLED", "OFFLINE"}]
             /\ strikes' \in [Models -> 0 .. MaxStrikes] /\ HealthMatchesStrikes'
  BY <1>0, <1>2 DEF Success, HealthMatchesStrikes
<1>3. ASSUME NEW m \in Models, CooldownPasses(m)
      PROVE  /\ health' \in [Models -> {"ONLINE", "COOLDOWN", "COOLED", "OFFLINE"}]
             /\ strikes' \in [Models -> 0 .. MaxStrikes] /\ HealthMatchesStrikes'
  BY <1>0, <1>3 DEF CooldownPasses, HealthMatchesStrikes
<1>4. ASSUME NEW m \in Models, NEW n \in {1, 2}, Failure(m, n)
      PROVE  /\ health' \in [Models -> {"ONLINE", "COOLDOWN", "COOLED", "OFFLINE"}]
             /\ strikes' \in [Models -> 0 .. MaxStrikes] /\ HealthMatchesStrikes'
  <2>1. PICK count : count = Min({strikes[m] + n, MaxStrikes})
    OBVIOUS
  <2>2. strikes[m] + n \in Int /\ MaxStrikes \in Int /\ strikes[m] \in 0 .. MaxStrikes /\ n \in 1 .. 2
    BY <1>0
  <2>3. count = IF strikes[m] + n <= MaxStrikes THEN strikes[m] + n ELSE MaxStrikes
    BY <2>1, <2>2, LeastOfTwo
  <2>4. count \in 1 .. MaxStrikes /\ (strikes[m] = MaxStrikes => count = MaxStrikes)
    BY <2>2, <2>3
  <2>5. /\ strikes' = [strikes EXCEPT ![m] = count]
        /\ health' = [health EXCEPT ![m] = IF count = MaxStrikes \/ @ = "OFFLINE" THEN "OFFLINE" ELSE "COOLDOWN"]
    BY <1>4, <2>1 DEF Failure
  <2>6. /\ health' \in [Models -> {"ONLINE", "COOLDOWN", "COOLED", "OFFLINE"}]
        /\ strikes' \in [Models -> 0 .. MaxStrikes]
    BY <1>0, <2>4, <2>5
  <2>7. ASSUME NEW p \in Models
        PROVE  (health'[p] = "ONLINE" <=> strikes'[p] = 0) /\
               (health'[p] = "OFFLINE" <=> strikes'[p] = MaxStrikes)
    <3>1. (health[p] = "ONLINE" <=> strikes[p] = 0) /\
          (health[p] = "OFFLINE" <=> strikes[p] = MaxStrikes)
      BY <1>0 DEF HealthMatchesStrikes
    <3>2. CASE p = m
      <4>1. strikes'[p] = count /\ strikes'[p] # 0
        BY <1>0, <2>4, <2>5, <3>2
      <4>2. health'[p] = IF count = MaxStrikes \/ health[p] = "OFFLINE" THEN "OFFLINE" ELSE "COOLDOWN"
        BY <1>0, <2>5, <3>2
      <4> QED
        BY <2>4, <3>1, <3>2, <4>1, <4>2
    <3>3. CASE p # m
      BY <1>0, <2>5, <3>1, <3>3
    <3> QED
      BY <3>2, <3>3
  <2> QED
    BY <2>6, <2>7 DEF HealthMatchesStrikes
<1> QED
  BY <1>1, <1>2, <1>3, <1>4, HealthMoves DEF HealthMove

\* How a stream moves: a client reads or takes what is not its end.
StreamMove ==
    \/ UNCHANGED streamVars \/ DropStream
    \/ \E k \in Clients :
         \/ ReadChunk(k) \/ EndOfStream(k)
         \/ /\ NextItem(k) /\ items' = Tail(items) /\ received' = received + 1
            /\ UNCHANGED gone /\ Head(items) \notin {"end", "error"}

\* Every step moves the stream in one of these ways.
LEMMA StreamMoves ==
    ASSUME ProviderInv, [ProviderNext]_providerVars
    PROVE  StreamMove
<1> USE ProvidersAssumption, TwoModels
        DEF ProviderInv, healthVars, limitVars, requestVars, streamVars, StreamMove
<1>1. ASSUME NEW p \in Models, CooldownPasses(p)
      PROVE  StreamMove
  BY <1>1 DEF CooldownPasses
<1>2. ASSUME NEW p \in Models, MinutePasses(p)
      PROVE  StreamMove
  BY <1>2 DEF MinutePasses
<1>3. ASSUME NEW p \in Models, PingProvider(p)
      PROVE  StreamMove
  BY <1>3 DEF PingProvider
<1>4. ASSUME NEW c \in Clients, NewRequest(c)
      PROVE  StreamMove
  BY <1>4 DEF NewRequest
<1>5. ASSUME NEW c \in Clients, Choose(c)
      PROVE  StreamMove
  BY <1>5 DEF Choose
<1>6. ASSUME NEW c \in Clients, LastResort(c)
      PROVE  StreamMove
  BY <1>6 DEF LastResort
<1>7. ASSUME NEW c \in Clients, Send(c)
      PROVE  StreamMove
  BY <1>7 DEF Send
<1>8. ASSUME NEW c \in Clients, ProviderAnswers(c)
      PROVE  StreamMove
  BY <1>8 DEF ProviderAnswers
<1>9. ASSUME NEW c \in Clients, Refused(c)
      PROVE  StreamMove
  BY <1>9 DEF Refused
<1>10. ASSUME NEW c \in Clients, Complete(c)
      PROVE  StreamMove
  BY <1>10 DEF Complete
<1>11. ASSUME NEW c \in Clients, BackedOff(c)
      PROVE  StreamMove
  BY <1>11 DEF BackedOff
<1>12. ASSUME NEW c \in Clients, CancelRequest(c)
      PROVE  StreamMove
  BY <1>12 DEF CancelRequest
<1>13. ASSUME NEW c \in Clients, CallDirect(c)
      PROVE  StreamMove
  BY <1>13 DEF CallDirect
<1>14. ASSUME NEW c \in Clients, DirectReturns(c)
      PROVE  StreamMove
  BY <1>14 DEF DirectReturns
<1>15. ASSUME NEW c \in Clients, OpenStream(c)
      PROVE  StreamMove
  BY <1>15 DEF OpenStream
<1>16. ASSUME NEW c \in Clients, ReadChunk(c)
      PROVE  StreamMove
  BY <1>16 DEF ReadChunk
<1>17. ASSUME NEW c \in Clients, EndOfStream(c)
      PROVE  StreamMove
  BY <1>17 DEF EndOfStream
<1>18. ASSUME NEW c \in Clients, NextItem(c)
      PROVE  StreamMove
  BY <1>18 DEF NextItem
<1>19. ASSUME NEW c \in Clients, AbandonStream(c)
      PROVE  StreamMove
  BY <1>19 DEF AbandonStream
<1>20. CASE PingReturns
  BY <1>20 DEF PingReturns
<1>21. CASE UNCHANGED providerVars
  BY <1>21 DEF providerVars
<1> QED
  BY <1>1, <1>2, <1>3, <1>4, <1>5, <1>6, <1>7, <1>8, <1>9, <1>10, <1>11, <1>12, <1>13,
     <1>14, <1>15, <1>16, <1>17, <1>18, <1>19, <1>20, <1>21
     DEF ProviderNext

\* A stream stays chunks and one end.
LEMMA StreamKept ==
    ASSUME ProviderInv, [ProviderNext]_providerVars
    PROVE  items' \in Seq({"chunk", "error", "end"}) /\ gone' \in 0 .. StreamLength + 1 /\
           received' \in Nat /\ StreamInv'
<1> USE ProvidersAssumption
<1>0. /\ items \in Seq({"chunk", "error", "end"}) /\ gone \in 0 .. StreamLength + 1 /\
         received \in Nat /\ StreamInv
      /\ Len(items) \in Nat
  BY DEF ProviderInv, ProviderTypes
<1>1. CASE UNCHANGED streamVars
  BY <1>0, <1>1 DEF streamVars, StreamInv
<1>2. CASE DropStream
  <2>1. items' = <<>> /\ gone' = 0 /\ received' = 0
    BY <1>2 DEF DropStream
  <2>2. Len(items') = 0 /\ items' \in Seq({"chunk", "error", "end"}) /\ gone' <= StreamLength /\
        gone' # StreamLength + 1
    BY <2>1
  <2>3. received' + Len(items') = gone'
    BY <2>1, <2>2
  <2> QED
    BY <2>1, <2>2, <2>3 DEF StreamInv
<1>3. ASSUME NEW k \in Clients, ReadChunk(k)
      PROVE  items' \in Seq({"chunk", "error", "end"}) /\ gone' \in 0 .. StreamLength + 1 /\
             received' \in Nat /\ StreamInv'
  <2>1. gone < StreamLength /\ gone' = gone + 1 /\ items' = Append(items, "chunk") /\ UNCHANGED received
    BY <1>3 DEF ReadChunk
  <2>2. /\ items' \in Seq({"chunk", "error", "end"}) /\ Len(items') = Len(items) + 1
        /\ (\A i \in 1 .. Len(items) : items'[i] = items[i]) /\ items'[Len(items) + 1] = "chunk"
    BY <1>0, <2>1
  <2>3. received + Len(items) = gone /\ \A i \in 1 .. Len(items) : items[i] = "chunk"
    BY <1>0, <2>1 DEF StreamInv
  <2>4. \A i \in 1 .. Len(items') : i \in 1 .. Len(items) \/ i = Len(items) + 1
    BY <1>0, <2>2
  <2>5. gone' \in 0 .. StreamLength + 1 /\ gone' <= StreamLength /\ gone' # StreamLength + 1 /\
        received' + Len(items') = gone'
    BY <1>0, <2>1, <2>2, <2>3
  <2>6. \A i \in 1 .. Len(items') : items'[i] = "chunk"
    BY <2>2, <2>3, <2>4
  <2> QED
    BY <1>0, <2>1, <2>2, <2>5, <2>6 DEF StreamInv
<1>4. ASSUME NEW k \in Clients, EndOfStream(k)
      PROVE  items' \in Seq({"chunk", "error", "end"}) /\ gone' \in 0 .. StreamLength + 1 /\
             received' \in Nat /\ StreamInv'
  <2>1. gone <= StreamLength /\ gone' = StreamLength + 1 /\ UNCHANGED received
        /\ items' = items \o (IF gone = StreamLength THEN <<"end">> ELSE <<"error", "end">>)
    BY <1>4 DEF EndOfStream
  <2>2. received + Len(items) = gone /\ \A i \in 1 .. Len(items) : items[i] = "chunk"
    BY <1>0, <2>1 DEF StreamInv
  <2>3. CASE gone = StreamLength
    <3>1. items' = Append(items, "end")
      BY <1>0, <2>1, <2>3
    <3>2. /\ items' \in Seq({"chunk", "error", "end"}) /\ Len(items') = Len(items) + 1
          /\ (\A i \in 1 .. Len(items) : items'[i] = items[i]) /\ items'[Len(items) + 1] = "end"
      BY <1>0, <3>1
    <3>3. Len(items') > 0 /\ Len(items') - 1 = Len(items) /\ received' + Len(items') = StreamLength + 1
      BY <1>0, <2>1, <2>2, <2>3, <3>2
    <3>4. \A i \in 1 .. Len(items') - 1 : items'[i] = "chunk"
      BY <2>2, <3>2, <3>3
    <3>5. ~(gone' <= StreamLength) /\ gone' \in 0 .. StreamLength + 1
      BY <2>1
    <3> QED
      BY <1>0, <2>1, <3>2, <3>3, <3>4, <3>5 DEF StreamInv
  <2>4. CASE gone < StreamLength
    <3>1. items' = Append(Append(items, "error"), "end")
      BY <1>0, <2>1, <2>4
    <3>2. /\ items' \in Seq({"chunk", "error", "end"}) /\ Len(items') = Len(items) + 2
          /\ (\A i \in 1 .. Len(items) : items'[i] = items[i])
          /\ items'[Len(items) + 1] = "error" /\ items'[Len(items) + 2] = "end"
      BY <1>0, <3>1
    <3>3. Len(items') > 1 /\ Len(items') - 1 = Len(items) + 1 /\ Len(items') - 2 = Len(items) /\
          received' + Len(items') < StreamLength + 2
      BY <1>0, <2>1, <2>2, <2>4, <3>2
    <3>4. \A i \in 1 .. Len(items') - 2 : items'[i] = "chunk"
      BY <2>2, <3>2, <3>3
    <3>5. ~(gone' <= StreamLength) /\ gone' \in 0 .. StreamLength + 1
      BY <2>1
    <3> QED
      BY <1>0, <2>1, <3>2, <3>3, <3>4, <3>5 DEF StreamInv
  <2> QED
    BY <1>0, <2>1, <2>3, <2>4
<1>5. ASSUME NEW k \in Clients, NextItem(k), items' = Tail(items), received' = received + 1,
             UNCHANGED gone,
             Head(items) \notin {"end", "error"}
      PROVE  items' \in Seq({"chunk", "error", "end"}) /\ gone' \in 0 .. StreamLength + 1 /\
             received' \in Nat /\ StreamInv'
  <2>1. items # <<>>
    BY <1>5 DEF NextItem
  <2>2. /\ items' \in Seq({"chunk", "error", "end"}) /\ Len(items') = Len(items) - 1 /\ Len(items) > 0
        /\ \A i \in 1 .. Len(items) - 1 : items'[i] = items[i + 1]
    BY <1>0, <1>5, <2>1
  <2>3. items[1] \notin {"end", "error"}
    BY <1>0, <1>5, <2>1
  <2>4. \A i \in 1 .. Len(items) - 1 : i + 1 \in 1 .. Len(items)
    BY <1>0
  <2>5. gone <= StreamLength => received' + Len(items') = gone' /\
        \A i \in 1 .. Len(items') : items'[i] = "chunk"
    BY <1>0, <1>5, <2>2, <2>4 DEF StreamInv
  <2>6. CASE gone = StreamLength + 1
    <3>1. CASE /\ Len(items) > 0 /\ items[Len(items)] = "end" /\
                  received + Len(items) = StreamLength + 1
               /\ \A i \in 1 .. Len(items) - 1 : items[i] = "chunk"
      <4>1. Len(items) # 1
        BY <2>3, <3>1
      <4>2. Len(items') > 0 /\ Len(items') \in 1 .. Len(items) - 1 /\ Len(items') + 1 = Len(items) /\
            received' + Len(items') = StreamLength + 1
        BY SMTT(20), <1>0, <1>5, <2>2, <3>1, <4>1
      <4>3. items'[Len(items')] = "end"
        BY <2>2, <3>1, <4>2
      <4>4. \A i \in 1 .. Len(items') - 1 : i \in 1 .. Len(items) - 1 /\ i + 1 \in 1 .. Len(items) - 1
        BY <1>0, <2>2, <4>2
      <4>5. \A i \in 1 .. Len(items') - 1 : items'[i] = "chunk"
        BY <2>2, <3>1, <4>4
      <4> QED
        BY <1>0, <1>5, <2>2, <2>6, <4>2, <4>3, <4>5 DEF StreamInv
    <3>2. CASE /\ Len(items) > 1 /\ items[Len(items)] = "end" /\ items[Len(items) - 1] = "error"
               /\ received + Len(items) < StreamLength + 2
               /\ \A i \in 1 .. Len(items) - 2 : items[i] = "chunk"
      <4>1. Len(items) # 2
        BY <2>3, <3>2
      <4>2. /\ Len(items') > 1 /\ Len(items') \in 1 .. Len(items) - 1 /\
               Len(items') - 1 \in 1 .. Len(items) - 1
            /\ Len(items') + 1 = Len(items) /\ (Len(items') - 1) + 1 = Len(items) - 1 /\
               received' + Len(items') < StreamLength + 2
        BY <1>0, <1>5, <2>2, <3>2, <4>1
      <4>3. items'[Len(items')] = "end" /\ items'[Len(items') - 1] = "error"
        BY <2>2, <3>2, <4>2
      <4>4. \A i \in 1 .. Len(items') - 2 : i \in 1 .. Len(items) - 1 /\ i + 1 \in 1 .. Len(items) - 2
        BY <1>0, <2>2, <4>2
      <4>5. \A i \in 1 .. Len(items') - 2 : items'[i] = "chunk"
        BY <2>2, <3>2, <4>4
      <4> QED
        BY <1>0, <1>5, <2>2, <2>6, <4>2, <4>3, <4>5 DEF StreamInv
    <3> QED
      BY <1>0, <2>6, <3>1, <3>2 DEF StreamInv
  <2> QED
    BY <1>0, <1>5, <2>2, <2>5, <2>6 DEF StreamInv
<1> QED
  BY <1>1, <1>2, <1>3, <1>4, <1>5, StreamMoves DEF StreamMove

\* A step leaves each client at a point there is ...
LEMMA RequestTyped ==
    ASSUME ProviderInv, [ProviderNext]_providerVars
    PROVE  request' \in [Clients -> Stages]
<1> USE ProvidersAssumption, TwoModels
        DEF ProviderInv, ProviderTypes, ProviderTypeOK, Holding, Stages, healthVars,
            limitVars, requestVars, streamVars
<1>1. ASSUME NEW p \in Models, CooldownPasses(p)
      PROVE  request' \in [Clients -> Stages]
  BY <1>1 DEF CooldownPasses
<1>2. ASSUME NEW p \in Models, MinutePasses(p)
      PROVE  request' \in [Clients -> Stages]
  BY <1>2 DEF MinutePasses
<1>3. ASSUME NEW p \in Models, PingProvider(p)
      PROVE  request' \in [Clients -> Stages]
  BY <1>3 DEF PingProvider
<1>4. ASSUME NEW c \in Clients, NewRequest(c)
      PROVE  request' \in [Clients -> Stages]
  BY <1>4 DEF NewRequest, StartChoosing
<1>5. ASSUME NEW c \in Clients, Choose(c)
      PROVE  request' \in [Clients -> Stages]
  BY <1>5 DEF Choose, Admit, StartChoosing, End
<1>6. ASSUME NEW c \in Clients, LastResort(c)
      PROVE  request' \in [Clients -> Stages]
  BY <1>6 DEF LastResort, Admit, StartChoosing, End
<1>7. ASSUME NEW c \in Clients, Send(c)
      PROVE  request' \in [Clients -> Stages]
  BY <1>7 DEF Send
<1>8. ASSUME NEW c \in Clients, ProviderAnswers(c)
      PROVE  request' \in [Clients -> Stages]
  BY <1>8 DEF ProviderAnswers
<1>9. ASSUME NEW c \in Clients, Refused(c)
      PROVE  request' \in [Clients -> Stages]
  BY <1>9 DEF Refused
<1>10. ASSUME NEW c \in Clients, Complete(c)
      PROVE  request' \in [Clients -> Stages]
  BY <1>10 DEF Complete, GiveBack, End
<1>11. ASSUME NEW c \in Clients, BackedOff(c)
      PROVE  request' \in [Clients -> Stages]
  <2>1. UNCHANGED request \/ request' = [request EXCEPT ![c] = "ended"] \/
        request' = [request EXCEPT ![c] = "choosing"]
    BY <1>11 DEF BackedOff, GiveBack, StartChoosing, End
  <2>2. CASE UNCHANGED request
    BY <2>2
  <2>3. CASE request' = [request EXCEPT ![c] = "ended"]
    BY <2>3
  <2>4. CASE request' = [request EXCEPT ![c] = "choosing"]
    BY <2>4
  <2> QED
    BY <2>1, <2>2, <2>3, <2>4
<1>12. ASSUME NEW c \in Clients, CancelRequest(c)
      PROVE  request' \in [Clients -> Stages]
  BY <1>12 DEF CancelRequest, GiveBack, End
<1>13. ASSUME NEW c \in Clients, CallDirect(c)
      PROVE  request' \in [Clients -> Stages]
  <2>1. UNCHANGED request \/ request' = [request EXCEPT ![c] = "ended"] \/
        request' = [request EXCEPT ![c] = "calling"]
    BY <1>13 DEF CallDirect, End
  <2>2. CASE UNCHANGED request
    BY <2>2
  <2>3. CASE request' = [request EXCEPT ![c] = "ended"]
    BY <2>3
  <2>4. CASE request' = [request EXCEPT ![c] = "calling"]
    BY <2>4
  <2> QED
    BY <2>1, <2>2, <2>3, <2>4
<1>14. ASSUME NEW c \in Clients, DirectReturns(c)
      PROVE  request' \in [Clients -> Stages]
  BY <1>14 DEF DirectReturns, End
<1>15. ASSUME NEW c \in Clients, OpenStream(c)
      PROVE  request' \in [Clients -> Stages]
  BY <1>15 DEF OpenStream
<1>16. ASSUME NEW c \in Clients, ReadChunk(c)
      PROVE  request' \in [Clients -> Stages]
  BY <1>16 DEF ReadChunk
<1>17. ASSUME NEW c \in Clients, EndOfStream(c)
      PROVE  request' \in [Clients -> Stages]
  BY <1>17 DEF EndOfStream
<1>18. ASSUME NEW c \in Clients, NextItem(c)
      PROVE  request' \in [Clients -> Stages]
  BY <1>18 DEF NextItem, End
<1>19. ASSUME NEW c \in Clients, AbandonStream(c)
      PROVE  request' \in [Clients -> Stages]
  BY <1>19 DEF AbandonStream, End
<1>20. CASE PingReturns
  BY <1>20 DEF PingReturns
<1>21. CASE UNCHANGED providerVars
  BY <1>21 DEF providerVars
<1> QED
  BY <1>1, <1>2, <1>3, <1>4, <1>5, <1>6, <1>7, <1>8, <1>9, <1>10, <1>11, <1>12, <1>13,
     <1>14, <1>15, <1>16, <1>17, <1>18, <1>19, <1>20, <1>21
     DEF ProviderNext

\* ... what a request found of the budget a Boolean ...
LEMMA ThriftyTyped ==
    ASSUME ProviderInv, [ProviderNext]_providerVars
    PROVE  thrifty' \in [Clients -> BOOLEAN]
<1> USE ProvidersAssumption, TwoModels
        DEF ProviderInv, ProviderTypes, ProviderTypeOK, Holding, Stages, healthVars,
            limitVars, requestVars, streamVars
<1>1. ASSUME NEW p \in Models, CooldownPasses(p)
      PROVE  thrifty' \in [Clients -> BOOLEAN]
  BY <1>1 DEF CooldownPasses
<1>2. ASSUME NEW p \in Models, MinutePasses(p)
      PROVE  thrifty' \in [Clients -> BOOLEAN]
  BY <1>2 DEF MinutePasses
<1>3. ASSUME NEW p \in Models, PingProvider(p)
      PROVE  thrifty' \in [Clients -> BOOLEAN]
  BY <1>3 DEF PingProvider
<1>4. ASSUME NEW c \in Clients, NewRequest(c)
      PROVE  thrifty' \in [Clients -> BOOLEAN]
  <2>1. UNCHANGED thrifty \/ thrifty' = [thrifty EXCEPT ![c] = FALSE] \/
        thrifty' = [thrifty EXCEPT ![c] = overBudget]
    BY <1>4 DEF NewRequest, StartChoosing
  <2>2. CASE UNCHANGED thrifty
    BY <2>2
  <2>3. CASE thrifty' = [thrifty EXCEPT ![c] = FALSE]
    BY <2>3
  <2>4. CASE thrifty' = [thrifty EXCEPT ![c] = overBudget]
    BY <2>4
  <2> QED
    BY <2>1, <2>2, <2>3, <2>4
<1>5. ASSUME NEW c \in Clients, Choose(c)
      PROVE  thrifty' \in [Clients -> BOOLEAN]
  <2>1. UNCHANGED thrifty \/ thrifty' = [thrifty EXCEPT ![c] = FALSE] \/
        thrifty' = [thrifty EXCEPT ![c] = overBudget]
    BY <1>5 DEF Choose, Admit, StartChoosing, End
  <2>2. CASE UNCHANGED thrifty
    BY <2>2
  <2>3. CASE thrifty' = [thrifty EXCEPT ![c] = FALSE]
    BY <2>3
  <2>4. CASE thrifty' = [thrifty EXCEPT ![c] = overBudget]
    BY <2>4
  <2> QED
    BY <2>1, <2>2, <2>3, <2>4
<1>6. ASSUME NEW c \in Clients, LastResort(c)
      PROVE  thrifty' \in [Clients -> BOOLEAN]
  <2>1. UNCHANGED thrifty \/ thrifty' = [thrifty EXCEPT ![c] = FALSE] \/
        thrifty' = [thrifty EXCEPT ![c] = overBudget]
    BY <1>6 DEF LastResort, Admit, StartChoosing, End
  <2>2. CASE UNCHANGED thrifty
    BY <2>2
  <2>3. CASE thrifty' = [thrifty EXCEPT ![c] = FALSE]
    BY <2>3
  <2>4. CASE thrifty' = [thrifty EXCEPT ![c] = overBudget]
    BY <2>4
  <2> QED
    BY <2>1, <2>2, <2>3, <2>4
<1>7. ASSUME NEW c \in Clients, Send(c)
      PROVE  thrifty' \in [Clients -> BOOLEAN]
  BY <1>7 DEF Send
<1>8. ASSUME NEW c \in Clients, ProviderAnswers(c)
      PROVE  thrifty' \in [Clients -> BOOLEAN]
  BY <1>8 DEF ProviderAnswers
<1>9. ASSUME NEW c \in Clients, Refused(c)
      PROVE  thrifty' \in [Clients -> BOOLEAN]
  BY <1>9 DEF Refused
<1>10. ASSUME NEW c \in Clients, Complete(c)
      PROVE  thrifty' \in [Clients -> BOOLEAN]
  BY <1>10 DEF Complete, GiveBack, End
<1>11. ASSUME NEW c \in Clients, BackedOff(c)
      PROVE  thrifty' \in [Clients -> BOOLEAN]
  <2>1. UNCHANGED thrifty \/ thrifty' = [thrifty EXCEPT ![c] = FALSE] \/
        thrifty' = [thrifty EXCEPT ![c] = overBudget]
    BY <1>11 DEF BackedOff, GiveBack, StartChoosing, End
  <2>2. CASE UNCHANGED thrifty
    BY <2>2
  <2>3. CASE thrifty' = [thrifty EXCEPT ![c] = FALSE]
    BY <2>3
  <2>4. CASE thrifty' = [thrifty EXCEPT ![c] = overBudget]
    BY <2>4
  <2> QED
    BY <2>1, <2>2, <2>3, <2>4
<1>12. ASSUME NEW c \in Clients, CancelRequest(c)
      PROVE  thrifty' \in [Clients -> BOOLEAN]
  BY <1>12 DEF CancelRequest, GiveBack, End
<1>13. ASSUME NEW c \in Clients, CallDirect(c)
      PROVE  thrifty' \in [Clients -> BOOLEAN]
  BY <1>13 DEF CallDirect, End
<1>14. ASSUME NEW c \in Clients, DirectReturns(c)
      PROVE  thrifty' \in [Clients -> BOOLEAN]
  BY <1>14 DEF DirectReturns, End
<1>15. ASSUME NEW c \in Clients, OpenStream(c)
      PROVE  thrifty' \in [Clients -> BOOLEAN]
  BY <1>15 DEF OpenStream
<1>16. ASSUME NEW c \in Clients, ReadChunk(c)
      PROVE  thrifty' \in [Clients -> BOOLEAN]
  BY <1>16 DEF ReadChunk
<1>17. ASSUME NEW c \in Clients, EndOfStream(c)
      PROVE  thrifty' \in [Clients -> BOOLEAN]
  BY <1>17 DEF EndOfStream
<1>18. ASSUME NEW c \in Clients, NextItem(c)
      PROVE  thrifty' \in [Clients -> BOOLEAN]
  BY <1>18 DEF NextItem, End
<1>19. ASSUME NEW c \in Clients, AbandonStream(c)
      PROVE  thrifty' \in [Clients -> BOOLEAN]
  BY <1>19 DEF AbandonStream, End
<1>20. CASE PingReturns
  BY <1>20 DEF PingReturns
<1>21. CASE UNCHANGED providerVars
  BY <1>21 DEF providerVars
<1> QED
  BY <1>1, <1>2, <1>3, <1>4, <1>5, <1>6, <1>7, <1>8, <1>9, <1>10, <1>11, <1>12, <1>13,
     <1>14, <1>15, <1>16, <1>17, <1>18, <1>19, <1>20, <1>21
     DEF ProviderNext

\* ... its candidates models ...
LEMMA CandidatesTyped ==
    ASSUME ProviderInv, [ProviderNext]_providerVars
    PROVE  candidates' \in [Clients -> Seq(Models)]
<1> USE ProvidersAssumption, TwoModels
        DEF ProviderInv, ProviderTypes, ProviderTypeOK, Holding, Stages, healthVars,
            limitVars, requestVars, streamVars
<1>1. ASSUME NEW p \in Models, CooldownPasses(p)
      PROVE  candidates' \in [Clients -> Seq(Models)]
  BY <1>1 DEF CooldownPasses
<1>2. ASSUME NEW p \in Models, MinutePasses(p)
      PROVE  candidates' \in [Clients -> Seq(Models)]
  BY <1>2 DEF MinutePasses
<1>3. ASSUME NEW p \in Models, PingProvider(p)
      PROVE  candidates' \in [Clients -> Seq(Models)]
  BY <1>3 DEF PingProvider
<1>4. ASSUME NEW c \in Clients, NewRequest(c)
      PROVE  candidates' \in [Clients -> Seq(Models)]
  BY <1>4 DEF NewRequest, StartChoosing
<1>5. ASSUME NEW c \in Clients, Choose(c)
      PROVE  candidates' \in [Clients -> Seq(Models)]
  <2>1. candidates[c] # <<>> /\ candidates[c] \in Seq(Models)
    BY <1>5 DEF Choose
  <2>2. Tail(candidates[c]) \in Seq(Models)
    BY <2>1
  <2> QED
    BY <1>5, <2>2 DEF Choose, Admit, StartChoosing, End
<1>6. ASSUME NEW c \in Clients, LastResort(c)
      PROVE  candidates' \in [Clients -> Seq(Models)]
  BY ZenonT(20), <1>6 DEF LastResort, Admit, StartChoosing, End
<1>7. ASSUME NEW c \in Clients, Send(c)
      PROVE  candidates' \in [Clients -> Seq(Models)]
  BY <1>7 DEF Send
<1>8. ASSUME NEW c \in Clients, ProviderAnswers(c)
      PROVE  candidates' \in [Clients -> Seq(Models)]
  BY <1>8 DEF ProviderAnswers
<1>9. ASSUME NEW c \in Clients, Refused(c)
      PROVE  candidates' \in [Clients -> Seq(Models)]
  BY <1>9 DEF Refused
<1>10. ASSUME NEW c \in Clients, Complete(c)
      PROVE  candidates' \in [Clients -> Seq(Models)]
  BY <1>10 DEF Complete, GiveBack, End
<1>11. ASSUME NEW c \in Clients, BackedOff(c)
      PROVE  candidates' \in [Clients -> Seq(Models)]
  <2>1. UNCHANGED candidates \/ candidates' = [candidates EXCEPT ![c] = <<>>] \/
        candidates' = [candidates EXCEPT ![c] = LocalRanking] \/
        candidates' = [candidates EXCEPT ![c] = Ranking]
    BY <1>11 DEF BackedOff, GiveBack, StartChoosing, End
  <2>2. CASE UNCHANGED candidates
    BY <2>2
  <2>3. CASE candidates' = [candidates EXCEPT ![c] = <<>>]
    BY SMTT(20), <2>3
  <2>4. CASE candidates' = [candidates EXCEPT ![c] = LocalRanking]
    BY <2>4
  <2>5. CASE candidates' = [candidates EXCEPT ![c] = Ranking]
    BY <2>5
  <2> QED
    BY <2>1, <2>2, <2>3, <2>4, <2>5
<1>12. ASSUME NEW c \in Clients, CancelRequest(c)
      PROVE  candidates' \in [Clients -> Seq(Models)]
  <2>1. UNCHANGED candidates \/ candidates' = [candidates EXCEPT ![c] = <<>>] \/
        candidates' = [candidates EXCEPT ![c] = LocalRanking] \/
        candidates' = [candidates EXCEPT ![c] = Ranking]
    BY <1>12 DEF CancelRequest, GiveBack, End
  <2>2. CASE UNCHANGED candidates
    BY <2>2
  <2>3. CASE candidates' = [candidates EXCEPT ![c] = <<>>]
    BY SMTT(20), <2>3
  <2>4. CASE candidates' = [candidates EXCEPT ![c] = LocalRanking]
    BY <2>4
  <2>5. CASE candidates' = [candidates EXCEPT ![c] = Ranking]
    BY <2>5
  <2> QED
    BY <2>1, <2>2, <2>3, <2>4, <2>5
<1>13. ASSUME NEW c \in Clients, CallDirect(c)
      PROVE  candidates' \in [Clients -> Seq(Models)]
  <2>1. UNCHANGED candidates \/ candidates' = [candidates EXCEPT ![c] = <<>>] \/
        candidates' = [candidates EXCEPT ![c] = LocalRanking] \/
        candidates' = [candidates EXCEPT ![c] = Ranking]
    BY <1>13 DEF CallDirect, End
  <2>2. CASE UNCHANGED candidates
    BY <2>2
  <2>3. CASE candidates' = [candidates EXCEPT ![c] = <<>>]
    BY SMTT(20), <2>3
  <2>4. CASE candidates' = [candidates EXCEPT ![c] = LocalRanking]
    BY <2>4
  <2>5. CASE candidates' = [candidates EXCEPT ![c] = Ranking]
    BY <2>5
  <2> QED
    BY <2>1, <2>2, <2>3, <2>4, <2>5
<1>14. ASSUME NEW c \in Clients, DirectReturns(c)
      PROVE  candidates' \in [Clients -> Seq(Models)]
  <2>1. UNCHANGED candidates \/ candidates' = [candidates EXCEPT ![c] = <<>>]
    BY <1>14 DEF DirectReturns, End
  <2>2. candidates \in [Clients -> Seq(Models)] /\ <<>> \in Seq(Models)
    BY SMTT(20)
  <2> QED
    BY <2>1, <2>2
<1>15. ASSUME NEW c \in Clients, OpenStream(c)
      PROVE  candidates' \in [Clients -> Seq(Models)]
  BY <1>15 DEF OpenStream
<1>16. ASSUME NEW c \in Clients, ReadChunk(c)
      PROVE  candidates' \in [Clients -> Seq(Models)]
  BY <1>16 DEF ReadChunk
<1>17. ASSUME NEW c \in Clients, EndOfStream(c)
      PROVE  candidates' \in [Clients -> Seq(Models)]
  BY <1>17 DEF EndOfStream
<1>18. ASSUME NEW c \in Clients, NextItem(c)
      PROVE  candidates' \in [Clients -> Seq(Models)]
  <2>1. UNCHANGED candidates \/ candidates' = [candidates EXCEPT ![c] = <<>>] \/
        candidates' = [candidates EXCEPT ![c] = LocalRanking] \/
        candidates' = [candidates EXCEPT ![c] = Ranking]
    BY <1>18 DEF NextItem, End
  <2>2. CASE UNCHANGED candidates
    BY <2>2
  <2>3. CASE candidates' = [candidates EXCEPT ![c] = <<>>]
    BY SMTT(20), <2>3
  <2>4. CASE candidates' = [candidates EXCEPT ![c] = LocalRanking]
    BY <2>4
  <2>5. CASE candidates' = [candidates EXCEPT ![c] = Ranking]
    BY <2>5
  <2> QED
    BY <2>1, <2>2, <2>3, <2>4, <2>5
<1>19. ASSUME NEW c \in Clients, AbandonStream(c)
      PROVE  candidates' \in [Clients -> Seq(Models)]
  BY <1>19 DEF AbandonStream, End
<1>20. CASE PingReturns
  BY <1>20 DEF PingReturns
<1>21. CASE UNCHANGED providerVars
  BY <1>21 DEF providerVars
<1> QED
  BY <1>1, <1>2, <1>3, <1>4, <1>5, <1>6, <1>7, <1>8, <1>9, <1>10, <1>11, <1>12, <1>13,
     <1>14, <1>15, <1>16, <1>17, <1>18, <1>19, <1>20, <1>21
     DEF ProviderNext

\* ... its sends a number ...
LEMMA SendsTyped ==
    ASSUME ProviderInv, [ProviderNext]_providerVars
    PROVE  sends' \in [Clients -> Nat]
<1> USE ProvidersAssumption, TwoModels
        DEF ProviderInv, ProviderTypes, ProviderTypeOK, Holding, Stages, healthVars,
            limitVars, requestVars, streamVars
<1>1. ASSUME NEW p \in Models, CooldownPasses(p)
      PROVE  sends' \in [Clients -> Nat]
  BY <1>1 DEF CooldownPasses
<1>2. ASSUME NEW p \in Models, MinutePasses(p)
      PROVE  sends' \in [Clients -> Nat]
  BY <1>2 DEF MinutePasses
<1>3. ASSUME NEW p \in Models, PingProvider(p)
      PROVE  sends' \in [Clients -> Nat]
  BY <1>3 DEF PingProvider
<1>4. ASSUME NEW c \in Clients, NewRequest(c)
      PROVE  sends' \in [Clients -> Nat]
  BY <1>4 DEF NewRequest, StartChoosing
<1>5. ASSUME NEW c \in Clients, Choose(c)
      PROVE  sends' \in [Clients -> Nat]
  BY <1>5 DEF Choose, Admit, StartChoosing, End
<1>6. ASSUME NEW c \in Clients, LastResort(c)
      PROVE  sends' \in [Clients -> Nat]
  <2>1. UNCHANGED sends \/ sends' = [sends EXCEPT ![c] = 0]
    BY <1>6 DEF LastResort, Admit, StartChoosing, End
  <2>2. CASE UNCHANGED sends
    BY <2>2
  <2>3. CASE sends' = [sends EXCEPT ![c] = 0]
    BY <2>3
  <2> QED
    BY <2>1, <2>2, <2>3
<1>7. ASSUME NEW c \in Clients, Send(c)
      PROVE  sends' \in [Clients -> Nat]
  <2>1. sends' = [sends EXCEPT ![c] = sends[c] + 1] /\ sends \in [Clients -> Nat]
    BY <1>7 DEF Send
  <2>2. sends[c] + 1 \in Nat
    BY SMTT(20), <2>1
  <2> QED
    BY <2>1, <2>2
<1>8. ASSUME NEW c \in Clients, ProviderAnswers(c)
      PROVE  sends' \in [Clients -> Nat]
  BY <1>8 DEF ProviderAnswers
<1>9. ASSUME NEW c \in Clients, Refused(c)
      PROVE  sends' \in [Clients -> Nat]
  BY <1>9 DEF Refused
<1>10. ASSUME NEW c \in Clients, Complete(c)
      PROVE  sends' \in [Clients -> Nat]
  BY <1>10 DEF Complete, GiveBack, End
<1>11. ASSUME NEW c \in Clients, BackedOff(c)
      PROVE  sends' \in [Clients -> Nat]
  <2>1. UNCHANGED sends \/ sends' = [sends EXCEPT ![c] = 0]
    BY <1>11 DEF BackedOff, GiveBack, StartChoosing, End
  <2>2. CASE UNCHANGED sends
    BY <2>2
  <2>3. CASE sends' = [sends EXCEPT ![c] = 0]
    BY <2>3
  <2> QED
    BY <2>1, <2>2, <2>3
<1>12. ASSUME NEW c \in Clients, CancelRequest(c)
      PROVE  sends' \in [Clients -> Nat]
  BY <1>12 DEF CancelRequest, GiveBack, End
<1>13. ASSUME NEW c \in Clients, CallDirect(c)
      PROVE  sends' \in [Clients -> Nat]
  <2>1. UNCHANGED sends \/ sends' = [sends EXCEPT ![c] = 0]
    BY <1>13 DEF CallDirect, End
  <2>2. CASE UNCHANGED sends
    BY <2>2
  <2>3. CASE sends' = [sends EXCEPT ![c] = 0]
    BY <2>3
  <2> QED
    BY <2>1, <2>2, <2>3
<1>14. ASSUME NEW c \in Clients, DirectReturns(c)
      PROVE  sends' \in [Clients -> Nat]
  BY <1>14 DEF DirectReturns, End
<1>15. ASSUME NEW c \in Clients, OpenStream(c)
      PROVE  sends' \in [Clients -> Nat]
  BY <1>15 DEF OpenStream
<1>16. ASSUME NEW c \in Clients, ReadChunk(c)
      PROVE  sends' \in [Clients -> Nat]
  BY <1>16 DEF ReadChunk
<1>17. ASSUME NEW c \in Clients, EndOfStream(c)
      PROVE  sends' \in [Clients -> Nat]
  BY <1>17 DEF EndOfStream
<1>18. ASSUME NEW c \in Clients, NextItem(c)
      PROVE  sends' \in [Clients -> Nat]
  <2>1. UNCHANGED sends \/ sends' = [sends EXCEPT ![c] = 0]
    BY <1>18 DEF NextItem, End
  <2>2. CASE UNCHANGED sends
    BY <2>2
  <2>3. CASE sends' = [sends EXCEPT ![c] = 0]
    BY <2>3
  <2> QED
    BY <2>1, <2>2, <2>3
<1>19. ASSUME NEW c \in Clients, AbandonStream(c)
      PROVE  sends' \in [Clients -> Nat]
  BY <1>19 DEF AbandonStream, End
<1>20. CASE PingReturns
  BY <1>20 DEF PingReturns
<1>21. CASE UNCHANGED providerVars
  BY <1>21 DEF providerVars
<1> QED
  BY <1>1, <1>2, <1>3, <1>4, <1>5, <1>6, <1>7, <1>8, <1>9, <1>10, <1>11, <1>12, <1>13,
     <1>14, <1>15, <1>16, <1>17, <1>18, <1>19, <1>20, <1>21
     DEF ProviderNext

\* ... what it holds a model or none ...
LEMMA ServingTyped ==
    ASSUME ProviderInv, [ProviderNext]_providerVars
    PROVE  serving' \in [Clients -> Models \cup {NoModel}]
<1> USE ProvidersAssumption, TwoModels
        DEF ProviderInv, ProviderTypes, ProviderTypeOK, Holding, Stages, healthVars,
            limitVars, requestVars, streamVars
<1>1. ASSUME NEW p \in Models, CooldownPasses(p)
      PROVE  serving' \in [Clients -> Models \cup {NoModel}]
  BY <1>1 DEF CooldownPasses
<1>2. ASSUME NEW p \in Models, MinutePasses(p)
      PROVE  serving' \in [Clients -> Models \cup {NoModel}]
  BY <1>2 DEF MinutePasses
<1>3. ASSUME NEW p \in Models, PingProvider(p)
      PROVE  serving' \in [Clients -> Models \cup {NoModel}]
  BY <1>3 DEF PingProvider
<1>4. ASSUME NEW c \in Clients, NewRequest(c)
      PROVE  serving' \in [Clients -> Models \cup {NoModel}]
  BY <1>4 DEF NewRequest, StartChoosing
<1>5. ASSUME NEW c \in Clients, Choose(c)
      PROVE  serving' \in [Clients -> Models \cup {NoModel}]
  <2>1. candidates[c] # <<>> /\ candidates[c] \in Seq(Models)
    BY <1>5 DEF Choose
  <2>2. Head(candidates[c]) \in Models
    BY <2>1
  <2> QED
    BY <1>5, <2>2 DEF Choose, Admit, StartChoosing, End
<1>6. ASSUME NEW c \in Clients, LastResort(c)
      PROVE  serving' \in [Clients -> Models \cup {NoModel}]
  BY <1>6 DEF LastResort, Admit, StartChoosing, End
<1>7. ASSUME NEW c \in Clients, Send(c)
      PROVE  serving' \in [Clients -> Models \cup {NoModel}]
  BY <1>7 DEF Send
<1>8. ASSUME NEW c \in Clients, ProviderAnswers(c)
      PROVE  serving' \in [Clients -> Models \cup {NoModel}]
  BY <1>8 DEF ProviderAnswers
<1>9. ASSUME NEW c \in Clients, Refused(c)
      PROVE  serving' \in [Clients -> Models \cup {NoModel}]
  BY <1>9 DEF Refused
<1>10. ASSUME NEW c \in Clients, Complete(c)
      PROVE  serving' \in [Clients -> Models \cup {NoModel}]
  BY <1>10 DEF Complete, GiveBack, End
<1>11. ASSUME NEW c \in Clients, BackedOff(c)
      PROVE  serving' \in [Clients -> Models \cup {NoModel}]
  BY <1>11 DEF BackedOff, GiveBack, StartChoosing, End
<1>12. ASSUME NEW c \in Clients, CancelRequest(c)
      PROVE  serving' \in [Clients -> Models \cup {NoModel}]
  BY <1>12 DEF CancelRequest, GiveBack, End
<1>13. ASSUME NEW c \in Clients, CallDirect(c)
      PROVE  serving' \in [Clients -> Models \cup {NoModel}]
  BY <1>13 DEF CallDirect, End
<1>14. ASSUME NEW c \in Clients, DirectReturns(c)
      PROVE  serving' \in [Clients -> Models \cup {NoModel}]
  BY <1>14 DEF DirectReturns, End
<1>15. ASSUME NEW c \in Clients, OpenStream(c)
      PROVE  serving' \in [Clients -> Models \cup {NoModel}]
  BY <1>15 DEF OpenStream
<1>16. ASSUME NEW c \in Clients, ReadChunk(c)
      PROVE  serving' \in [Clients -> Models \cup {NoModel}]
  BY <1>16 DEF ReadChunk
<1>17. ASSUME NEW c \in Clients, EndOfStream(c)
      PROVE  serving' \in [Clients -> Models \cup {NoModel}]
  BY <1>17 DEF EndOfStream
<1>18. ASSUME NEW c \in Clients, NextItem(c)
      PROVE  serving' \in [Clients -> Models \cup {NoModel}]
  BY <1>18 DEF NextItem, End
<1>19. ASSUME NEW c \in Clients, AbandonStream(c)
      PROVE  serving' \in [Clients -> Models \cup {NoModel}]
  BY <1>19 DEF AbandonStream, End
<1>20. CASE PingReturns
  BY <1>20 DEF PingReturns
<1>21. CASE UNCHANGED providerVars
  BY <1>21 DEF providerVars
<1> QED
  BY <1>1, <1>2, <1>3, <1>4, <1>5, <1>6, <1>7, <1>8, <1>9, <1>10, <1>11, <1>12, <1>13,
     <1>14, <1>15, <1>16, <1>17, <1>18, <1>19, <1>20, <1>21
     DEF ProviderNext

\* ... what is probed a model or none ...
LEMMA ProbedTyped ==
    ASSUME ProviderInv, [ProviderNext]_providerVars
    PROVE  probed' \in Models \cup {NoModel}
<1> USE ProvidersAssumption, TwoModels
        DEF ProviderInv, ProviderTypes, ProviderTypeOK, Holding, Stages, healthVars,
            limitVars, requestVars, streamVars
<1>1. ASSUME NEW p \in Models, CooldownPasses(p)
      PROVE  probed' \in Models \cup {NoModel}
  BY <1>1 DEF CooldownPasses
<1>2. ASSUME NEW p \in Models, MinutePasses(p)
      PROVE  probed' \in Models \cup {NoModel}
  BY <1>2 DEF MinutePasses
<1>3. ASSUME NEW p \in Models, PingProvider(p)
      PROVE  probed' \in Models \cup {NoModel}
  BY <1>3 DEF PingProvider
<1>4. ASSUME NEW c \in Clients, NewRequest(c)
      PROVE  probed' \in Models \cup {NoModel}
  BY <1>4 DEF NewRequest, StartChoosing
<1>5. ASSUME NEW c \in Clients, Choose(c)
      PROVE  probed' \in Models \cup {NoModel}
  BY <1>5 DEF Choose, Admit, StartChoosing, End
<1>6. ASSUME NEW c \in Clients, LastResort(c)
      PROVE  probed' \in Models \cup {NoModel}
  BY <1>6 DEF LastResort, Admit, StartChoosing, End
<1>7. ASSUME NEW c \in Clients, Send(c)
      PROVE  probed' \in Models \cup {NoModel}
  BY <1>7 DEF Send
<1>8. ASSUME NEW c \in Clients, ProviderAnswers(c)
      PROVE  probed' \in Models \cup {NoModel}
  BY <1>8 DEF ProviderAnswers
<1>9. ASSUME NEW c \in Clients, Refused(c)
      PROVE  probed' \in Models \cup {NoModel}
  BY <1>9 DEF Refused
<1>10. ASSUME NEW c \in Clients, Complete(c)
      PROVE  probed' \in Models \cup {NoModel}
  BY <1>10 DEF Complete, GiveBack, End
<1>11. ASSUME NEW c \in Clients, BackedOff(c)
      PROVE  probed' \in Models \cup {NoModel}
  BY <1>11 DEF BackedOff, GiveBack, StartChoosing, End
<1>12. ASSUME NEW c \in Clients, CancelRequest(c)
      PROVE  probed' \in Models \cup {NoModel}
  BY <1>12 DEF CancelRequest, GiveBack, End
<1>13. ASSUME NEW c \in Clients, CallDirect(c)
      PROVE  probed' \in Models \cup {NoModel}
  BY <1>13 DEF CallDirect, End
<1>14. ASSUME NEW c \in Clients, DirectReturns(c)
      PROVE  probed' \in Models \cup {NoModel}
  BY <1>14 DEF DirectReturns, End
<1>15. ASSUME NEW c \in Clients, OpenStream(c)
      PROVE  probed' \in Models \cup {NoModel}
  BY <1>15 DEF OpenStream
<1>16. ASSUME NEW c \in Clients, ReadChunk(c)
      PROVE  probed' \in Models \cup {NoModel}
  BY <1>16 DEF ReadChunk
<1>17. ASSUME NEW c \in Clients, EndOfStream(c)
      PROVE  probed' \in Models \cup {NoModel}
  BY <1>17 DEF EndOfStream
<1>18. ASSUME NEW c \in Clients, NextItem(c)
      PROVE  probed' \in Models \cup {NoModel}
  BY <1>18 DEF NextItem, End
<1>19. ASSUME NEW c \in Clients, AbandonStream(c)
      PROVE  probed' \in Models \cup {NoModel}
  BY <1>19 DEF AbandonStream, End
<1>20. CASE PingReturns
  BY <1>20 DEF PingReturns
<1>21. CASE UNCHANGED providerVars
  BY <1>21 DEF providerVars
<1> QED
  BY <1>1, <1>2, <1>3, <1>4, <1>5, <1>6, <1>7, <1>8, <1>9, <1>10, <1>11, <1>12, <1>13,
     <1>14, <1>15, <1>16, <1>17, <1>18, <1>19, <1>20, <1>21
     DEF ProviderNext

\* ... the budget used up or not ...
LEMMA OverBudgetTyped ==
    ASSUME ProviderInv, [ProviderNext]_providerVars
    PROVE  overBudget' \in BOOLEAN
<1> USE ProvidersAssumption, TwoModels
        DEF ProviderInv, ProviderTypes, ProviderTypeOK, Holding, Stages, healthVars,
            limitVars, requestVars, streamVars
<1>1. ASSUME NEW p \in Models, CooldownPasses(p)
      PROVE  overBudget' \in BOOLEAN
  BY <1>1 DEF CooldownPasses
<1>2. ASSUME NEW p \in Models, MinutePasses(p)
      PROVE  overBudget' \in BOOLEAN
  BY <1>2 DEF MinutePasses
<1>3. ASSUME NEW p \in Models, PingProvider(p)
      PROVE  overBudget' \in BOOLEAN
  BY <1>3 DEF PingProvider
<1>4. ASSUME NEW c \in Clients, NewRequest(c)
      PROVE  overBudget' \in BOOLEAN
  BY <1>4 DEF NewRequest, StartChoosing
<1>5. ASSUME NEW c \in Clients, Choose(c)
      PROVE  overBudget' \in BOOLEAN
  BY <1>5 DEF Choose, Admit, StartChoosing, End
<1>6. ASSUME NEW c \in Clients, LastResort(c)
      PROVE  overBudget' \in BOOLEAN
  BY <1>6 DEF LastResort, Admit, StartChoosing, End
<1>7. ASSUME NEW c \in Clients, Send(c)
      PROVE  overBudget' \in BOOLEAN
  BY <1>7 DEF Send
<1>8. ASSUME NEW c \in Clients, ProviderAnswers(c)
      PROVE  overBudget' \in BOOLEAN
  BY <1>8 DEF ProviderAnswers
<1>9. ASSUME NEW c \in Clients, Refused(c)
      PROVE  overBudget' \in BOOLEAN
  BY <1>9 DEF Refused
<1>10. ASSUME NEW c \in Clients, Complete(c)
      PROVE  overBudget' \in BOOLEAN
  BY <1>10 DEF Complete, GiveBack, End
<1>11. ASSUME NEW c \in Clients, BackedOff(c)
      PROVE  overBudget' \in BOOLEAN
  BY <1>11 DEF BackedOff, GiveBack, StartChoosing, End
<1>12. ASSUME NEW c \in Clients, CancelRequest(c)
      PROVE  overBudget' \in BOOLEAN
  BY <1>12 DEF CancelRequest, GiveBack, End
<1>13. ASSUME NEW c \in Clients, CallDirect(c)
      PROVE  overBudget' \in BOOLEAN
  BY <1>13 DEF CallDirect, End
<1>14. ASSUME NEW c \in Clients, DirectReturns(c)
      PROVE  overBudget' \in BOOLEAN
  BY <1>14 DEF DirectReturns, End
<1>15. ASSUME NEW c \in Clients, OpenStream(c)
      PROVE  overBudget' \in BOOLEAN
  BY <1>15 DEF OpenStream
<1>16. ASSUME NEW c \in Clients, ReadChunk(c)
      PROVE  overBudget' \in BOOLEAN
  BY <1>16 DEF ReadChunk
<1>17. ASSUME NEW c \in Clients, EndOfStream(c)
      PROVE  overBudget' \in BOOLEAN
  BY <1>17 DEF EndOfStream
<1>18. ASSUME NEW c \in Clients, NextItem(c)
      PROVE  overBudget' \in BOOLEAN
  BY <1>18 DEF NextItem, End
<1>19. ASSUME NEW c \in Clients, AbandonStream(c)
      PROVE  overBudget' \in BOOLEAN
  BY <1>19 DEF AbandonStream, End
<1>20. CASE PingReturns
  BY <1>20 DEF PingReturns
<1>21. CASE UNCHANGED providerVars
  BY <1>21 DEF providerVars
<1> QED
  BY <1>1, <1>2, <1>3, <1>4, <1>5, <1>6, <1>7, <1>8, <1>9, <1>10, <1>11, <1>12, <1>13,
     <1>14, <1>15, <1>16, <1>17, <1>18, <1>19, <1>20, <1>21
     DEF ProviderNext

\* ... and its retries within their bound.
LEMMA RetriesTyped ==
    ASSUME ProviderInv, [ProviderNext]_providerVars
    PROVE  retries' \in [Clients -> 0 .. MaxSends + 1]
<1> USE ProvidersAssumption, TwoModels
        DEF ProviderInv, ProviderTypes, ProviderTypeOK, Holding, Stages, healthVars,
            limitVars, requestVars, streamVars
<1>1. ASSUME NEW p \in Models, CooldownPasses(p)
      PROVE  retries' \in [Clients -> 0 .. MaxSends + 1]
  BY <1>1 DEF CooldownPasses
<1>2. ASSUME NEW p \in Models, MinutePasses(p)
      PROVE  retries' \in [Clients -> 0 .. MaxSends + 1]
  BY <1>2 DEF MinutePasses
<1>3. ASSUME NEW p \in Models, PingProvider(p)
      PROVE  retries' \in [Clients -> 0 .. MaxSends + 1]
  BY <1>3 DEF PingProvider
<1>4. ASSUME NEW c \in Clients, NewRequest(c)
      PROVE  retries' \in [Clients -> 0 .. MaxSends + 1]
  BY <1>4 DEF NewRequest, StartChoosing
<1>5. ASSUME NEW c \in Clients, Choose(c)
      PROVE  retries' \in [Clients -> 0 .. MaxSends + 1]
  <2>1. UNCHANGED retries \/ retries' = [retries EXCEPT ![c] = 0] \/ (retries[c] <= MaxSends /\
        retries' = [retries EXCEPT ![c] = @ + 1])
    <3>1. retries[c] <= MaxSends
      BY DEF ClientsInv, SendsOk
    <3> QED
      BY <1>5, <3>1 DEF Choose, Admit, StartChoosing, End
  <2>2. retries[c] \in 0 .. MaxSends + 1 /\ MaxSends \in Nat
    OBVIOUS
  <2>3. retries[c] <= MaxSends => retries[c] + 1 \in 0 .. MaxSends + 1
    BY <2>2
  <2>4. 0 \in 0 .. MaxSends + 1
    BY <2>2
  <2> QED
    BY <2>1, <2>3, <2>4
<1>6. ASSUME NEW c \in Clients, LastResort(c)
      PROVE  retries' \in [Clients -> 0 .. MaxSends + 1]
  <2>1. UNCHANGED retries \/ retries' = [retries EXCEPT ![c] = 0] \/ (retries[c] <= MaxSends /\
        retries' = [retries EXCEPT ![c] = @ + 1])
    <3>1. retries[c] <= MaxSends
      BY DEF ClientsInv, SendsOk
    <3> QED
      BY <1>6, <3>1 DEF LastResort, Admit, StartChoosing, End
  <2>2. retries[c] \in 0 .. MaxSends + 1 /\ MaxSends \in Nat
    OBVIOUS
  <2>3. retries[c] <= MaxSends => retries[c] + 1 \in 0 .. MaxSends + 1
    BY <2>2
  <2>4. 0 \in 0 .. MaxSends + 1
    BY <2>2
  <2> QED
    BY <2>1, <2>3, <2>4
<1>7. ASSUME NEW c \in Clients, Send(c)
      PROVE  retries' \in [Clients -> 0 .. MaxSends + 1]
  BY <1>7 DEF Send
<1>8. ASSUME NEW c \in Clients, ProviderAnswers(c)
      PROVE  retries' \in [Clients -> 0 .. MaxSends + 1]
  BY <1>8 DEF ProviderAnswers
<1>9. ASSUME NEW c \in Clients, Refused(c)
      PROVE  retries' \in [Clients -> 0 .. MaxSends + 1]
  BY <1>9 DEF Refused
<1>10. ASSUME NEW c \in Clients, Complete(c)
      PROVE  retries' \in [Clients -> 0 .. MaxSends + 1]
  BY <1>10 DEF Complete, GiveBack, End
<1>11. ASSUME NEW c \in Clients, BackedOff(c)
      PROVE  retries' \in [Clients -> 0 .. MaxSends + 1]
  <2>1. UNCHANGED retries \/ retries' = [retries EXCEPT ![c] = 0] \/ (retries[c] <= MaxSends /\
        retries' = [retries EXCEPT ![c] = @ + 1])
    <3>1. retries[c] <= MaxSends
      BY DEF ClientsInv, SendsOk
    <3> QED
      BY <1>11, <3>1 DEF BackedOff, GiveBack, StartChoosing, End
  <2>2. retries[c] \in 0 .. MaxSends + 1 /\ MaxSends \in Nat
    OBVIOUS
  <2>3. retries[c] <= MaxSends => retries[c] + 1 \in 0 .. MaxSends + 1
    BY <2>2
  <2>4. 0 \in 0 .. MaxSends + 1
    BY <2>2
  <2> QED
    BY <2>1, <2>3, <2>4
<1>12. ASSUME NEW c \in Clients, CancelRequest(c)
      PROVE  retries' \in [Clients -> 0 .. MaxSends + 1]
  BY SMTT(20), <1>12 DEF CancelRequest, GiveBack, End
<1>13. ASSUME NEW c \in Clients, CallDirect(c)
      PROVE  retries' \in [Clients -> 0 .. MaxSends + 1]
  <2>1. UNCHANGED retries \/ retries' = [retries EXCEPT ![c] = 0]
    BY <1>13 DEF CallDirect, End
  <2>2. CASE UNCHANGED retries
    BY <2>2
  <2>3. CASE retries' = [retries EXCEPT ![c] = 0]
    BY <2>3
  <2> QED
    BY <2>1, <2>2, <2>3
<1>14. ASSUME NEW c \in Clients, DirectReturns(c)
      PROVE  retries' \in [Clients -> 0 .. MaxSends + 1]
  BY <1>14 DEF DirectReturns, End
<1>15. ASSUME NEW c \in Clients, OpenStream(c)
      PROVE  retries' \in [Clients -> 0 .. MaxSends + 1]
  BY <1>15 DEF OpenStream
<1>16. ASSUME NEW c \in Clients, ReadChunk(c)
      PROVE  retries' \in [Clients -> 0 .. MaxSends + 1]
  BY <1>16 DEF ReadChunk
<1>17. ASSUME NEW c \in Clients, EndOfStream(c)
      PROVE  retries' \in [Clients -> 0 .. MaxSends + 1]
  BY <1>17 DEF EndOfStream
<1>18. ASSUME NEW c \in Clients, NextItem(c)
      PROVE  retries' \in [Clients -> 0 .. MaxSends + 1]
  <2>1. UNCHANGED retries \/ retries' = [retries EXCEPT ![c] = 0]
    BY <1>18 DEF NextItem, End
  <2>2. CASE UNCHANGED retries
    BY <2>2
  <2>3. CASE retries' = [retries EXCEPT ![c] = 0]
    BY <2>3
  <2> QED
    BY <2>1, <2>2, <2>3
<1>19. ASSUME NEW c \in Clients, AbandonStream(c)
      PROVE  retries' \in [Clients -> 0 .. MaxSends + 1]
  BY <1>19 DEF AbandonStream, End
<1>20. CASE PingReturns
  BY <1>20 DEF PingReturns
<1>21. CASE UNCHANGED providerVars
  BY <1>21 DEF providerVars
<1> QED
  BY <1>1, <1>2, <1>3, <1>4, <1>5, <1>6, <1>7, <1>8, <1>9, <1>10, <1>11, <1>12, <1>13,
     <1>14, <1>15, <1>16, <1>17, <1>18, <1>19, <1>20, <1>21
     DEF ProviderNext

\* A request takes a slot, and gives it up, together with the provider.
LEMMA HoldsKept ==
    ASSUME ProviderInv, NEW d \in Clients, [ProviderNext]_providerVars
    PROVE  HoldsOk(d)'
<1> USE ProvidersAssumption, TwoModels
        DEF ProviderInv, ProviderTypes, ProviderTypeOK, Holding, Stages, ClientsInv, HoldsOk,
            healthVars, limitVars, requestVars, streamVars
<1>1. ASSUME NEW p \in Models, CooldownPasses(p)
      PROVE  HoldsOk(d)'
  BY <1>1 DEF CooldownPasses
<1>2. ASSUME NEW p \in Models, MinutePasses(p)
      PROVE  HoldsOk(d)'
  BY <1>2 DEF MinutePasses
<1>3. ASSUME NEW p \in Models, PingProvider(p)
      PROVE  HoldsOk(d)'
  BY <1>3 DEF PingProvider
<1>4. ASSUME NEW c \in Clients, NewRequest(c)
      PROVE  HoldsOk(d)'
  BY <1>4 DEF NewRequest, StartChoosing
<1>5. ASSUME NEW c \in Clients, Choose(c)
      PROVE  HoldsOk(d)'
  BY SMTT(20), <1>5 DEF Choose, Admit, StartChoosing, End
<1>6. ASSUME NEW c \in Clients, LastResort(c)
      PROVE  HoldsOk(d)'
  BY SMTT(20), <1>6 DEF LastResort, Admit, StartChoosing, End
<1>7. ASSUME NEW c \in Clients, Send(c)
      PROVE  HoldsOk(d)'
  BY <1>7 DEF Send
<1>8. ASSUME NEW c \in Clients, ProviderAnswers(c)
      PROVE  HoldsOk(d)'
  BY <1>8 DEF ProviderAnswers
<1>9. ASSUME NEW c \in Clients, Refused(c)
      PROVE  HoldsOk(d)'
  BY <1>9 DEF Refused
<1>10. ASSUME NEW c \in Clients, Complete(c)
      PROVE  HoldsOk(d)'
  BY <1>10 DEF Complete, GiveBack, End
<1>11. ASSUME NEW c \in Clients, BackedOff(c)
      PROVE  HoldsOk(d)'
  BY SMTT(20), <1>11 DEF BackedOff, GiveBack, StartChoosing, End
<1>12. ASSUME NEW c \in Clients, CancelRequest(c)
      PROVE  HoldsOk(d)'
  BY <1>12 DEF CancelRequest, GiveBack, End
<1>13. ASSUME NEW c \in Clients, CallDirect(c)
      PROVE  HoldsOk(d)'
  BY SMTT(20), <1>13 DEF CallDirect, End
<1>14. ASSUME NEW c \in Clients, DirectReturns(c)
      PROVE  HoldsOk(d)'
  BY <1>14 DEF DirectReturns, End
<1>15. ASSUME NEW c \in Clients, OpenStream(c)
      PROVE  HoldsOk(d)'
  BY <1>15 DEF OpenStream
<1>16. ASSUME NEW c \in Clients, ReadChunk(c)
      PROVE  HoldsOk(d)'
  BY <1>16 DEF ReadChunk
<1>17. ASSUME NEW c \in Clients, EndOfStream(c)
      PROVE  HoldsOk(d)'
  BY <1>17 DEF EndOfStream
<1>18. ASSUME NEW c \in Clients, NextItem(c)
      PROVE  HoldsOk(d)'
  <2>1. CASE d # c
    <3>1. request'[d] = request[d] /\ serving'[d] = serving[d]
      BY <1>18, <2>1 DEF NextItem, End, Streaming
    <3> QED
      BY <3>1
  <2>2. CASE d = c
    <3>1. \/ request[c] = "streaming" /\ request'[c] = "ended" /\ serving'[c] = serving[c]
          \/ request'[c] = request[c] /\ serving'[c] = serving[c]
      BY <1>18, <2>2 DEF NextItem, End, Streaming
    <3>20. CASE request[c] = "streaming" /\ request'[c] = "ended" /\ serving'[c] = serving[c]
      BY <2>2, <3>20
    <3>21. CASE request'[c] = request[c] /\ serving'[c] = serving[c]
      BY <2>2, <3>21
    <3> QED
      BY <3>1, <3>20, <3>21
  <2> QED
    BY <2>1, <2>2
<1>19. ASSUME NEW c \in Clients, AbandonStream(c)
      PROVE  HoldsOk(d)'
  <2>1. CASE d # c
    <3>1. request'[d] = request[d] /\ serving'[d] = serving[d]
      BY <1>19, <2>1 DEF AbandonStream, End, Streaming
    <3> QED
      BY <3>1
  <2>2. CASE d = c
    <3>1. \/ request[c] = "streaming" /\ request'[c] = "ended" /\ serving'[c] = serving[c]
      BY <1>19, <2>2 DEF AbandonStream, End, Streaming
    <3>20. CASE request[c] = "streaming" /\ request'[c] = "ended" /\ serving'[c] = serving[c]
      BY <2>2, <3>20
    <3> QED
      BY <3>1, <3>20
  <2> QED
    BY <2>1, <2>2
<1>20. CASE PingReturns
  BY <1>20 DEF PingReturns
<1>21. CASE UNCHANGED providerVars
  BY <1>21 DEF providerVars
<1> QED
  BY <1>1, <1>2, <1>3, <1>4, <1>5, <1>6, <1>7, <1>8, <1>9, <1>10, <1>11, <1>12, <1>13,
     <1>14, <1>15, <1>16, <1>17, <1>18, <1>19, <1>20, <1>21
     DEF ProviderNext

\* A direct call stays with the hosted model.
LEMMA DirectKept ==
    ASSUME ProviderInv, NEW d \in Clients, [ProviderNext]_providerVars
    PROVE  DirectOk(d)'
<1> USE ProvidersAssumption, TwoModels
        DEF ProviderInv, ProviderTypes, ProviderTypeOK, Holding, Stages, ClientsInv, DirectOk,
            healthVars, limitVars, requestVars, streamVars
<1>1. ASSUME NEW p \in Models, CooldownPasses(p)
      PROVE  DirectOk(d)'
  BY <1>1 DEF CooldownPasses
<1>2. ASSUME NEW p \in Models, MinutePasses(p)
      PROVE  DirectOk(d)'
  BY <1>2 DEF MinutePasses
<1>3. ASSUME NEW p \in Models, PingProvider(p)
      PROVE  DirectOk(d)'
  BY <1>3 DEF PingProvider
<1>4. ASSUME NEW c \in Clients, NewRequest(c)
      PROVE  DirectOk(d)'
  BY <1>4 DEF NewRequest, StartChoosing
<1>5. ASSUME NEW c \in Clients, Choose(c)
      PROVE  DirectOk(d)'
  BY <1>5 DEF Choose, Admit, StartChoosing, End
<1>6. ASSUME NEW c \in Clients, LastResort(c)
      PROVE  DirectOk(d)'
  BY <1>6 DEF LastResort, Admit, StartChoosing, End
<1>7. ASSUME NEW c \in Clients, Send(c)
      PROVE  DirectOk(d)'
  <2>1. CASE d # c
    <3>1. request'[d] = request[d] /\ serving'[d] = serving[d]
      BY <1>7, <2>1 DEF Send
    <3> QED
      BY <3>1
  <2>2. CASE d = c
    <3>5. request[c] = "starting" => c \notin Direct
      BY DEF HoldsOk
    <3>1. \/ request[c] = "starting" /\ c \notin Direct
      BY <1>7, <2>2, <3>5 DEF Send
    <3>20. CASE request[c] = "starting" /\ c \notin Direct
      BY <2>2, <3>20, <3>5
    <3> QED
      BY <3>1, <3>20
  <2> QED
    BY <2>1, <2>2
<1>8. ASSUME NEW c \in Clients, ProviderAnswers(c)
      PROVE  DirectOk(d)'
  BY <1>8 DEF ProviderAnswers
<1>9. ASSUME NEW c \in Clients, Refused(c)
      PROVE  DirectOk(d)'
  BY <1>9 DEF Refused
<1>10. ASSUME NEW c \in Clients, Complete(c)
      PROVE  DirectOk(d)'
  BY <1>10 DEF Complete, GiveBack, End
<1>11. ASSUME NEW c \in Clients, BackedOff(c)
      PROVE  DirectOk(d)'
  BY <1>11 DEF BackedOff, GiveBack, StartChoosing, End
<1>12. ASSUME NEW c \in Clients, CancelRequest(c)
      PROVE  DirectOk(d)'
  BY <1>12 DEF CancelRequest, GiveBack, End
<1>13. ASSUME NEW c \in Clients, CallDirect(c)
      PROVE  DirectOk(d)'
  BY SMTT(20), <1>13 DEF CallDirect, End
<1>14. ASSUME NEW c \in Clients, DirectReturns(c)
      PROVE  DirectOk(d)'
  BY <1>14 DEF DirectReturns, End
<1>15. ASSUME NEW c \in Clients, OpenStream(c)
      PROVE  DirectOk(d)'
  BY <1>15 DEF OpenStream
<1>16. ASSUME NEW c \in Clients, ReadChunk(c)
      PROVE  DirectOk(d)'
  BY <1>16 DEF ReadChunk
<1>17. ASSUME NEW c \in Clients, EndOfStream(c)
      PROVE  DirectOk(d)'
  BY <1>17 DEF EndOfStream
<1>18. ASSUME NEW c \in Clients, NextItem(c)
      PROVE  DirectOk(d)'
  BY <1>18 DEF NextItem, End
<1>19. ASSUME NEW c \in Clients, AbandonStream(c)
      PROVE  DirectOk(d)'
  BY <1>19 DEF AbandonStream, End
<1>20. CASE PingReturns
  BY <1>20 DEF PingReturns
<1>21. CASE UNCHANGED providerVars
  BY <1>21 DEF providerVars
<1> QED
  BY <1>1, <1>2, <1>3, <1>4, <1>5, <1>6, <1>7, <1>8, <1>9, <1>10, <1>11, <1>12, <1>13,
     <1>14, <1>15, <1>16, <1>17, <1>18, <1>19, <1>20, <1>21
     DEF ProviderNext

\* A send is followed by a retry or by the end of the request.
LEMMA SendsKept ==
    ASSUME ProviderInv, NEW d \in Clients, [ProviderNext]_providerVars
    PROVE  SendsOk(d)'
<1> USE ProvidersAssumption, TwoModels
        DEF ProviderInv, ProviderTypes, ProviderTypeOK, Holding, Stages, ClientsInv, SendsOk,
            healthVars, limitVars, requestVars, streamVars
<1>1. ASSUME NEW p \in Models, CooldownPasses(p)
      PROVE  SendsOk(d)'
  BY <1>1 DEF CooldownPasses
<1>2. ASSUME NEW p \in Models, MinutePasses(p)
      PROVE  SendsOk(d)'
  BY <1>2 DEF MinutePasses
<1>3. ASSUME NEW p \in Models, PingProvider(p)
      PROVE  SendsOk(d)'
  BY <1>3 DEF PingProvider
<1>4. ASSUME NEW c \in Clients, NewRequest(c)
      PROVE  SendsOk(d)'
  BY <1>4 DEF NewRequest, StartChoosing
<1>5. ASSUME NEW c \in Clients, Choose(c)
      PROVE  SendsOk(d)'
  <2>1. CASE d # c
    <3>1. request'[d] = request[d] /\ sends'[d] = sends[d] /\ retries'[d] = retries[d]
      BY <1>5, <2>1 DEF Choose, Admit, StartChoosing, End
    <3> QED
      BY <3>1
  <2>2. CASE d = c
    <3>5. retries[c] \in Nat /\ sends[c] \in Nat /\ retries[c] <= MaxSends /\ MaxSends \in Nat /\
          sends[c] <= retries[c] + (IF request[c] \in {"calling", "completing", "backoff"} THEN 1 ELSE 0)
      OBVIOUS
    <3>1. \/ request'[c] = "ended" /\ sends'[c] = 0 /\ retries'[c] = 0
          \/ request[c] = "choosing" /\ request'[c] = "choosing" /\ retries[c] < MaxSends /\
             retries'[c] = retries[c] + 1 /\ sends'[c] = sends[c]
          \/ request[c] = "choosing" /\ request'[c] = "starting" /\ sends'[c] = sends[c] /\
             retries'[c] = retries[c]
          \/ request'[c] = request[c] /\ sends'[c] = sends[c] /\ retries'[c] = retries[c]
      BY <1>5, <2>2, <3>5 DEF Choose, Admit, StartChoosing, End
    <3>20. CASE request'[c] = "ended" /\ sends'[c] = 0 /\ retries'[c] = 0
      BY <2>2, <3>20, <3>5
    <3>21. CASE request[c] = "choosing" /\ request'[c] = "choosing" /\ retries[c] < MaxSends /\
                retries'[c] = retries[c] + 1 /\ sends'[c] = sends[c]
      BY <2>2, <3>21, <3>5
    <3>22. CASE request[c] = "choosing" /\ request'[c] = "starting" /\ sends'[c] = sends[c] /\
                retries'[c] = retries[c]
      BY <2>2, <3>22, <3>5
    <3>23. CASE request'[c] = request[c] /\ sends'[c] = sends[c] /\ retries'[c] = retries[c]
      BY <2>2, <3>23, <3>5
    <3> QED
      BY <3>1, <3>20, <3>21, <3>22, <3>23
  <2> QED
    BY <2>1, <2>2
<1>6. ASSUME NEW c \in Clients, LastResort(c)
      PROVE  SendsOk(d)'
  <2>1. CASE d # c
    <3>1. request'[d] = request[d] /\ sends'[d] = sends[d] /\ retries'[d] = retries[d]
      BY <1>6, <2>1 DEF LastResort, Admit, StartChoosing, End
    <3> QED
      BY <3>1
  <2>2. CASE d = c
    <3>5. retries[c] \in Nat /\ sends[c] \in Nat /\ retries[c] <= MaxSends /\ MaxSends \in Nat /\
          sends[c] <= retries[c] + (IF request[c] \in {"calling", "completing", "backoff"} THEN 1 ELSE 0)
      OBVIOUS
    <3>1. \/ request'[c] = "ended" /\ sends'[c] = 0 /\ retries'[c] = 0
          \/ request[c] = "choosing" /\ request'[c] = "choosing" /\ retries[c] < MaxSends /\
             retries'[c] = retries[c] + 1 /\ sends'[c] = sends[c]
          \/ request[c] = "choosing" /\ request'[c] = "starting" /\ sends'[c] = sends[c] /\
             retries'[c] = retries[c]
      BY <1>6, <2>2, <3>5 DEF LastResort, Admit, StartChoosing, End
    <3>20. CASE request'[c] = "ended" /\ sends'[c] = 0 /\ retries'[c] = 0
      BY <2>2, <3>20, <3>5
    <3>21. CASE request[c] = "choosing" /\ request'[c] = "choosing" /\ retries[c] < MaxSends /\
                retries'[c] = retries[c] + 1 /\ sends'[c] = sends[c]
      BY <2>2, <3>21, <3>5
    <3>22. CASE request[c] = "choosing" /\ request'[c] = "starting" /\ sends'[c] = sends[c] /\
                retries'[c] = retries[c]
      BY <2>2, <3>22, <3>5
    <3> QED
      BY <3>1, <3>20, <3>21, <3>22
  <2> QED
    BY <2>1, <2>2
<1>7. ASSUME NEW c \in Clients, Send(c)
      PROVE  SendsOk(d)'
  <2>1. CASE d # c
    <3>1. request'[d] = request[d] /\ sends'[d] = sends[d] /\ retries'[d] = retries[d]
      BY <1>7, <2>1 DEF Send
    <3> QED
      BY <3>1
  <2>2. CASE d = c
    <3>5. retries[c] \in Nat /\ sends[c] \in Nat /\ retries[c] <= MaxSends /\ MaxSends \in Nat /\
          sends[c] <= retries[c] + (IF request[c] \in {"calling", "completing", "backoff"} THEN 1 ELSE 0)
      OBVIOUS
    <3>1. \/ request[c] = "starting" /\ request'[c] = "calling" /\ retries'[c] = retries[c] /\
             sends'[c] = sends[c] + 1
      BY <1>7, <2>2, <3>5 DEF Send
    <3>20. CASE request[c] = "starting" /\ request'[c] = "calling" /\ retries'[c] = retries[c] /\
                sends'[c] = sends[c] + 1
      BY <2>2, <3>20, <3>5
    <3> QED
      BY <3>1, <3>20
  <2> QED
    BY <2>1, <2>2
<1>8. ASSUME NEW c \in Clients, ProviderAnswers(c)
      PROVE  SendsOk(d)'
  BY <1>8 DEF ProviderAnswers
<1>9. ASSUME NEW c \in Clients, Refused(c)
      PROVE  SendsOk(d)'
  BY <1>9 DEF Refused
<1>10. ASSUME NEW c \in Clients, Complete(c)
      PROVE  SendsOk(d)'
  <2>1. CASE d # c
    <3>1. request'[d] = request[d] /\ sends'[d] = sends[d] /\ retries'[d] = retries[d]
      BY <1>10, <2>1 DEF Complete, GiveBack, End
    <3> QED
      BY <3>1
  <2>2. CASE d = c
    <3>1. request'[c] = "ended" /\ sends'[c] = 0 /\ retries'[c] = 0
      BY <1>10, <2>2 DEF Complete, GiveBack, End
    <3> QED
      BY <2>2, <3>1
  <2> QED
    BY <2>1, <2>2
<1>11. ASSUME NEW c \in Clients, BackedOff(c)
      PROVE  SendsOk(d)'
  <2>1. CASE d # c
    <3>1. request'[d] = request[d] /\ sends'[d] = sends[d] /\ retries'[d] = retries[d]
      BY <1>11, <2>1 DEF BackedOff, GiveBack, StartChoosing, End
    <3> QED
      BY <3>1
  <2>2. CASE d = c
    <3>5. retries[c] \in Nat /\ sends[c] \in Nat /\ retries[c] <= MaxSends /\ MaxSends \in Nat /\
          sends[c] <= retries[c] + (IF request[c] \in {"calling", "completing", "backoff"} THEN 1 ELSE 0)
      OBVIOUS
    <3>1. \/ request'[c] = "ended" /\ sends'[c] = 0 /\ retries'[c] = 0
          \/ request[c] = "backoff" /\ request'[c] = "choosing" /\ retries[c] < MaxSends /\
             retries'[c] = retries[c] + 1 /\ sends'[c] = sends[c]
      BY <1>11, <2>2, <3>5 DEF BackedOff, GiveBack, StartChoosing, End
    <3>20. CASE request'[c] = "ended" /\ sends'[c] = 0 /\ retries'[c] = 0
      BY <2>2, <3>20, <3>5
    <3>21. CASE request[c] = "backoff" /\ request'[c] = "choosing" /\ retries[c] < MaxSends /\
                retries'[c] = retries[c] + 1 /\ sends'[c] = sends[c]
      BY <2>2, <3>21, <3>5
    <3> QED
      BY <3>1, <3>20, <3>21
  <2> QED
    BY <2>1, <2>2
<1>12. ASSUME NEW c \in Clients, CancelRequest(c)
      PROVE  SendsOk(d)'
  <2>1. CASE d # c
    <3>1. request'[d] = request[d] /\ sends'[d] = sends[d] /\ retries'[d] = retries[d]
      BY <1>12, <2>1 DEF CancelRequest, GiveBack, End
    <3> QED
      BY <3>1
  <2>2. CASE d = c
    <3>1. \/ request'[c] = "ended" /\ sends'[c] = 0 /\ retries'[c] = 0
      BY <1>12, <2>2 DEF CancelRequest, GiveBack, End
    <3>20. CASE request'[c] = "ended" /\ sends'[c] = 0 /\ retries'[c] = 0
      BY <2>2, <3>20
    <3> QED
      BY <3>1, <3>20
  <2> QED
    BY <2>1, <2>2
<1>13. ASSUME NEW c \in Clients, CallDirect(c)
      PROVE  SendsOk(d)'
  BY SMTT(20), <1>13 DEF CallDirect, End
<1>14. ASSUME NEW c \in Clients, DirectReturns(c)
      PROVE  SendsOk(d)'
  <2>1. CASE d # c
    <3>1. request'[d] = request[d] /\ sends'[d] = sends[d] /\ retries'[d] = retries[d]
      BY <1>14, <2>1 DEF DirectReturns, End
    <3> QED
      BY <3>1
  <2>2. CASE d = c
    <3>1. request'[c] = "ended" /\ sends'[c] = 0 /\ retries'[c] = 0
      BY <1>14, <2>2 DEF DirectReturns, End
    <3> QED
      BY <2>2, <3>1
  <2> QED
    BY <2>1, <2>2
<1>15. ASSUME NEW c \in Clients, OpenStream(c)
      PROVE  SendsOk(d)'
  BY <1>15 DEF OpenStream
<1>16. ASSUME NEW c \in Clients, ReadChunk(c)
      PROVE  SendsOk(d)'
  BY <1>16 DEF ReadChunk
<1>17. ASSUME NEW c \in Clients, EndOfStream(c)
      PROVE  SendsOk(d)'
  BY <1>17 DEF EndOfStream
<1>18. ASSUME NEW c \in Clients, NextItem(c)
      PROVE  SendsOk(d)'
  <2>1. CASE d # c
    <3>1. request'[d] = request[d] /\ sends'[d] = sends[d] /\ retries'[d] = retries[d]
      BY <1>18, <2>1 DEF NextItem, End, Streaming
    <3> QED
      BY <3>1
  <2>2. CASE d = c
    <3>1. \/ request'[c] = "ended" /\ sends'[c] = 0 /\ retries'[c] = 0
          \/ request'[c] = request[c] /\ sends'[c] = sends[c] /\ retries'[c] = retries[c]
      BY SMTT(20), <1>18, <2>2 DEF NextItem, End, Streaming
    <3>20. CASE request'[c] = "ended" /\ sends'[c] = 0 /\ retries'[c] = 0
      BY <2>2, <3>20
    <3>21. CASE request'[c] = request[c] /\ sends'[c] = sends[c] /\ retries'[c] = retries[c]
      BY <2>2, <3>21
    <3> QED
      BY <3>1, <3>20, <3>21
  <2> QED
    BY <2>1, <2>2
<1>19. ASSUME NEW c \in Clients, AbandonStream(c)
      PROVE  SendsOk(d)'
  BY SMTT(20), <1>19 DEF AbandonStream, End
<1>20. CASE PingReturns
  BY <1>20 DEF PingReturns
<1>21. CASE UNCHANGED providerVars
  BY <1>21 DEF providerVars
<1> QED
  BY <1>1, <1>2, <1>3, <1>4, <1>5, <1>6, <1>7, <1>8, <1>9, <1>10, <1>11, <1>12, <1>13,
     <1>14, <1>15, <1>16, <1>17, <1>18, <1>19, <1>20, <1>21
     DEF ProviderNext

\* A request that found the budget used up stays local.
LEMMA BudgetKept ==
    ASSUME ProviderInv, NEW d \in Clients, [ProviderNext]_providerVars
    PROVE  BudgetOk(d)'
<1> USE ProvidersAssumption, TwoModels
        DEF ProviderInv, ProviderTypes, ProviderTypeOK, Holding, Stages, ClientsInv, BudgetOk,
            healthVars, limitVars, requestVars, streamVars
<1>1. ASSUME NEW p \in Models, CooldownPasses(p)
      PROVE  BudgetOk(d)'
  BY <1>1 DEF CooldownPasses
<1>2. ASSUME NEW p \in Models, MinutePasses(p)
      PROVE  BudgetOk(d)'
  BY <1>2 DEF MinutePasses
<1>3. ASSUME NEW p \in Models, PingProvider(p)
      PROVE  BudgetOk(d)'
  BY <1>3 DEF PingProvider
<1>4. ASSUME NEW c \in Clients, NewRequest(c)
      PROVE  BudgetOk(d)'
  <2>1. CASE d # c
    <3>1. thrifty'[d] = thrifty[d] /\ candidates'[d] = candidates[d] /\ serving'[d] = serving[d]
      BY <1>4, <2>1 DEF NewRequest, StartChoosing
    <3> QED
      BY <3>1
  <2>2. CASE d = c
    <3>5. c \in Requests /\ request[c] \in {"idle", "choosing"} => serving[c] = NoModel
      BY DEF HoldsOk
    <3>6. overBudget \in BOOLEAN /\ \A i \in 1 .. Len(LocalRanking) : LocalRanking[i] = LocalModel
      <4>1. Len(LocalRanking) = 1 /\ LocalRanking[1] = LocalModel
        BY TwoModels
      <4>2. \A i \in 1 .. 1 : i = 1
        OBVIOUS
      <4> QED
        BY <4>1, <4>2
    <3>1. \/ thrifty'[c] = TRUE /\ candidates'[c] = LocalRanking /\ serving'[c] = NoModel
          \/ overBudget = FALSE /\ thrifty'[c] = FALSE
      BY <1>4, <2>2, <3>5, <3>6 DEF NewRequest, StartChoosing
    <3>20. CASE thrifty'[c] = TRUE /\ candidates'[c] = LocalRanking /\ serving'[c] = NoModel
      BY <2>2, <3>20, <3>5, <3>6
    <3>21. CASE overBudget = FALSE /\ thrifty'[c] = FALSE
      BY <2>2, <3>21, <3>5, <3>6
    <3> QED
      BY <3>1, <3>20, <3>21
  <2> QED
    BY <2>1, <2>2
<1>5. ASSUME NEW c \in Clients, Choose(c)
      PROVE  BudgetOk(d)'
  <2>1. CASE d # c
    <3>1. thrifty'[d] = thrifty[d] /\ candidates'[d] = candidates[d] /\ serving'[d] = serving[d]
      BY <1>5, <2>1 DEF Choose, Admit, StartChoosing, End
    <3> QED
      BY <3>1
  <2>2. CASE d = c
    <3>5. c \in Requests /\ request[c] \in {"idle", "choosing"} => serving[c] = NoModel
      BY DEF HoldsOk
    <3>6. overBudget \in BOOLEAN /\ \A i \in 1 .. Len(LocalRanking) : LocalRanking[i] = LocalModel
      <4>1. Len(LocalRanking) = 1 /\ LocalRanking[1] = LocalModel
        BY TwoModels
      <4>2. \A i \in 1 .. 1 : i = 1
        OBVIOUS
      <4> QED
        BY <4>1, <4>2
    <3>7. request[c] = "choosing" => c \in Requests
      BY DEF HoldsOk, Clients
    <3>8. candidates[c] \in Seq(Models) /\ candidates[c] # <<>>
      BY <1>5 DEF Choose
    <3>9. /\ Head(candidates[c]) = candidates[c][1] /\ 1 \in 1 .. Len(candidates[c])
          /\ Len(Tail(candidates[c])) = Len(candidates[c]) - 1 /\ Len(candidates[c]) \in Nat
          /\ \A i \in 1 .. Len(candidates[c]) - 1 : Tail(candidates[c])[i] = candidates[c][i + 1]
      BY <3>8
    <3>1. \/ thrifty'[c] = FALSE
          \/ thrifty'[c] = TRUE /\ candidates'[c] = LocalRanking /\ serving'[c] = NoModel
          \/ overBudget = FALSE /\ thrifty'[c] = FALSE
          \/ thrifty'[c] = thrifty[c] /\ candidates'[c] = candidates[c] /\
             serving'[c] = Head(candidates[c])
          \/ thrifty'[c] = thrifty[c] /\ candidates'[c] = Tail(candidates[c]) /\
             serving'[c] = serving[c]
      BY <1>5, <2>2, <3>5, <3>6, <3>7, <3>8, <3>9 DEF Choose, Admit, StartChoosing, End
    <3>20. CASE thrifty'[c] = FALSE
      BY <2>2, <3>20, <3>5, <3>6, <3>7, <3>8, <3>9
    <3>21. CASE thrifty'[c] = TRUE /\ candidates'[c] = LocalRanking /\ serving'[c] = NoModel
      BY <2>2, <3>21, <3>5, <3>6, <3>7, <3>8, <3>9
    <3>22. CASE overBudget = FALSE /\ thrifty'[c] = FALSE
      BY <2>2, <3>22, <3>5, <3>6, <3>7, <3>8, <3>9
    <3>23. CASE thrifty'[c] = thrifty[c] /\ candidates'[c] = candidates[c] /\
                serving'[c] = Head(candidates[c])
      BY <2>2, <3>23, <3>5, <3>6, <3>7, <3>8, <3>9
    <3>24. CASE thrifty'[c] = thrifty[c] /\ candidates'[c] = Tail(candidates[c]) /\
                serving'[c] = serving[c]
      BY <2>2, <3>24, <3>5, <3>6, <3>7, <3>8, <3>9
    <3> QED
      BY <3>1, <3>20, <3>21, <3>22, <3>23, <3>24
  <2> QED
    BY <2>1, <2>2
<1>6. ASSUME NEW c \in Clients, LastResort(c)
      PROVE  BudgetOk(d)'
  <2>1. CASE d # c
    <3>1. thrifty'[d] = thrifty[d] /\ candidates'[d] = candidates[d] /\ serving'[d] = serving[d]
      BY <1>6, <2>1 DEF LastResort, Admit, StartChoosing, End
    <3> QED
      BY <3>1
  <2>2. CASE d = c
    <3>5. c \in Requests /\ request[c] \in {"idle", "choosing"} => serving[c] = NoModel
      BY DEF HoldsOk
    <3>6. overBudget \in BOOLEAN /\ \A i \in 1 .. Len(LocalRanking) : LocalRanking[i] = LocalModel
      <4>1. Len(LocalRanking) = 1 /\ LocalRanking[1] = LocalModel
        BY TwoModels
      <4>2. \A i \in 1 .. 1 : i = 1
        OBVIOUS
      <4> QED
        BY <4>1, <4>2
    <3>7. request[c] = "choosing" => c \in Requests
      BY DEF HoldsOk, Clients
    <3>1. \/ thrifty'[c] = FALSE
          \/ thrifty'[c] = TRUE /\ candidates'[c] = LocalRanking /\ serving'[c] = NoModel
          \/ overBudget = FALSE /\ thrifty'[c] = FALSE
          \/ thrifty'[c] = thrifty[c] /\ candidates'[c] = candidates[c] /\ serving'[c] = serving[c]
          \/ thrifty'[c] = thrifty[c] /\ candidates'[c] = candidates[c] /\ serving'[c] = LocalModel
      BY <1>6, <2>2, <3>5, <3>6, <3>7 DEF LastResort, Admit, StartChoosing, End
    <3>20. CASE thrifty'[c] = FALSE
      BY <2>2, <3>20, <3>5, <3>6, <3>7
    <3>21. CASE thrifty'[c] = TRUE /\ candidates'[c] = LocalRanking /\ serving'[c] = NoModel
      BY <2>2, <3>21, <3>5, <3>6, <3>7
    <3>22. CASE overBudget = FALSE /\ thrifty'[c] = FALSE
      BY <2>2, <3>22, <3>5, <3>6, <3>7
    <3>23. CASE thrifty'[c] = thrifty[c] /\ candidates'[c] = candidates[c] /\ serving'[c] = serving[c]
      BY <2>2, <3>23, <3>5, <3>6, <3>7
    <3>24. CASE thrifty'[c] = thrifty[c] /\ candidates'[c] = candidates[c] /\ serving'[c] = LocalModel
      BY <2>2, <3>24, <3>5, <3>6, <3>7
    <3> QED
      BY <3>1, <3>20, <3>21, <3>22, <3>23, <3>24
  <2> QED
    BY <2>1, <2>2
<1>7. ASSUME NEW c \in Clients, Send(c)
      PROVE  BudgetOk(d)'
  BY <1>7 DEF Send
<1>8. ASSUME NEW c \in Clients, ProviderAnswers(c)
      PROVE  BudgetOk(d)'
  BY <1>8 DEF ProviderAnswers
<1>9. ASSUME NEW c \in Clients, Refused(c)
      PROVE  BudgetOk(d)'
  BY <1>9 DEF Refused
<1>10. ASSUME NEW c \in Clients, Complete(c)
      PROVE  BudgetOk(d)'
  BY <1>10 DEF Complete, GiveBack, End
<1>11. ASSUME NEW c \in Clients, BackedOff(c)
      PROVE  BudgetOk(d)'
  <2>1. CASE d # c
    <3>1. thrifty'[d] = thrifty[d] /\ candidates'[d] = candidates[d] /\ serving'[d] = serving[d]
      BY <1>11, <2>1 DEF BackedOff, GiveBack, StartChoosing, End
    <3> QED
      BY <3>1
  <2>2. CASE d = c
    <3>5. c \in Requests /\ request[c] \in {"idle", "choosing"} => serving[c] = NoModel
      BY DEF HoldsOk
    <3>6. overBudget \in BOOLEAN /\ \A i \in 1 .. Len(LocalRanking) : LocalRanking[i] = LocalModel
      <4>1. Len(LocalRanking) = 1 /\ LocalRanking[1] = LocalModel
        BY TwoModels
      <4>2. \A i \in 1 .. 1 : i = 1
        OBVIOUS
      <4> QED
        BY <4>1, <4>2
    <3>1. \/ thrifty'[c] = FALSE
          \/ thrifty'[c] = TRUE /\ candidates'[c] = LocalRanking /\ serving'[c] = NoModel
          \/ overBudget = FALSE /\ thrifty'[c] = FALSE
      BY <1>11, <2>2, <3>5, <3>6 DEF BackedOff, GiveBack, StartChoosing, End
    <3>20. CASE thrifty'[c] = FALSE
      BY <2>2, <3>20, <3>5, <3>6
    <3>21. CASE thrifty'[c] = TRUE /\ candidates'[c] = LocalRanking /\ serving'[c] = NoModel
      BY <2>2, <3>21, <3>5, <3>6
    <3>22. CASE overBudget = FALSE /\ thrifty'[c] = FALSE
      BY <2>2, <3>22, <3>5, <3>6
    <3> QED
      BY <3>1, <3>20, <3>21, <3>22
  <2> QED
    BY <2>1, <2>2
<1>12. ASSUME NEW c \in Clients, CancelRequest(c)
      PROVE  BudgetOk(d)'
  BY <1>12 DEF CancelRequest, GiveBack, End
<1>13. ASSUME NEW c \in Clients, CallDirect(c)
      PROVE  BudgetOk(d)'
  <2>1. CASE d # c
    <3>1. thrifty'[d] = thrifty[d] /\ candidates'[d] = candidates[d] /\ serving'[d] = serving[d]
      BY <1>13, <2>1 DEF CallDirect, End
    <3> QED
      BY <3>1
  <2>2. CASE d = c
    BY <1>13, <2>2 DEF CallDirect
  <2> QED
    BY <2>1, <2>2
<1>14. ASSUME NEW c \in Clients, DirectReturns(c)
      PROVE  BudgetOk(d)'
  BY <1>14 DEF DirectReturns, End
<1>15. ASSUME NEW c \in Clients, OpenStream(c)
      PROVE  BudgetOk(d)'
  BY <1>15 DEF OpenStream
<1>16. ASSUME NEW c \in Clients, ReadChunk(c)
      PROVE  BudgetOk(d)'
  BY <1>16 DEF ReadChunk
<1>17. ASSUME NEW c \in Clients, EndOfStream(c)
      PROVE  BudgetOk(d)'
  BY <1>17 DEF EndOfStream
<1>18. ASSUME NEW c \in Clients, NextItem(c)
      PROVE  BudgetOk(d)'
  <2>1. CASE d # c
    <3>1. thrifty'[d] = thrifty[d] /\ candidates'[d] = candidates[d] /\ serving'[d] = serving[d]
      BY <1>18, <2>1 DEF NextItem, End, Streaming
    <3> QED
      BY <3>1
  <2>2. CASE d = c
    <3>1. \/ thrifty'[c] = FALSE
          \/ thrifty'[c] = thrifty[c] /\ candidates'[c] = candidates[c] /\ serving'[c] = serving[c]
      BY <1>18, <2>2 DEF NextItem, End, Streaming
    <3>20. CASE thrifty'[c] = FALSE
      BY <2>2, <3>20
    <3>21. CASE thrifty'[c] = thrifty[c] /\ candidates'[c] = candidates[c] /\ serving'[c] = serving[c]
      BY <2>2, <3>21
    <3> QED
      BY <3>1, <3>20, <3>21
  <2> QED
    BY <2>1, <2>2
<1>19. ASSUME NEW c \in Clients, AbandonStream(c)
      PROVE  BudgetOk(d)'
  BY <1>19 DEF AbandonStream, End
<1>20. CASE PingReturns
  BY <1>20 DEF PingReturns
<1>21. CASE UNCHANGED providerVars
  BY <1>21 DEF providerVars
<1> QED
  BY <1>1, <1>2, <1>3, <1>4, <1>5, <1>6, <1>7, <1>8, <1>9, <1>10, <1>11, <1>12, <1>13,
     <1>14, <1>15, <1>16, <1>17, <1>18, <1>19, <1>20, <1>21
     DEF ProviderNext

\* The requests a provider serves.
Users(p) == {c \in Requests : serving[c] = p}

\* How the slots move: a request takes one, gives it back, or loses it.
Takes(c, p) ==
    /\ serving[c] = NoModel /\ slots[p] < MaxSlots
    /\ slots' = [slots EXCEPT ![p] = @ + 1] /\ serving' = [serving EXCEPT ![c] = p] /\ UNCHANGED leaked

\* It gives its slot back.
Gives(c) == serving[c] \in Models /\ GiveBack(c) /\ UNCHANGED leaked

\* It is cancelled where nothing gives the slot back: the slot is leaked.
Loses(c) ==
    /\ serving[c] \in Models /\ UNCHANGED slots
    /\ leaked' = [leaked EXCEPT ![serving[c]] = @ + 1] /\ serving' = [serving EXCEPT ![c] = NoModel]

\* No slot moves.
Stay == UNCHANGED <<slots, leaked>> /\ \A c \in Requests : serving'[c] = serving[c]

\* What a step does to the slots.
SlotMove ==
    \/ Stay
    \/ \E c \in Requests : Gives(c) \/ Loses(c) \/ \E p \in Models : Takes(c, p)

\* Every step moves one slot at most.
LEMMA SlotMoves ==
    ASSUME ProviderInv, [ProviderNext]_providerVars
    PROVE  SlotMove
<1> USE ProvidersAssumption, TwoModels
        DEF ProviderInv, ProviderTypes, ProviderTypeOK, Holding, Stages, ClientsInv,
            healthVars, limitVars, requestVars, streamVars
<1>1. ASSUME NEW p \in Models, CooldownPasses(p)
      PROVE  SlotMove
  <2>1. UNCHANGED <<slots, leaked, serving>>
    BY <1>1 DEF CooldownPasses, limitVars, requestVars
  <2> QED
    BY <2>1 DEF SlotMove, Stay
<1>2. ASSUME NEW p \in Models, MinutePasses(p)
      PROVE  SlotMove
  <2>1. UNCHANGED <<slots, leaked, serving>>
    BY <1>2 DEF MinutePasses, limitVars, requestVars
  <2> QED
    BY <2>1 DEF SlotMove, Stay
<1>3. ASSUME NEW p \in Models, PingProvider(p)
      PROVE  SlotMove
  <2>1. UNCHANGED <<slots, leaked, serving>>
    BY <1>3 DEF PingProvider, limitVars, requestVars
  <2> QED
    BY <2>1 DEF SlotMove, Stay
<1>4. ASSUME NEW c \in Clients, NewRequest(c)
      PROVE  SlotMove
  <2>1. UNCHANGED <<slots, leaked, serving>>
    BY <1>4 DEF NewRequest, limitVars, requestVars
  <2> QED
    BY <2>1 DEF SlotMove, Stay
<1>5. ASSUME NEW c \in Clients, Choose(c)
      PROVE  SlotMove
  <2>1. c \in Requests /\ HoldsOk(c) /\ request[c] = "choosing"
    <3>1. HoldsOk(c)
      BY DEF ClientsInv
    <3> QED
      BY <1>5, <3>1 DEF Choose, HoldsOk, Clients
  <2>2. Head(candidates[c]) \in Models
    <3>1. candidates[c] \in Seq(Models) /\ candidates[c] # <<>>
      BY <1>5 DEF Choose
    <3> QED
      BY <3>1
  <2>3. UNCHANGED leaked
    BY <1>5 DEF Choose
  <2>4. CASE Admit(c, Head(candidates[c]))
    <3>1. serving[c] = NoModel
      BY <2>1 DEF HoldsOk, Holding, Stages
    <3>2. CASE WithinLimits(Head(candidates[c]))
      <4>1. Takes(c, Head(candidates[c]))
        BY <2>3, <2>4, <3>1, <3>2 DEF Admit, Takes, WithinLimits
      <4> QED
        BY <2>1, <2>2, <4>1 DEF SlotMove
    <3>3. CASE ~WithinLimits(Head(candidates[c]))
      BY <2>3, <2>4, <3>3 DEF Admit, SlotMove, Stay
    <3> QED
      BY <3>2, <3>3
  <2>5. CASE UNCHANGED <<slots, serving>>
    BY <2>3, <2>5 DEF SlotMove, Stay
  <2> QED
    BY <1>5, <2>4, <2>5 DEF Choose
<1>6. ASSUME NEW c \in Clients, LastResort(c)
      PROVE  SlotMove
  <2>1. c \in Requests /\ HoldsOk(c) /\ request[c] = "choosing"
    <3>1. HoldsOk(c)
      BY DEF ClientsInv
    <3> QED
      BY <1>6, <3>1 DEF LastResort, HoldsOk, Clients
  <2>2. LocalModel \in Models
    BY TwoModels
  <2>3. UNCHANGED leaked
    BY <1>6 DEF LastResort
  <2>4. CASE Admit(c, LocalModel)
    <3>1. serving[c] = NoModel
      BY <2>1 DEF HoldsOk, Holding, Stages
    <3>2. CASE WithinLimits(LocalModel)
      <4>1. Takes(c, LocalModel)
        BY <2>3, <2>4, <3>1, <3>2 DEF Admit, Takes, WithinLimits
      <4> QED
        BY <2>1, <2>2, <4>1 DEF SlotMove
    <3>3. CASE ~WithinLimits(LocalModel)
      BY <2>3, <2>4, <3>3 DEF Admit, SlotMove, Stay
    <3> QED
      BY <3>2, <3>3
  <2>5. CASE UNCHANGED <<slots, serving>>
    BY <2>3, <2>5 DEF SlotMove, Stay
  <2> QED
    BY <1>6, <2>4, <2>5 DEF LastResort
<1>7. ASSUME NEW c \in Clients, Send(c)
      PROVE  SlotMove
  <2>1. UNCHANGED <<slots, leaked, serving>>
    BY <1>7 DEF Send, limitVars, requestVars
  <2> QED
    BY <2>1 DEF SlotMove, Stay
<1>8. ASSUME NEW c \in Clients, ProviderAnswers(c)
      PROVE  SlotMove
  <2>1. UNCHANGED <<slots, leaked, serving>>
    BY <1>8 DEF ProviderAnswers, limitVars, requestVars
  <2> QED
    BY <2>1 DEF SlotMove, Stay
<1>9. ASSUME NEW c \in Clients, Refused(c)
      PROVE  SlotMove
  <2>1. UNCHANGED <<slots, leaked, serving>>
    BY <1>9 DEF Refused, limitVars, requestVars
  <2> QED
    BY <2>1 DEF SlotMove, Stay
<1>10. ASSUME NEW c \in Clients, Complete(c)
      PROVE  SlotMove
  <2>1. c \in Requests /\ HoldsOk(c) /\ request[c] = "completing"
    <3>1. HoldsOk(c)
      BY DEF ClientsInv
    <3> QED
      BY <1>10, <3>1 DEF Complete, HoldsOk, Clients
  <2>2. Gives(c)
    <3>1. serving[c] \in Models
      BY <2>1 DEF HoldsOk, Holding, Stages
    <3> QED
      BY <1>10, <3>1 DEF Complete, Gives
  <2> QED
    BY <2>1, <2>2 DEF SlotMove
<1>11. ASSUME NEW c \in Clients, BackedOff(c)
      PROVE  SlotMove
  <2>1. c \in Requests /\ HoldsOk(c) /\ request[c] = "backoff"
    <3>1. HoldsOk(c)
      BY DEF ClientsInv
    <3> QED
      BY <1>11, <3>1 DEF BackedOff, HoldsOk, Clients
  <2>2. Gives(c)
    <3>1. serving[c] \in Models
      BY <2>1 DEF HoldsOk, Holding, Stages
    <3> QED
      BY <1>11, <3>1 DEF BackedOff, Gives
  <2> QED
    BY <2>1, <2>2 DEF SlotMove
<1>12. ASSUME NEW c \in Clients, CancelRequest(c)
      PROVE  SlotMove
  <2>1. c \in Requests /\ HoldsOk(c) /\
        request[c] \in {"choosing", "starting", "calling", "completing", "backoff"}
    <3>1. HoldsOk(c)
      BY DEF ClientsInv
    <3> QED
      BY <1>12, <3>1 DEF CancelRequest, HoldsOk, Clients
  <2>2. CASE request[c] = "choosing"
    BY <1>12, <2>2 DEF CancelRequest, SlotMove, Stay
  <2>3. CASE request[c] # "choosing"
    <3>1. serving[c] \in Models
      BY <2>1, <2>3 DEF HoldsOk, Holding, Stages
    <3>2. CASE request[c] = "starting"
      <4>1. Loses(c)
        BY <1>12, <3>1, <3>2 DEF CancelRequest, Loses
      <4> QED
        BY <2>1, <4>1 DEF SlotMove
    <3>3. CASE request[c] # "starting"
      <4>1. Gives(c)
        BY <1>12, <2>3, <3>1, <3>3 DEF CancelRequest, Gives
      <4> QED
        BY <2>1, <4>1 DEF SlotMove
    <3> QED
      BY <3>2, <3>3
  <2> QED
    BY <2>2, <2>3
<1>13. ASSUME NEW c \in Clients, CallDirect(c)
      PROVE  SlotMove
  <2>1. c \notin Requests /\ UNCHANGED <<slots, leaked>>
    BY <1>13 DEF CallDirect
  <2>2. \A e \in Requests : serving'[e] = serving[e]
    <3>1. \A e \in Requests : e # c /\ e \in Clients
      BY <2>1 DEF Clients
    <3> QED
      BY <1>13, <3>1 DEF CallDirect
  <2> QED
    BY <2>1, <2>2 DEF SlotMove, Stay
<1>14. ASSUME NEW c \in Clients, DirectReturns(c)
      PROVE  SlotMove
  <2>1. c \notin Requests /\ UNCHANGED <<slots, leaked>>
    BY <1>14 DEF DirectReturns
  <2>2. \A e \in Requests : serving'[e] = serving[e]
    <3>1. \A e \in Requests : e # c /\ e \in Clients
      BY <2>1 DEF Clients
    <3> QED
      BY <1>14, <3>1 DEF DirectReturns
  <2> QED
    BY <2>1, <2>2 DEF SlotMove, Stay
<1>15. ASSUME NEW c \in Clients, OpenStream(c)
      PROVE  SlotMove
  <2>1. UNCHANGED <<slots, leaked, serving>>
    BY <1>15 DEF OpenStream, limitVars, requestVars
  <2> QED
    BY <2>1 DEF SlotMove, Stay
<1>16. ASSUME NEW c \in Clients, ReadChunk(c)
      PROVE  SlotMove
  <2>1. UNCHANGED <<slots, leaked, serving>>
    BY <1>16 DEF ReadChunk, limitVars, requestVars
  <2> QED
    BY <2>1 DEF SlotMove, Stay
<1>17. ASSUME NEW c \in Clients, EndOfStream(c)
      PROVE  SlotMove
  <2>1. UNCHANGED <<slots, leaked, serving>>
    BY <1>17 DEF EndOfStream, limitVars, requestVars
  <2> QED
    BY <2>1 DEF SlotMove, Stay
<1>18. ASSUME NEW c \in Clients, NextItem(c)
      PROVE  SlotMove
  <2>1. UNCHANGED <<slots, leaked, serving>>
    BY <1>18 DEF NextItem, limitVars, requestVars
  <2> QED
    BY <2>1 DEF SlotMove, Stay
<1>19. ASSUME NEW c \in Clients, AbandonStream(c)
      PROVE  SlotMove
  <2>1. UNCHANGED <<slots, leaked, serving>>
    BY <1>19 DEF AbandonStream, limitVars, requestVars
  <2> QED
    BY <2>1 DEF SlotMove, Stay
<1>20. CASE PingReturns
  <2>1. UNCHANGED <<slots, leaked, serving>>
    BY <1>20 DEF PingReturns, limitVars, requestVars
  <2> QED
    BY <2>1 DEF SlotMove, Stay
<1>21. CASE UNCHANGED providerVars
  BY <1>21 DEF providerVars, SlotMove, Stay
<1> QED
  BY <1>1, <1>2, <1>3, <1>4, <1>5, <1>6, <1>7, <1>8, <1>9, <1>10, <1>11, <1>12, <1>13,
     <1>14, <1>15, <1>16, <1>17, <1>18, <1>19, <1>20, <1>21
     DEF ProviderNext

\* The users of a provider can be counted.
LEMMA CardOfUsers ==
    ASSUME NEW p
    PROVE  IsFiniteSet(Users(p)) /\ Cardinality(Users(p)) \in Nat
<1>1. Users(p) \subseteq Requests
  BY DEF Users
<1> QED
  BY <1>1, FS_Subset, FS_CardinalityType, ProvidersAssumption

\* A request that is given a provider is one user more of it, and of no other.
LEMMA UserJoins ==
    ASSUME ProviderInv, NEW c \in Requests, NEW p \in Models, serving[c] = NoModel,
           serving' = [serving EXCEPT ![c] = p]
    PROVE  /\ Cardinality(Users(p)') = Cardinality(Users(p)) + 1
           /\ \A q \in Models \ {p} : Users(q)' = Users(q)
<1>1. serving \in [Clients -> Models \cup {NoModel}] /\ c \in Clients /\ p # NoModel
  BY TwoModels DEF ProviderInv, ProviderTypes, ProviderTypeOK, Clients
<1>2. \A e \in Requests : e \in Clients
  BY DEF Clients
<1>3. Users(p)' = Users(p) \cup {c} /\ c \notin Users(p)
  BY <1>1, <1>2 DEF Users
<1>4. \A q \in Models \ {p} : Users(q)' = Users(q)
  <2>1. ASSUME NEW q \in Models, q # p, NEW e \in Requests
        PROVE  serving'[e] = q <=> serving[e] = q
    <3>1. q # NoModel
      BY TwoModels
    <3> QED
      BY <1>1, <1>2, <2>1, <3>1
  <2> QED
    BY <2>1 DEF Users
<1> QED
  BY <1>3, <1>4, CardOfUsers, FS_AddElement

\* One that gives it up was a user, and is one less.
LEMMA UserLeaves ==
    ASSUME ProviderInv, NEW c \in Requests, serving[c] \in Models,
           serving' = [serving EXCEPT ![c] = NoModel]
    PROVE  /\ Cardinality(Users(serving[c])) > 0
           /\ \A p \in Models :
                 Cardinality(Users(p)') = Cardinality(Users(p)) - (IF p = serving[c] THEN 1 ELSE 0)
<1>1. serving \in [Clients -> Models \cup {NoModel}] /\ c \in Clients /\ NoModel \notin Models
  BY TwoModels DEF ProviderInv, ProviderTypes, ProviderTypeOK, Clients
<1>2. \A e \in Requests : e \in Clients
  BY DEF Clients
<1>3. c \in Users(serving[c])
  BY DEF Users
<1>4. \A p \in Models : Users(p)' = Users(p) \ {c}
  BY <1>1, <1>2 DEF Users
<1>5. Cardinality(Users(serving[c]) \ {c}) = Cardinality(Users(serving[c])) - 1
  BY <1>3, CardOfUsers, FS_RemoveElement
<1>6. Cardinality(Users(serving[c]) \ {c}) \in Nat /\ Cardinality(Users(serving[c])) \in Nat
  BY CardOfUsers, FS_RemoveElement, FS_CardinalityType
<1>7. ASSUME NEW p \in Models
      PROVE  Cardinality(Users(p)') = Cardinality(Users(p)) - (IF p = serving[c] THEN 1 ELSE 0)
  <2>1. CASE p = serving[c]
    BY <1>4, <1>5, <2>1
  <2>2. CASE p # serving[c]
    <3>1. c \notin Users(p)
      BY <2>2 DEF Users
    <3>2. Users(p)' = Users(p)
      BY <1>4, <3>1
    <3>3. Cardinality(Users(p)) \in Nat
      BY CardOfUsers
    <3> QED
      BY <2>2, <3>2, <3>3
  <2> QED
    BY <2>1, <2>2
<1> QED
  BY <1>5, <1>6, <1>7

\* Slots stay users and leaks together, and within MaxSlots.
LEMMA SlotsKept ==
    ASSUME ProviderInv, [ProviderNext]_providerVars
    PROVE  slots' \in [Models -> Nat] /\ leaked' \in [Models -> Nat] /\ SlotsAreExact'
<1> USE ProvidersAssumption
<1> DEFINE Exact(p) == slots[p] = Cardinality(Users(p)) + leaked[p] /\ slots[p] <= MaxSlots
<1>0. slots \in [Models -> Nat] /\ leaked \in [Models -> Nat] /\ \A p \in Models : Exact(p)
  BY DEF ProviderInv, ProviderTypes, SlotsAreExact, Users
<1>1. SUFFICES slots' \in [Models -> Nat] /\ leaked' \in [Models -> Nat] /\ \A p \in Models : Exact(p)'
  BY DEF SlotsAreExact, Users
<1>2. CASE Stay
  <2>1. \A p \in Models : Users(p)' = Users(p)
    BY <1>2 DEF Stay, Users
  <2> QED
    BY <1>0, <1>2, <2>1 DEF Stay
<1>3. ASSUME NEW c \in Requests, Gives(c)
      PROVE  slots' \in [Models -> Nat] /\ leaked' \in [Models -> Nat] /\ \A p \in Models : Exact(p)'
  <2>1. PICK m \in Models : m = serving[c]
    BY <1>3 DEF Gives
  <2>2. serving' = [serving EXCEPT ![c] = NoModel] /\ UNCHANGED leaked /\
        slots' = [slots EXCEPT ![m] = Max({@ - 1, 0})]
    BY <1>3, <2>1 DEF Gives, GiveBack
  <2>3. /\ Cardinality(Users(m)) > 0
        /\ \A p \in Models : Cardinality(Users(p)') = Cardinality(Users(p)) - (IF p = m THEN 1 ELSE 0)
    BY <2>1, <2>2, UserLeaves
  <2>4. \A p \in Models : Cardinality(Users(p)) \in Nat
    BY CardOfUsers
  <2>5. slots[m] \in Nat /\ leaked[m] \in Nat /\ slots[m] >= 1 /\ slots[m] - 1 \in Nat
    <3>1. slots[m] \in Nat /\ leaked[m] \in Nat /\ slots[m] = Cardinality(Users(m)) + leaked[m]
      BY <1>0
    <3>2. Cardinality(Users(m)) \in Nat
      BY <2>4
    <3> QED
      BY <2>3, <3>1, <3>2
  <2>6. Max({slots[m] - 1, 0}) = slots[m] - 1
    <3>1. Max({slots[m] - 1, 0}) = IF slots[m] - 1 >= 0 THEN slots[m] - 1 ELSE 0
      BY <2>5, GreatestOfTwo
    <3> QED
      BY <2>5, <3>1
  <2>7. slots' = [slots EXCEPT ![m] = slots[m] - 1]
    BY <2>2, <2>6
  <2>8. slots' \in [Models -> Nat]
    BY <1>0, <2>5, <2>7
  <2>9. ASSUME NEW p \in Models PROVE Exact(p)'
    <3>1. slots[p] \in Nat /\ leaked[p] \in Nat /\ Cardinality(Users(p)) \in Nat /\ Exact(p)
      BY <1>0, <2>4
    <3>2. CASE p = m
      <4>1. slots'[p] = slots[p] - 1 /\ Cardinality(Users(p)') = Cardinality(Users(p)) - 1 /\
            leaked'[p] = leaked[p]
        BY <1>0, <2>2, <2>3, <2>7, <3>2
      <4> QED
        BY <3>1, <4>1
    <3>3. CASE p # m
      <4>1. slots'[p] = slots[p] /\ Cardinality(Users(p)') = Cardinality(Users(p)) - 0 /\
            leaked'[p] = leaked[p]
        BY <1>0, <2>2, <2>3, <2>7, <3>3
      <4> QED
        BY <3>1, <4>1
    <3> QED
      BY <3>2, <3>3
  <2> QED
    BY <1>0, <2>2, <2>8, <2>9
<1>4. ASSUME NEW c \in Requests, Loses(c)
      PROVE  slots' \in [Models -> Nat] /\ leaked' \in [Models -> Nat] /\ \A p \in Models : Exact(p)'
  <2>1. PICK m \in Models : m = serving[c]
    BY <1>4 DEF Loses
  <2>2. serving' = [serving EXCEPT ![c] = NoModel] /\ UNCHANGED slots /\
        leaked' = [leaked EXCEPT ![m] = @ + 1]
    BY <1>4, <2>1 DEF Loses
  <2>3. \A p \in Models : Cardinality(Users(p)') = Cardinality(Users(p)) - (IF p = m THEN 1 ELSE 0)
    BY <2>1, <2>2, UserLeaves
  <2>4. leaked' \in [Models -> Nat]
    BY <1>0, <2>2
  <2>5. ASSUME NEW p \in Models PROVE Exact(p)'
    <3>1. slots[p] \in Nat /\ leaked[p] \in Nat /\ Cardinality(Users(p)) \in Nat /\ Exact(p)
      BY <1>0, CardOfUsers
    <3>2. CASE p = m
      <4>1. slots'[p] = slots[p] /\ Cardinality(Users(p)') = Cardinality(Users(p)) - 1 /\
            leaked'[p] = leaked[p] + 1
        BY <1>0, <2>2, <2>3, <3>2
      <4> QED
        BY <3>1, <4>1
    <3>3. CASE p # m
      <4>1. slots'[p] = slots[p] /\ Cardinality(Users(p)') = Cardinality(Users(p)) - 0 /\
            leaked'[p] = leaked[p]
        BY <1>0, <2>2, <2>3, <3>3
      <4> QED
        BY <3>1, <4>1
    <3> QED
      BY <3>2, <3>3
  <2> QED
    BY <1>0, <2>2, <2>4, <2>5
<1>5. ASSUME NEW c \in Requests, NEW m \in Models, Takes(c, m)
      PROVE  slots' \in [Models -> Nat] /\ leaked' \in [Models -> Nat] /\ \A p \in Models : Exact(p)'
  <2>1. /\ serving[c] = NoModel /\ serving' = [serving EXCEPT ![c] = m] /\ UNCHANGED leaked
        /\ slots[m] < MaxSlots /\ slots' = [slots EXCEPT ![m] = @ + 1]
    BY <1>5 DEF Takes
  <2>2. Cardinality(Users(m)') = Cardinality(Users(m)) + 1 /\
        \A q \in Models \ {m} : Users(q)' = Users(q)
    BY <2>1, UserJoins
  <2>3. slots' \in [Models -> Nat]
    BY <1>0, <2>1
  <2>4. ASSUME NEW p \in Models PROVE Exact(p)'
    <3>1. slots[p] \in Nat /\ leaked[p] \in Nat /\ Cardinality(Users(p)) \in Nat /\ Exact(p)
      BY <1>0, CardOfUsers
    <3>2. CASE p = m
      <4>1. slots'[p] = slots[p] + 1 /\ Cardinality(Users(p)') = Cardinality(Users(p)) + 1 /\
            leaked'[p] = leaked[p] /\ slots[p] < MaxSlots
        BY <1>0, <2>1, <2>2, <3>2
      <4> QED
        BY <3>1, <4>1
    <3>3. CASE p # m
      <4>1. slots'[p] = slots[p] /\ Cardinality(Users(p)') = Cardinality(Users(p)) /\
            leaked'[p] = leaked[p]
        BY <1>0, <2>1, <2>2, <3>3
      <4> QED
        BY <3>1, <4>1
    <3> QED
      BY <3>2, <3>3
  <2> QED
    BY <1>0, <2>1, <2>3, <2>4
<1> QED
  BY <1>2, <1>3, <1>4, <1>5, SlotMoves DEF SlotMove

\* A registry nobody has used is in the invariant.
LEMMA ProvidersStart == ASSUME ProviderInit PROVE ProviderInv
<1> USE ProvidersAssumption, TwoModels DEF ProviderInit
<1>1. NoModel \notin Models /\ 0 \in 0 .. MaxStrikes /\ 0 \in 0 .. MaxSends + 1 /\ 0 \in Nat /\
      0 \in 0 .. StreamLength + 1
  OBVIOUS
<1>2. health \in [Models -> {"ONLINE", "COOLDOWN", "COOLED", "OFFLINE"}] /\
      strikes \in [Models -> 0 .. MaxStrikes]
  BY <1>1
<1>3. serving \in [Clients -> Models \cup {NoModel}] /\ retries \in [Clients -> 0 .. MaxSends + 1]
  BY <1>1
<1>4. /\ slots \in [Models -> Nat] /\ leaked \in [Models -> Nat]
      /\ request \in [Clients -> Stages]
      /\ candidates \in [Clients -> Seq(Models)] /\ thrifty \in [Clients -> BOOLEAN]
      /\ sends \in [Clients -> Nat] /\ probed \in Models \cup {NoModel} /\ overBudget \in BOOLEAN
  <2>1. <<>> \in Seq(Models)
    OBVIOUS
  <2> QED
    BY <1>1, <2>1 DEF Stages
<1>5. items \in Seq({"chunk", "error", "end"}) /\ gone \in 0 .. StreamLength + 1 /\
      received \in Nat /\ Len(items) = 0
  BY <1>1
<1>6. ProviderTypes
  BY <1>2, <1>3, <1>4, <1>5 DEF ProviderTypes, ProviderTypeOK
<1>7. ClientsInv
  BY <1>1 DEF ClientsInv, HoldsOk, DirectOk, SendsOk, BudgetOk, Holding, Stages
<1>8. SlotsAreExact
  <2>1. \A p \in Models : {c \in Requests : serving[c] = p} = {}
    BY <1>1 DEF Clients
  <2>2. \A p \in Models : slots[p] = 0 /\ leaked[p] = 0
    OBVIOUS
  <2>3. MaxSlots \in Nat
    BY <1>1
  <2>4. Cardinality({}) = 0
    BY FS_EmptySet
  <2> HIDE DEF ProviderInit
  <2>5. ASSUME NEW p \in Models
        PROVE slots[p] = Cardinality({c \in Requests : serving[c] = p}) + leaked[p] /\
              slots[p] <= MaxSlots
    <3>1. Cardinality({c \in Requests : serving[c] = p}) = 0
      BY <2>1, <2>4
    <3>2. slots[p] = 0 /\ leaked[p] = 0
      BY <2>2
    <3>3. 0 = 0 + 0 /\ 0 <= MaxSlots
      BY <2>3
    <3> QED
      BY <3>1, <3>2, <3>3
  <2> QED
    BY <2>5 DEF SlotsAreExact
<1>9. HealthMatchesStrikes
  BY DEF HealthMatchesStrikes
<1>10. StreamInv
  <2>1. gone = 0 /\ received = 0 /\ Len(items) = 0 /\ gone # StreamLength + 1
    BY <1>5
  <2>2. received + Len(items) = gone /\ \A i \in 1 .. Len(items) : items[i] = "chunk"
    BY <2>1
  <2> QED
    BY <2>1, <2>2 DEF StreamInv
<1> QED
  BY <1>6, <1>7, <1>8, <1>9, <1>10 DEF ProviderInv

\* Every step keeps it.
LEMMA ProviderStepKeeps == ASSUME ProviderInv, [ProviderNext]_providerVars PROVE ProviderInv'
<1>1. ProviderTypes' /\ HealthMatchesStrikes' /\ StreamInv' /\ SlotsAreExact'
  BY HealthKept, StreamKept, RequestTyped, ThriftyTyped, CandidatesTyped, SendsTyped,
     ServingTyped, ProbedTyped,
     OverBudgetTyped, RetriesTyped, SlotsKept
     DEF ProviderTypes, ProviderTypeOK
<1>2. ClientsInv'
  BY HoldsKept, DirectKept, SendsKept, BudgetKept DEF ClientsInv
<1> QED
  BY <1>1, <1>2 DEF ProviderInv

\* The invariant is more than what ProviderSafe says.
LEMMA ProvidersAreSafe == ASSUME ProviderInv PROVE ProviderSafe
<1> USE ProvidersAssumption
<1>1. ProviderTypeOK /\ SlotsAreExact /\ HealthMatchesStrikes
  BY DEF ProviderInv, ProviderTypes
<1>2. SendsAreBounded
  <2>1. ASSUME NEW c \in Clients PROVE sends[c] <= MaxSends + 1
    <3>1. SendsOk(c) /\ sends[c] \in Nat /\ retries[c] \in Nat
      BY DEF ProviderInv, ClientsInv, ProviderTypes, ProviderTypeOK
    <3> QED
      BY <3>1 DEF SendsOk
  <2> QED
    BY <2>1 DEF SendsAreBounded
<1>3. BudgetRoutesLocal
  BY DEF ProviderInv, ClientsInv, BudgetOk, BudgetRoutesLocal, LocalModels, Clients
<1>4. StreamIsWhole
  <2>1. ASSUME items # <<>>
        PROVE  /\ Head(items) = "end" => received = StreamLength
               /\ Head(items) = "error" => received < gone /\ \A i \in DOMAIN items : items[i] # "chunk"
    <3>1. /\ items \in Seq({"chunk", "error", "end"}) /\ gone \in 0 .. StreamLength + 1 /\
             received \in Nat /\ StreamInv
      BY DEF ProviderInv, ProviderTypes
    <3>2. Len(items) \in Nat /\ Len(items) > 0 /\ Head(items) = items[1] /\
          DOMAIN items = 1 .. Len(items) /\ 1 \in 1 .. Len(items)
      BY <2>1, <3>1
    <3>3. CASE gone <= StreamLength
      <4>1. Head(items) = "chunk"
        BY <3>1, <3>2, <3>3 DEF StreamInv
      <4> QED
        BY <4>1
    <3>4. CASE /\ Len(items) > 0 /\ items[Len(items)] = "end" /\
                  received + Len(items) = StreamLength + 1
               /\ \A i \in 1 .. Len(items) - 1 : items[i] = "chunk"
      <4>1. CASE Len(items) = 1
        BY <3>1, <3>2, <3>4, <4>1
      <4>2. CASE Len(items) # 1
        <5>1. 1 \in 1 .. Len(items) - 1
          BY <3>2, <4>2
        <5>2. Head(items) = "chunk"
          BY <3>2, <3>4, <5>1
        <5> QED
          BY <5>2
      <4> QED
        BY <4>1, <4>2
    <3>5. CASE /\ gone = StreamLength + 1
               /\ Len(items) > 1 /\ items[Len(items)] = "end" /\ items[Len(items) - 1] = "error"
               /\ received + Len(items) < StreamLength + 2
               /\ \A i \in 1 .. Len(items) - 2 : items[i] = "chunk"
      <4>1. CASE Len(items) = 2
        <5>1. items[2] = "end" /\ items[1] = "error" /\ \A i \in 1 .. 2 : i = 1 \/ i = 2
          BY <3>5, <4>1
        <5>2. received < gone
          BY <3>1, <3>5, <4>1
        <5>3. \A i \in DOMAIN items : items[i] # "chunk"
          BY <3>2, <4>1, <5>1
        <5> QED
          BY <3>2, <5>1, <5>2, <5>3
      <4>2. CASE Len(items) # 2
        <5>1. 1 \in 1 .. Len(items) - 2
          BY <3>2, <3>5, <4>2
        <5>2. Head(items) = "chunk"
          BY <3>2, <3>5, <5>1
        <5> QED
          BY <5>2
      <4> QED
        BY <4>1, <4>2
    <3> QED
      BY <3>1, <3>3, <3>4, <3>5 DEF StreamInv
  <2> QED
    BY <2>1 DEF StreamIsWhole
<1> QED
  BY <1>1, <1>2, <1>3, <1>4 DEF ProviderSafe

-----------------------------------------------------------------------------
(* Personal facts.                                                         *)

\* Updates of the personal facts that overlap, are forgotten and purged.
FactsSpec == FactsInit /\ [][FactsNext]_factVars

\* What an update read was of its fact, and may be replaced by it.
FactCallsInv ==
    \A u \in Updates :
        /\ factStep[u] = "write" => stated[u] \in Statements
        /\ matched[u] # NoRow =>
             Matches(stated[u].fact, matched[u]) /\ MayReplace(matched[u], stated[u])

\* A version that was not overtaken has one row.
OneRowPerVersion ==
    \A id \in MemoryIds \ overtaken : \A r, q \in Of(id) : r.version = q.version => r = q

\* The inductive invariant: with what PersonalFactsSafe says, what updates under
\* way carry and that versions are not repeated.
FactsInv ==
    /\ FactsTypeOK /\ FactCallsInv /\ OneRowPerVersion
    /\ LatestIsActive /\ ForgottenStays /\ KnownOnce /\ LocksHold

\* A lock that allows the next version allows the one after it.
LEMMA LockIsPassedOn ==
    ASSUME NEW r, NEW q, NEW s, MayReplace(r, q), MayReplace(q, s)
    PROVE  MayReplace(r, s)
BY DEF MayReplace

\* A new version is an active row of its fact.
LEMMA NewVersionTyped ==
    ASSUME NEW id \in MemoryIds, NEW v \in 1 .. MaxVersion, NEW s \in Statements
    PROVE  /\ NewVersion(id, v, s) \in Versions
           /\ NewVersion(id, v, s).id = id /\ NewVersion(id, v, s).version = v
           /\ NewVersion(id, v, s).fact = s.fact /\ NewVersion(id, v, s).lock = s.lock
           /\ NewVersion(id, v, s).is = "active"
BY DEF NewVersion, Versions, Statements

\* The requests only.
LEMMA DoneKeepsPending ==
    ASSUME FactsInv, NEW u \in Updates, Done(u)
    PROVE  /\ FactCallsInv'
           /\ factStep' \in [Updates -> {"idle", "write"}]
           /\ stated' \in [Updates -> Statements \cup {NoRow}]
           /\ matched' \in [Updates -> Versions \cup {NoRow}]
BY DEF FactsInv, FactsTypeOK, FactCallsInv, Done

\* Reading the latest version keeps the invariant ...
LEMMA FindFactKeeps ==
    ASSUME FactsInv, NEW u \in Updates, NEW s \in Statements, FindMatch(u, s)
    PROVE  FactsInv'
<1> USE NoRowAssumption
<1>1. matched'[u] # NoRow => matched'[u] \in versions /\ Matches(s.fact, matched'[u])
                             /\ MayReplace(matched'[u], s)
  BY DEF FactsInv, FactsTypeOK, FindMatch, ActiveVersions
<1>2. FactsTypeOK'
  BY DEF FactsInv, FactsTypeOK, FindMatch, ActiveVersions
<1>3. FactCallsInv'
  BY <1>1 DEF FactsInv, FactsTypeOK, FactCallsInv, FindMatch
<1>4. (OneRowPerVersion /\ LatestIsActive /\ ForgottenStays /\ KnownOnce /\ LocksHold)'
  BY DEF FactsInv, FindMatch, OneRowPerVersion, LatestIsActive, ForgottenStays, KnownOnce,
         LocksHold, Of, ActiveVersions
<1> QED
  BY <1>2, <1>3, <1>4 DEF FactsInv

\* ... leaving it at that ...
LEMMA ClassifyKeeps ==
    ASSUME FactsInv, NEW u \in Updates, NEW f \in Facts, NEW isRule \in BOOLEAN,
           AutoClassify(u, f, isRule)
    PROVE  FactsInv'
<1>1. [fact |-> f, lock |-> IF isRule THEN "PINNED" ELSE "NORMAL"] \in Statements
  BY DEF Statements, Locks
<1> QED
  BY <1>1, FindFactKeeps DEF AutoClassify

\* ... the first version of a fact ...
LEMMA InsertFirstKeeps ==
    ASSUME FactsInv, NEW u \in Updates, InsertFirst(u)
    PROVE  FactsInv'
<1> USE FactAssumption
<1>1. PICK id \in MemoryIds :
        /\ Of(id) = {}
        /\ versions' = versions \cup {NewVersion(id, 1, stated[u])}
        /\ overtaken' = IF \E r \in ActiveVersions : Matches(stated[u].fact, r)
                         THEN overtaken \cup {id} ELSE overtaken
  BY DEF InsertFirst
<1> DEFINE new == NewVersion(id, 1, stated[u])
<1>2. stated[u] \in Statements
  BY DEF FactsInv, FactCallsInv, InsertFirst
<1>3. /\ new \in Versions /\ new.id = id /\ new.version = 1 /\ new.fact = stated[u].fact
      /\ new.lock = stated[u].lock /\ new.is = "active"
  BY <1>2, NewVersionTyped
<1> HIDE DEF new
<1>4. Of(id)' = {new}
  BY <1>1, <1>3 DEF Of, new
<1>5. \A j \in MemoryIds \ {id} : Of(j)' = Of(j)
  BY <1>1, <1>3 DEF Of, new
<1>6. ActiveVersions' = ActiveVersions \cup {new}
  BY <1>1, <1>3 DEF ActiveVersions, new
<1>7. overtaken' \subseteq overtaken \cup {id} /\ overtaken \subseteq overtaken'
  BY <1>1
<1>8. FactsTypeOK' /\ FactCallsInv'
  BY <1>1, <1>3, <1>7, DoneKeepsPending DEF FactsInv, FactsTypeOK, InsertFirst, new
<1>9. OneRowPerVersion'
  BY <1>4, <1>5, <1>7 DEF FactsInv, OneRowPerVersion
<1>10. LatestIsActive'
  <2> SUFFICES ASSUME NEW j \in MemoryIds \ overtaken', NEW r \in (ActiveVersions \cap Of(j))',
                      NEW q \in Of(j)'
               PROVE  q = r \/ (q.is # "active" /\ q.version < r.version)
    BY DEF LatestIsActive
  <2>1. CASE j = id
    BY <2>1, <1>4
  <2>2. CASE j # id
    <3>1. Of(j)' = Of(j) /\ new \notin Of(j)
      BY <2>2, <1>5, <1>3 DEF Of
    <3> QED
      BY <3>1, <1>6, <1>7 DEF FactsInv, LatestIsActive
  <2> QED
    BY <2>1, <2>2
<1>11. ForgottenStays'
  <2> SUFFICES ASSUME NEW j \in MemoryIds \ overtaken', NEW r \in Of(j)', r.is = "forgotten"
               PROVE  (ActiveVersions \cap Of(j))' = {}
    BY DEF ForgottenStays
  <2>1. j # id
    BY <1>3, <1>4
  <2>2. Of(j)' = Of(j) /\ new \notin Of(j)
    BY <2>1, <1>5, <1>3 DEF Of
  <2> QED
    BY <2>2, <1>6, <1>7 DEF FactsInv, ForgottenStays
<1>12. KnownOnce'
  <2> SUFFICES ASSUME NEW r \in ActiveVersions', NEW q \in ActiveVersions',
                      r.fact = q.fact, r.fact \notin Aliased, {r.id, q.id} \cap overtaken' = {}
               PROVE  r = q
    BY DEF KnownOnce
  <2>1. CASE r = new \/ q = new
    <3>1. id \notin overtaken'
      BY <1>3, <2>1
    <3>2. \A p \in ActiveVersions : ~Matches(stated[u].fact, p)
      BY <3>1, <1>1
    <3> QED
      BY <3>2, <2>1, <1>3, <1>6 DEF Matches
  <2>2. CASE r # new /\ q # new
    BY <2>2, <1>6, <1>7 DEF FactsInv, KnownOnce
  <2> QED
    BY <2>1, <2>2
<1>13. LocksHold'
  <2> SUFFICES ASSUME NEW j \in MemoryIds \ overtaken', NEW r \in Of(j)', NEW q \in Of(j)',
                      r.version < q.version
               PROVE  MayReplace(r, q)
    BY DEF LocksHold
  <2>1. CASE j = id
    BY <2>1, <1>3, <1>4
  <2>2. CASE j # id
    BY <2>2, <1>5, <1>7 DEF FactsInv, LocksHold
  <2> QED
    BY <2>1, <2>2
<1> QED
  BY <1>8, <1>9, <1>10, <1>11, <1>12, <1>13 DEF FactsInv

\* What becomes of a row when its version is replaced.
Replaced(rs, r) ==
    IF r \in rs THEN [r EXCEPT !.is = IF @ = "forgotten" THEN @ ELSE "replaced"] ELSE r

\* It keeps its fact, its version and its lock.
LEMMA ReplacedRow ==
    ASSUME NEW rs, NEW r \in Versions
    PROVE  /\ Replaced(rs, r) \in Versions
           /\ Replaced(rs, r).id = r.id /\ Replaced(rs, r).version = r.version
           /\ Replaced(rs, r).fact = r.fact /\ Replaced(rs, r).lock = r.lock
           /\ r \notin rs => Replaced(rs, r) = r
           /\ r \in rs => Replaced(rs, r).is # "active"
           /\ Replaced(rs, r).is = "forgotten" <=> r.is = "forgotten"
           /\ Replaced(rs, r).is = "active" => r.is = "active" /\ Replaced(rs, r) = r
<1>1. CASE r \in rs
  <2>1. CASE r.is = "forgotten"
    BY <1>1, <2>1 DEF Versions, Replaced
  <2>2. CASE r.is # "forgotten"
    BY <1>1, <2>2 DEF Versions, Replaced
  <2> QED
    BY <2>1, <2>2
<1>2. CASE r \notin rs
  BY <1>2 DEF Replaced
<1> QED
  BY <1>1, <1>2

\* ... a next version, whose predecessor is the latest one unless it was overtaken ...
LEMMA InsertNextKeeps ==
    ASSUME FactsInv, NEW u \in Updates, InsertNext(u)
    PROVE  FactsInv'
<1> USE FactAssumption, NoRowAssumption
<1> DEFINE m == matched[u]
           s == stated[u]
           rs == Current(m)
           new == NewVersion(m.id, m.version + 1, s)
<1>1. m \in Versions /\ m \in [id : MemoryIds, version : 1 .. MaxVersion, fact : Facts,
                               lock : Locks, is : {"active", "replaced", "forgotten"}]
  BY DEF FactsInv, FactsTypeOK, InsertNext, Versions
<1>2. s \in Statements /\ Matches(s.fact, m) /\ MayReplace(m, s)
  BY DEF FactsInv, FactCallsInv, InsertNext
<1>3. m.version + 1 \in 1 .. MaxVersion /\ m.id \in MemoryIds /\ m.version \in Nat
  BY <1>1 DEF InsertNext
<1>i. PICK i \in MemoryIds : i = m.id
  BY <1>3
<1>4. /\ new \in Versions /\ new.id = m.id /\ new.version = m.version + 1
      /\ new.fact = s.fact /\ new.lock = s.lock /\ new.is = "active"
  BY <1>2, <1>3, NewVersionTyped
<1>5. versions' = {Replaced(rs, r) : r \in versions} \cup {new}
  BY DEF InsertNext, Replaced
<1>6. overtaken' = IF m \in ActiveVersions THEN overtaken ELSE overtaken \cup {m.id}
  BY DEF InsertNext
<1>7. versions \subseteq Versions
  BY DEF FactsInv, FactsTypeOK
<1>8. rs = {q \in versions : q.id = m.id /\ q.version = m.version /\ q.fact = m.fact /\ q.lock = m.lock}
  BY DEF Current, Of
<1> DEFINE now(r) == Replaced(rs, r)
<1>9. Done(u)
  BY DEF InsertNext
<1>10. \A r \in versions :
         /\ now(r) \in Versions /\ now(r).id = r.id /\ now(r).version = r.version
         /\ now(r).fact = r.fact /\ now(r).lock = r.lock
         /\ r \notin rs => now(r) = r
         /\ r \in rs => now(r).is # "active"
         /\ now(r).is = "forgotten" <=> r.is = "forgotten"
         /\ now(r).is = "active" => r.is = "active" /\ now(r) = r
  BY <1>7, ReplacedRow
<1>11. \A r \in versions' : r = new \/ \E q \in versions : r = now(q)
  BY <1>5
<1> HIDE DEF m, s, rs, new, now
<1> USE <1>i
<1>12. FactsTypeOK' /\ FactCallsInv'
  BY <1>3, <1>4, <1>5, <1>6, <1>9, <1>10, <1>11, DoneKeepsPending DEF FactsInv, FactsTypeOK
<1>13. ASSUME i \notin overtaken'
       PROVE  /\ m \in versions /\ m.is = "active" /\ i \notin overtaken /\ rs = {m}
              /\ \A q \in Of(i) : q = m \/ (q.is = "replaced" /\ q.version < m.version)
  <2>1. m \in ActiveVersions /\ i \notin overtaken
    BY <1>6, <1>13
  <2>2. m \in versions /\ m.is = "active" /\ m \in Of(i)
    BY <2>1 DEF ActiveVersions, Of
  <2>3. \A q \in Of(i) : q = m \/ (q.is # "active" /\ q.version < m.version)
    BY <1>3, <2>1, <2>2 DEF FactsInv, LatestIsActive
  <2>4. \A q \in Of(i) : q.is # "forgotten"
    BY <1>3, <2>1, <2>2 DEF FactsInv, ForgottenStays
  <2>5. rs = {m}
    BY <1>3, <1>8, <2>2, <2>3 DEF Of
  <2>6. \A q \in Of(i) : q.is \in {"active", "replaced", "forgotten"}
    BY <1>7 DEF Of, Versions
  <2> QED
    BY <2>1, <2>2, <2>3, <2>4, <2>5, <2>6
<1>14. overtaken \subseteq overtaken' /\ overtaken' \subseteq overtaken \cup {i}
  BY <1>6
<1>15. \A j \in MemoryIds : Of(j)' = {now(r) : r \in Of(j)} \cup (IF j = i THEN {new} ELSE {})
  BY <1>4, <1>5, <1>10, <1>11 DEF Of, now
<1>16. \A j \in MemoryIds \ {i} : Of(j)' = Of(j)
  <2> TAKE j \in MemoryIds \ {i}
  <2>1. \A r \in Of(j) : now(r) = r
    BY <1>8, <1>10 DEF Of
  <2> QED
    BY SMTT(20), <2>1, <1>15
<1>17. \A j \in MemoryIds \ {i} : (ActiveVersions \cap Of(j))' = ActiveVersions \cap Of(j)
  BY <1>16 DEF ActiveVersions, Of
<1>18. ASSUME i \notin overtaken'
       PROVE  \A r \in Of(i)' : \/ r = new
                                   \/ \E q \in Of(i) : /\ r = now(q) /\ r.is = "replaced" /\
                                                          r.version <= m.version
                                                          /\ r.version = q.version /\ r.lock = q.lock
  <2> SUFFICES ASSUME NEW r \in Of(i)', r # new
               PROVE  \E q \in Of(i) : /\ r = now(q) /\ r.is = "replaced" /\ r.version <= m.version
                                          /\ r.version = q.version /\ r.lock = q.lock
    OBVIOUS
  <2>1. PICK q \in Of(i) : r = now(q)
    BY <1>3, <1>15
  <2>2. q \in versions
    BY DEF Of
  <2>3. CASE q = m
    <3>1. r.is # "active" /\ r.is # "forgotten" /\ r \in Versions
      BY <1>10, <1>13, <1>18, <2>1, <2>3
    <3> QED
      BY <3>1, <1>10, <1>3, <2>1, <2>2, <2>3 DEF Versions
  <2>4. CASE q # m
    <3>1. r = q
      BY <1>10, <1>13, <1>18, <2>1, <2>2, <2>4
    <3>2. q.version \in Nat
      BY <1>7, <2>2 DEF Versions
    <3>3. q.is = "replaced" /\ q.version < m.version
      BY <1>13, <1>18, <2>4
    <3>4. q.version <= m.version
      BY <3>2, <3>3, <1>3
    <3>5. r.is = "replaced" /\ r.version <= m.version /\ r.version = q.version /\ r.lock = q.lock
      BY <3>1, <3>3, <3>4
    <3> QED
      BY <3>5, <2>1
  <2> QED
    BY <2>3, <2>4
<1>19. OneRowPerVersion'
  <2> SUFFICES ASSUME NEW j \in MemoryIds \ overtaken', NEW r \in Of(j)', NEW q \in Of(j)',
                      r.version = q.version
               PROVE  r = q
    BY DEF OneRowPerVersion
  <2>1. CASE j = i
    <3>1. r = new <=> q = new
      BY <1>3, <1>4, <1>18, <2>1
    <3>2. CASE r # new /\ q # new
      <4>1. PICK r0 \in Of(i), q0 \in Of(i) : r = now(r0) /\ q = now(q0) /\ r.version = r0.version /\
                 q.version = q0.version
        BY <1>18, <2>1, <3>2
      <4>2. r0 = q0
        BY <1>14, <2>1, <4>1 DEF FactsInv, OneRowPerVersion
      <4> QED
        BY <4>1, <4>2
    <3> QED
      BY <3>1, <3>2
  <2>2. CASE j # i
    BY <2>2, <1>14, <1>16 DEF FactsInv, OneRowPerVersion
  <2> QED
    BY <2>1, <2>2
<1>20. LatestIsActive'
  <2> SUFFICES ASSUME NEW j \in MemoryIds \ overtaken', NEW r \in (ActiveVersions \cap Of(j))',
                      NEW q \in Of(j)'
               PROVE  q = r \/ (q.is # "active" /\ q.version < r.version)
    BY DEF LatestIsActive
  <2>1. CASE j = i
    <3>1. r = new
      BY <1>18, <2>1 DEF ActiveVersions
    <3>2. q = new \/ (q.is = "replaced" /\ q.version <= m.version /\ q.version \in Nat)
      BY <1>7, <1>18, <2>1 DEF Of, Versions
    <3> QED
      BY <3>1, <3>2, <1>3, <1>4
  <2>2. CASE j # i
    BY <2>2, <1>14, <1>16, <1>17 DEF FactsInv, LatestIsActive
  <2> QED
    BY <2>1, <2>2
<1>21. ForgottenStays'
  <2> SUFFICES ASSUME NEW j \in MemoryIds \ overtaken', NEW r \in Of(j)', r.is = "forgotten"
               PROVE  (ActiveVersions \cap Of(j))' = {}
    BY DEF ForgottenStays
  <2>1. j # i
    BY <1>4, <1>18
  <2> QED
    BY <2>1, <1>14, <1>16, <1>17 DEF FactsInv, ForgottenStays
<1>22. \A r \in ActiveVersions' \ {new} : r \in ActiveVersions /\ r \notin rs
  BY <1>10, <1>11 DEF ActiveVersions
<1>23. KnownOnce'
  <2> SUFFICES ASSUME NEW r \in ActiveVersions', NEW q \in ActiveVersions',
                      r.fact = q.fact, r.fact \notin Aliased, {r.id, q.id} \cap overtaken' = {}
               PROVE  r = q
    BY DEF KnownOnce
  <2>1. ASSUME NEW p \in ActiveVersions', p # new, p.fact = s.fact, s.fact \notin Aliased,
               i \notin overtaken', p.id \notin overtaken'
        PROVE  FALSE
    <3>1. m.fact = s.fact
      BY <1>2, <2>1 DEF Matches
    <3>2. m \in ActiveVersions /\ i \notin overtaken /\ m \in rs
      BY <1>13, <2>1 DEF ActiveVersions
    <3>3. p \in ActiveVersions /\ p \notin rs /\ p.id \notin overtaken
      BY <1>14, <1>22, <2>1
    <3>4. p = m
      BY <2>1, <3>1, <3>2, <3>3 DEF FactsInv, KnownOnce
    <3> QED
      BY <3>2, <3>3, <3>4
  <2>2. CASE r = new /\ q # new
    BY <2>1, <2>2, <1>4
  <2>3. CASE q = new /\ r # new
    BY <2>1, <2>3, <1>4
  <2>4. CASE r # new /\ q # new
    BY <2>4, <1>14, <1>22 DEF FactsInv, KnownOnce
  <2> QED
    BY <2>2, <2>3, <2>4
<1>24. LocksHold'
  <2> SUFFICES ASSUME NEW j \in MemoryIds \ overtaken', NEW r \in Of(j)', NEW q \in Of(j)',
                      r.version < q.version
               PROVE  MayReplace(r, q)
    BY DEF LocksHold
  <2>1. CASE j = i
    <3>1. r # new
      <4>1. q.version \in Nat
        BY <1>12 DEF FactsTypeOK, Of, Versions
      <4>2. CASE q = new
        BY <4>2, <1>3, <1>4
      <4>3. CASE q # new
        <5>1. q.version <= m.version
          BY <4>3, <1>18, <2>1
        <5> QED
          BY <5>1, <4>1, <1>3, <1>4
      <4> QED
        BY <4>2, <4>3
    <3>2. PICK r0 \in Of(i) : r.version = r0.version /\ r.lock = r0.lock
      BY <1>18, <2>1, <3>1
    <3>3. CASE q = new
      <4>1. MayReplace(r0, s)
        <5>1. CASE r0 = m
          BY <5>1, <1>2
        <5>2. CASE r0 # m
          <6>1. r0.version < m.version /\ m \in Of(i)
            BY <5>2, <1>13, <2>1 DEF Of
          <6>2. MayReplace(r0, m)
            BY <6>1, <1>3, <1>14, <2>1 DEF FactsInv, LocksHold
          <6> QED
            BY <6>2, <1>2, LockIsPassedOn
        <5> QED
          BY <5>1, <5>2
      <4> QED
        BY <4>1, <3>2, <3>3, <1>4 DEF MayReplace
    <3>4. CASE q # new
      <4>1. PICK q0 \in Of(i) : q.version = q0.version /\ q.lock = q0.lock
        BY <1>18, <2>1, <3>4
      <4>2. MayReplace(r0, q0)
        BY <4>1, <3>2, <1>3, <1>14, <2>1 DEF FactsInv, LocksHold
      <4> QED
        BY <4>1, <4>2, <3>2 DEF MayReplace
    <3> QED
      BY <3>3, <3>4
  <2>2. CASE j # i
    BY <2>2, <1>14, <1>16 DEF FactsInv, LocksHold
  <2> QED
    BY <2>1, <2>2
<1> QED
  BY <1>12, <1>19, <1>20, <1>21, <1>23, <1>24 DEF FactsInv

\* ... an insert that fails ...
LEMMA InsertFailsKeeps ==
    ASSUME FactsInv, NEW u \in Updates, InsertFails(u)
    PROVE  FactsInv'
<1>1. FactsTypeOK' /\ FactCallsInv'
  BY DoneKeepsPending DEF FactsInv, FactsTypeOK, InsertFails
<1> QED
  BY <1>1 DEF FactsInv, InsertFails, OneRowPerVersion, LatestIsActive, ForgottenStays,
              KnownOnce, LocksHold, Of, ActiveVersions

\* ... forgetting a fact ...
LEMMA ForgetKeeps ==
    ASSUME FactsInv, NEW id \in MemoryIds, ForgetFact(id)
    PROVE  FactsInv'
<1> DEFINE now(r) == IF r.id = id THEN [r EXCEPT !.is = "forgotten"] ELSE r
<1>1. versions' = {now(r) : r \in versions}
  BY DEF ForgetFact
<1>2. versions \subseteq Versions /\ overtaken' = overtaken
  BY DEF FactsInv, FactsTypeOK, ForgetFact
<1>3. \A r \in versions :
        /\ now(r) \in Versions /\ now(r).id = r.id /\ now(r).version = r.version
        /\ now(r).fact = r.fact /\ now(r).lock = r.lock
        /\ r.id = id => now(r).is = "forgotten"
        /\ r.id # id => now(r) = r
  BY <1>2 DEF Versions
<1> HIDE DEF now
<1>4. \A r \in versions' : \E q \in versions : r = now(q)
  BY <1>1
<1>5. FactsTypeOK'
  BY <1>2, <1>3, <1>4 DEF FactsInv, FactsTypeOK, ForgetFact
<1>6. FactCallsInv'
  BY DEF FactsInv, FactCallsInv, ForgetFact
<1>7. \A j \in MemoryIds : \A r \in Of(j)' : \E q \in Of(j) :
        r = now(q) /\ r.version = q.version /\ r.lock = q.lock
  BY <1>3, <1>4 DEF Of
<1>8. \A r \in ActiveVersions' : r \in ActiveVersions /\ r.id # id
  BY <1>3, <1>4 DEF ActiveVersions
<1>9. \A j \in MemoryIds \ {id} : Of(j)' = Of(j)
  BY <1>1, <1>3 DEF Of
<1>10. OneRowPerVersion'
  BY <1>2, <1>7 DEF FactsInv, OneRowPerVersion
<1>11. LatestIsActive' /\ ForgottenStays'
  BY <1>2, <1>8, <1>9 DEF FactsInv, LatestIsActive, ForgottenStays, Of
<1>12. KnownOnce'
  BY <1>2, <1>8 DEF FactsInv, KnownOnce
<1>13. LocksHold'
  BY <1>2, <1>7 DEF FactsInv, LocksHold, MayReplace
<1> QED
  BY <1>5, <1>6, <1>10, <1>11, <1>12, <1>13 DEF FactsInv

\* ... and removing its rows.
LEMMA PurgeKeeps ==
    ASSUME FactsInv, NEW id \in MemoryIds, PurgeFact(id)
    PROVE  FactsInv'
<1>1. Of(id)' = {} /\ \A j \in MemoryIds \ {id} : Of(j)' = Of(j)
  BY DEF PurgeFact, Of
<1>2. \A r \in ActiveVersions' : r \in ActiveVersions /\ r.id # id
  BY DEF ActiveVersions, PurgeFact, Of
<1>3. overtaken' = overtaken \ {id}
  BY DEF PurgeFact
<1>4. FactsTypeOK' /\ FactCallsInv'
  BY DEF FactsInv, FactsTypeOK, FactCallsInv, PurgeFact
<1>5. OneRowPerVersion' /\ LocksHold'
  BY <1>1, <1>3 DEF FactsInv, OneRowPerVersion, LocksHold
<1>6. LatestIsActive'
  BY <1>1, <1>2, <1>3 DEF FactsInv, LatestIsActive
<1>7. ForgottenStays'
  BY <1>1, <1>2, <1>3 DEF FactsInv, ForgottenStays
<1>8. KnownOnce'
  BY <1>2, <1>3 DEF FactsInv, KnownOnce
<1> QED
  BY <1>4, <1>5, <1>6, <1>7, <1>8 DEF FactsInv

\* A table without rows is in the invariant.
LEMMA FactsStart == ASSUME FactsInit PROVE FactsInv
BY DEF FactsInit, FactsInv, FactsTypeOK, FactCallsInv, OneRowPerVersion, LatestIsActive,
       ForgottenStays, KnownOnce, LocksHold, Of, ActiveVersions

\* Every step keeps it.
LEMMA FactsStepKeeps == ASSUME FactsInv, [FactsNext]_factVars PROVE FactsInv'
<1>1. CASE UNCHANGED factVars
  BY <1>1 DEF factVars, FactsInv, FactsTypeOK, FactCallsInv, OneRowPerVersion, LatestIsActive,
              ForgottenStays, KnownOnce, LocksHold, Of, ActiveVersions
<1>2. CASE FactsNext
  BY <1>2, InsertFirstKeeps, InsertNextKeeps, InsertFailsKeeps, FindFactKeeps, ClassifyKeeps,
     ForgetKeeps, PurgeKeeps DEF FactsNext
<1> QED
  BY <1>1, <1>2

\* The invariant is more than what PersonalFactsSafe says.
LEMMA FactsInvSafe == ASSUME FactsInv PROVE PersonalFactsSafe
BY DEF FactsInv, PersonalFactsSafe

-----------------------------------------------------------------------------
(* The knowledge base.                                                     *)

\* The types of the nodes.
NodeTypes == {"mission", "goal", "concept"}

\* Nodes and edges that are to be added.
WorkItems == [from : Entities, to : Entities, type : NodeTypes \cup {"edge"}]

\* The states of a consolidation.
CycleStates == [on : BOOLEAN, todo : Seq(Episodes), at : {"next", "distill", "graph", "extract"},
                work : Seq(WorkItems), saving : BOOLEAN]

\* The types, as far as the model's type invariant leaves them open.
KnowledgeTypes ==
    /\ KnowledgeTypeOK
    /\ nodes \in [Entities -> NodeTypes \cup {NoNode}]
    /\ nodeRows \in [Entities -> NodeTypes \cup {NoNode}]
    /\ lessons \in [Episodes -> [experiences : Nat, facts : Nat]]
    /\ cycle \in [Cycles -> CycleStates]

\* A consolidation with an episode in hand.
Engaged(c) == cycle[c].on /\ cycle[c].at # "next"

\* WorkItems of the work that are not in memory yet.
Left(c) == Len(cycle[c].work) - (IF cycle[c].saving THEN 1 ELSE 0)

\* The episode and its goal are in the graph, with an edge.
Joined(e) == {e, GoalName} \subseteq Named /\ <<e, GoalName>> \in relations

\* What an episode adds to the graph ...
MissionWork(e) == <<Node(e, "mission"), Node(GoalName, "goal"), Edge(e, GoalName)>>

\* ... and what a concept does.
ConceptWork(n) == <<Node(n, "concept"), Edge(GoalName, n)>>

\* What is left to do is the end of w.
IsRest(q, w) ==
    /\ Len(q) <= Len(w)
    /\ \A i \in 1 .. Len(q) : q[i] = w[i + Len(w) - Len(q)]

\* A consolidation that rests has nothing in hand or to save.
CycleShape(c) ==
    /\ ~cycle[c].on => cycle[c] = NoCycle
    /\ cycle[c].at \in {"next", "distill"} => cycle[c].work = <<>>
    /\ cycle[c].saving => cycle[c].work # <<>>

\* An episode in hand is recorded, and its fact is there once it was distilled.
HandInv(c) ==
    Engaged(c) =>
        /\ cycle[c].todo # <<>> /\ InWork(c) \in consolidated \ lost
        /\ lessons[InWork(c)].facts = (IF cycle[c].at = "distill" THEN 0 ELSE 1)

\* What is not left to do any more is in memory.
ToDoInv(c) ==
    /\ CycleAt(c, "graph") /\ InWork(c) \in Nameless => cycle[c].work = <<>>
    /\ CycleAt(c, "graph") /\ InWork(c) \notin Nameless =>
         /\ IsRest(cycle[c].work, MissionWork(InWork(c)))
         /\ Left(c) <= 2 => InWork(c) \in Named
         /\ Left(c) <= 1 => GoalName \in Named
         /\ Left(c) <= 0 => <<InWork(c), GoalName>> \in relations
    /\ CycleAt(c, "extract") =>
         /\ InWork(c) \notin Nameless => Joined(InWork(c))
         /\ \/ cycle[c].work = <<>>
            \/ \E n \in Extractable : /\ IsRest(cycle[c].work, ConceptWork(n))
                                      /\ Left(c) <= 1 => n \in Named

\* No episode is in two hands.
OneHolder == \A c, d \in Cycles : Engaged(c) /\ Engaged(d) /\ InWork(c) = InWork(d) => c = d

\* Each episode has one experience and one fact at most.
LessonsInv ==
    \A e \in Episodes :
        /\ lessons[e].experiences = (IF e \in consolidated THEN 1 ELSE 0)
        /\ lessons[e].facts <= 1
        /\ e \notin consolidated => lessons[e].facts = 0

\* All that belongs to the episode is there.
IsComplete(e) == lessons[e].facts = 1 /\ (e \notin Nameless => Joined(e))

\* An episode nobody has in hand is complete, or was lost.
CompleteInv ==
    \A e \in consolidated : e \in lost \/ IsComplete(e) \/ \E c \in Cycles : Engaged(c) /\ InWork(c) = e

\* The tables have what memory has ...
RowsFollow == nodes = nodeRows /\ relations \subseteq edgeRows

\* ... but for the item, which is in memory only.
Ahead(item) ==
    IF IsNode(item)
    THEN nodes = [nodeRows EXCEPT ![item.from] = item.type] /\ relations \subseteq edgeRows
    ELSE nodes = nodeRows /\ relations \subseteq edgeRows \cup {<<item.from, item.to>>}

\* Unless graph and tables are muddled, they differ by the item of the one who saves.
RowsFollowInv ==
    ~muddled =>
        /\ \A c, d \in Running : c = d
        /\ (\A c \in Cycles : ~cycle[c].saving) => RowsFollow
        /\ \A c \in Cycles : cycle[c].saving => Ahead(Head(cycle[c].work))

\* What holds of every consolidation ...
CycleInv(c) == CycleShape(c) /\ HandInv(c) /\ ToDoInv(c)

\* ... and the inductive invariant. KnowledgeSafe is silent about an episode in
\* hand: what is left to do must be the end of what it adds.
KnowledgeInv ==
    /\ KnowledgeTypes /\ \A c \in Cycles : CycleInv(c)
    /\ OneHolder /\ LessonsInv /\ CompleteInv /\ EdgesHaveNodes /\ RowsFollowInv

\* A consolidation that rests is one.
LEMMA NoCycleIs ==
    /\ NoCycle \in CycleStates /\ ~NoCycle.on /\ NoCycle.at = "next" /\ NoCycle.work = <<>>
    /\ ~NoCycle.saving /\ NoCycle.todo = <<>>
BY DEF NoCycle, CycleStates

\* The types of one consolidation.
LEMMA CycleTyped ==
    ASSUME KnowledgeTypes, NEW c \in Cycles
    PROVE  /\ cycle[c] \in CycleStates /\ cycle[c].on \in BOOLEAN /\ cycle[c].saving \in BOOLEAN
           /\ cycle[c].todo \in Seq(Episodes) /\ cycle[c].work \in Seq(WorkItems)
           /\ cycle[c].at \in {"next", "distill", "graph", "extract"}
           /\ Len(cycle[c].work) \in Nat
BY DEF KnowledgeTypes, CycleStates

\* An episode in hand is one.
LEMMA InWorkTyped ==
    ASSUME KnowledgeTypes, NEW c \in Cycles, cycle[c].todo # <<>>
    PROVE  InWork(c) \in Episodes /\ Tail(cycle[c].todo) \in Seq(Episodes)
BY CycleTyped, HeadTailProperties DEF InWork

\* A consolidation that rests is in the invariant.
LEMMA IdleKeeps ==
    ASSUME KnowledgeTypes, NEW c \in Cycles, ~cycle[c].on, CycleShape(c)
    PROVE  CycleInv(c)
BY NoCycleIs DEF CycleInv, CycleShape, HandInv, ToDoInv, Engaged, CycleAt

\* What a step of another cycle leaves as it was.
LEMMA OtherKeeps ==
    ASSUME KnowledgeTypes, NEW d \in Cycles, CycleInv(d), cycle'[d] = cycle[d],
           consolidated \subseteq consolidated', Named \subseteq Named',
           relations \subseteq relations',
           Engaged(d) => lessons'[InWork(d)].facts = lessons[InWork(d)].facts /\ InWork(d) \notin lost'
    PROVE  CycleInv(d)' /\ Engaged(d)' = Engaged(d) /\ InWork(d)' = InWork(d)
<1>1. Engaged(d)' = Engaged(d) /\ InWork(d)' = InWork(d) /\ Left(d)' = Left(d)
      /\ (\A s : CycleAt(d, s)' = CycleAt(d, s))
  BY DEF Engaged, InWork, Left, CycleAt
<1>2. CycleShape(d)'
  BY DEF CycleInv, CycleShape
<1>3. HandInv(d)'
  BY <1>1 DEF CycleInv, HandInv
<1>4. ToDoInv(d)'
  BY <1>1 DEF CycleInv, ToDoInv, Joined
<1> QED
  BY <1>1, <1>2, <1>3, <1>4 DEF CycleInv

\* Doing an item leaves a shorter end.
LEMMA TailIsRest ==
    ASSUME NEW S, NEW w \in Seq(S), NEW q \in Seq(S), q # <<>>, IsRest(q, w)
    PROVE  IsRest(Tail(q), w) /\ Len(Tail(q)) = Len(q) - 1 /\ Head(q) = w[Len(w) - Len(q) + 1]
<1>1. /\ Tail(q) \in Seq(S) /\ Len(Tail(q)) = Len(q) - 1
      /\ \A i \in 1 .. Len(Tail(q)) : Tail(q)[i] = q[i + 1]
  BY HeadTailProperties
<1>2. Len(q) \in Nat \ {0} /\ Len(w) \in Nat
  BY EmptySeq
<1>3. \A i \in 1 .. Len(Tail(q)) : Tail(q)[i] = w[i + Len(w) - Len(Tail(q))]
  <2> TAKE i \in 1 .. Len(Tail(q))
  <2>1. i + 1 \in 1 .. Len(q) /\ (i + 1) + Len(w) - Len(q) = i + Len(w) - Len(Tail(q))
    BY <1>1, <1>2
  <2> QED
    BY <1>1, <2>1 DEF IsRest
<1>4. Head(q) = q[1]
  BY <1>2
<1>5. 1 \in 1 .. Len(q) /\ 1 + Len(w) - Len(q) = Len(w) - Len(q) + 1
  BY <1>2
<1> QED
  BY <1>1, <1>2, <1>3, <1>4, <1>5 DEF IsRest

\* What is to do is a list of items.
LEMMA WorkLists ==
    ASSUME NEW e \in Episodes, NEW n \in Extractable
    PROVE  /\ MissionWork(e) \in Seq(WorkItems) /\ Len(MissionWork(e)) = 3
           /\ MissionWork(e)[1] = Node(e, "mission") /\ MissionWork(e)[2] = Node(GoalName, "goal")
           /\ MissionWork(e)[3] = Edge(e, GoalName)
           /\ ConceptWork(n) \in Seq(WorkItems) /\ Len(ConceptWork(n)) = 2
           /\ ConceptWork(n)[1] = Node(n, "concept") /\ ConceptWork(n)[2] = Edge(GoalName, n)
<1>1. /\ Node(e, "mission") \in WorkItems /\ Node(GoalName, "goal") \in WorkItems
      /\ Edge(e, GoalName) \in WorkItems /\ Node(n, "concept") \in WorkItems /\
         Edge(GoalName, n) \in WorkItems
  BY DEF WorkItems, Node, Edge, NodeTypes, Entities
<1> QED
  BY <1>1 DEF MissionWork, ConceptWork

\* A node is no edge.
LEMMA ItemsAre ==
    ASSUME NEW a, NEW b, NEW t \in NodeTypes
    PROVE  /\ IsNode(Node(a, t)) /\ Node(a, t).from = a /\ Node(a, t).type = t
           /\ ~IsNode(Edge(a, b)) /\ Edge(a, b).from = a /\ Edge(a, b).to = b
BY DEF Node, Edge, IsNode, NodeTypes

\* Recording an episode keeps the invariant.
LEMMA RecordKeeps ==
    ASSUME KnowledgeInv, NEW e \in Episodes, RecordEpisode(e)
    PROVE  KnowledgeInv'
<1>1. KnowledgeTypes'
  BY DEF KnowledgeInv, KnowledgeTypes, KnowledgeTypeOK, RecordEpisode
<1>2. \A c \in Cycles : CycleInv(c)' /\ Engaged(c)' = Engaged(c) /\ InWork(c)' = InWork(c)
  BY OtherKeeps DEF KnowledgeInv, RecordEpisode, CycleInv, HandInv, Named
<1>3. OneHolder' /\ LessonsInv' /\ CompleteInv'
  BY <1>2
     DEF KnowledgeInv, RecordEpisode, OneHolder, LessonsInv, CompleteInv, IsComplete, Joined,
         Named
<1>4. EdgesHaveNodes' /\ RowsFollowInv'
  BY DEF KnowledgeInv, RecordEpisode, EdgesHaveNodes, RowsFollowInv, Named, Running,
         RowsFollow, Ahead
<1> QED
  BY <1>1, <1>2, <1>3, <1>4 DEF KnowledgeInv

\* So does starting a consolidation.
LEMMA ConsolidateKeeps ==
    ASSUME KnowledgeInv, NEW c \in Cycles, Consolidate(c)
    PROVE  KnowledgeInv'
<1> USE KnowledgeAssumption
<1>1. GetRecentEpisodes \in Seq(Episodes)
  <2>1. episodes \in Seq(Episodes) /\ Len(episodes) \in Nat
    BY DEF KnowledgeInv, KnowledgeTypes, KnowledgeTypeOK
  <2> DEFINE from == IF Len(episodes) > Limit THEN Len(episodes) - Limit + 1 ELSE 1
  <2>2. from \in Nat \ {0}
    BY <2>1
  <2>3. \A i \in from .. Len(episodes) : episodes[i] \in Episodes
    BY <2>1, <2>2
  <2> QED
    BY <2>1, <2>2, <2>3, SubSeqProperties DEF GetRecentEpisodes
<1>2. /\ cycle'[c] = [NoCycle EXCEPT !.on = TRUE, !.todo = GetRecentEpisodes]
      /\ \A d \in Cycles \ {c} : cycle'[d] = cycle[d]
  BY DEF Consolidate, KnowledgeInv, KnowledgeTypes
<1>3. /\ cycle'[c] \in CycleStates /\ cycle'[c].on /\ cycle'[c].at = "next" /\ cycle'[c].work = <<>>
      /\ ~cycle'[c].saving
  <2>1. cycle'[c] = [on |-> TRUE, todo |-> GetRecentEpisodes, at |-> "next", work |-> <<>>, saving |-> FALSE]
    BY <1>2 DEF NoCycle
  <2>2. <<>> \in Seq(WorkItems)
    OBVIOUS
  <2> QED
    BY <1>1, <2>1, <2>2 DEF CycleStates
<1>4. KnowledgeTypes'
  BY <1>2, <1>3 DEF KnowledgeInv, KnowledgeTypes, KnowledgeTypeOK, Consolidate
<1>5. ~Engaged(c) /\ ~Engaged(c)' /\ ~cycle[c].saving
  BY <1>3, NoCycleIs DEF Engaged, Consolidate, KnowledgeInv, CycleInv, CycleShape
<1>6. CycleInv(c)'
  BY <1>3, <1>5 DEF CycleInv, CycleShape, HandInv, ToDoInv, CycleAt
<1>7. \A d \in Cycles \ {c} : CycleInv(d)' /\ Engaged(d)' = Engaged(d) /\ InWork(d)' = InWork(d)
  BY <1>2, OtherKeeps DEF KnowledgeInv, Consolidate, CycleInv, HandInv, Named
<1>8. OneHolder' /\ LessonsInv' /\ CompleteInv'
  BY <1>5, <1>7
     DEF KnowledgeInv, Consolidate, OneHolder, LessonsInv, CompleteInv, IsComplete, Joined,
         Named
<1>9. EdgesHaveNodes'
  BY DEF KnowledgeInv, Consolidate, EdgesHaveNodes, Named
<1>10. RowsFollowInv'
  <2> SUFFICES ASSUME ~muddled'
               PROVE  /\ \A d, f \in Running' : d = f
                      /\ (\A d \in Cycles : ~cycle'[d].saving) => RowsFollow'
                      /\ \A d \in Cycles : cycle'[d].saving => Ahead(Head(cycle[d].work))'
    BY DEF RowsFollowInv
  <2>1. ~muddled /\ Running = {}
    BY DEF Consolidate
  <2>2. Running' = {c}
    BY <1>2, <1>3, <2>1 DEF Running
  <2>3. \A d \in Cycles : ~cycle[d].saving /\ ~cycle'[d].saving
    BY <1>2, <1>3, <1>5, <2>1, NoCycleIs DEF Running, KnowledgeInv, CycleInv, CycleShape
  <2>4. RowsFollow'
    BY <2>1, <2>3 DEF KnowledgeInv, RowsFollowInv, RowsFollow, Consolidate
  <2> QED
    BY <2>2, <2>3, <2>4
<1> QED
  BY <1>4, <1>6, <1>7, <1>8, <1>9, <1>10 DEF KnowledgeInv

\* The next episode is done before, or taken in hand.
LEMMA NextKeeps ==
    ASSUME KnowledgeInv, NEW c \in Cycles, NextEpisode(c)
    PROVE  KnowledgeInv'
<1> DEFINE e == InWork(c)
<1>1. /\ cycle[c].on /\ cycle[c].at = "next" /\ cycle[c].todo # <<>> /\ cycle[c] \in CycleStates
      /\ e \in Episodes /\ Tail(cycle[c].todo) \in Seq(Episodes) /\ KnowledgeTypes
      /\ cycle[c].work = <<>> /\ ~cycle[c].saving /\ ~Engaged(c)
  BY CycleTyped, InWorkTyped DEF NextEpisode, CycleAt, KnowledgeInv, CycleInv, CycleShape, Engaged
<1>2. UNCHANGED <<episodes, nodes, relations, nodeRows, edgeRows, lost, muddled>>
  BY DEF NextEpisode
<1>3. Named' = Named /\ EdgesHaveNodes'
  BY <1>2 DEF Named, KnowledgeInv, EdgesHaveNodes, NextEpisode
<1>4. ASSUME /\ \A d \in Cycles \ {c} : cycle'[d] = cycle[d]
             /\ cycle'[c].on /\ ~cycle'[c].saving
      PROVE  RowsFollowInv'
  <2>1. Running' = Running
    BY <1>1, <1>4 DEF Running
  <2>2. \A d \in Cycles : cycle'[d].saving = cycle[d].saving \/ (~cycle'[d].saving /\ ~cycle[d].saving)
    BY <1>1, <1>4
  <2>3. \A d \in Cycles : cycle[d].saving => cycle'[d] = cycle[d]
    BY <1>1, <1>4
  <2> QED
    BY <1>2, <2>1, <2>2, <2>3 DEF KnowledgeInv, RowsFollowInv, RowsFollow, Ahead
<1>5. CASE e \in consolidated
  <2>1. /\ \A d \in Cycles \ {c} : cycle'[d] = cycle[d]
        /\ cycle'[c] = [cycle[c] EXCEPT !.todo = Tail(@)]
        /\ UNCHANGED <<consolidated, lessons>>
    BY <1>1, <1>5 DEF NextEpisode, KnowledgeTypes
  <2>2. /\ cycle'[c] \in CycleStates /\ cycle'[c].on /\ cycle'[c].at = "next" /\ cycle'[c].work = <<>>
        /\ ~cycle'[c].saving
    BY <1>1, <2>1 DEF CycleStates
  <2>3. KnowledgeTypes'
    BY <1>1, <1>2, <1>5, <2>1, <2>2 DEF KnowledgeTypes, KnowledgeTypeOK, NextEpisode
  <2>4. CycleInv(c)' /\ ~Engaged(c)'
    BY <2>2 DEF CycleInv, CycleShape, HandInv, ToDoInv, CycleAt, Engaged
  <2>5. \A d \in Cycles \ {c} : CycleInv(d)' /\ Engaged(d)' = Engaged(d) /\ InWork(d)' = InWork(d)
    BY <1>2, <1>3, <2>1, OtherKeeps DEF KnowledgeInv, CycleInv, HandInv
  <2>6. OneHolder' /\ LessonsInv' /\ CompleteInv'
    BY <1>1, <1>2, <1>3, <2>1, <2>4, <2>5
       DEF KnowledgeInv, OneHolder, LessonsInv, CompleteInv, IsComplete, Joined
  <2> QED
    BY <1>3, <1>4, <2>1, <2>2, <2>3, <2>4, <2>5, <2>6 DEF KnowledgeInv
<1>6. CASE e \notin consolidated
  <2>1. /\ \A d \in Cycles \ {c} : cycle'[d] = cycle[d]
        /\ cycle'[c] = [cycle[c] EXCEPT !.at = "distill"]
        /\ consolidated' = consolidated \cup {e}
        /\ lessons' = [lessons EXCEPT ![e].experiences = @ + 1]
    BY <1>1, <1>6 DEF NextEpisode, KnowledgeTypes
  <2>2. /\ cycle'[c] \in CycleStates /\ cycle'[c].on /\ cycle'[c].at = "distill" /\
           cycle'[c].work = <<>>
        /\ ~cycle'[c].saving /\ cycle'[c].todo = cycle[c].todo
    BY <1>1, <2>1 DEF CycleStates
  <2>3. /\ lessons' \in [Episodes -> [experiences : Nat, facts : Nat]]
        /\ \A f \in Episodes : lessons'[f].facts = lessons[f].facts
        /\ \A f \in Episodes \ {e} : lessons'[f] = lessons[f]
        /\ lessons'[e].experiences = lessons[e].experiences + 1
    <3>1. lessons[e] \in [experiences : Nat, facts : Nat] /\
          lessons \in [Episodes -> [experiences : Nat, facts : Nat]]
      BY <1>1 DEF KnowledgeTypes
    <3> DEFINE l == [lessons[e] EXCEPT !.experiences = @ + 1]
    <3>2. l \in [experiences : Nat, facts : Nat] /\ l.facts = lessons[e].facts /\
          l.experiences = lessons[e].experiences + 1
      BY <3>1
    <3>3. lessons' = [lessons EXCEPT ![e] = l]
      BY <2>1
    <3> HIDE DEF l
    <3> QED
      BY <1>1, <3>1, <3>2, <3>3
  <2>4. KnowledgeTypes'
    <3>1. consolidated' \subseteq Episodes /\ lost' \subseteq consolidated'
      BY <1>1, <1>2, <2>1 DEF KnowledgeTypes, KnowledgeTypeOK
    <3>2. cycle' \in [Cycles -> CycleStates]
      BY <1>1, <2>1, <2>2 DEF KnowledgeTypes, NextEpisode
    <3> QED
      BY <1>1, <1>2, <2>3, <3>1, <3>2 DEF KnowledgeTypes, KnowledgeTypeOK
  <2>5. InWork(c)' = e /\ Engaged(c)' /\ e \notin lost
    BY <1>1, <1>6, <2>2 DEF InWork, Engaged, KnowledgeTypes, KnowledgeTypeOK
  <2>6. CycleInv(c)'
    <3>1. lessons'[e].facts = 0
      BY <1>1, <1>6, <2>3 DEF KnowledgeInv, LessonsInv
    <3> QED
      BY <1>1, <1>2, <2>1, <2>2, <2>5, <3>1 DEF CycleInv, CycleShape, HandInv, ToDoInv, CycleAt
  <2>7. \A d \in Cycles \ {c} : Engaged(d) => InWork(d) \in consolidated /\ InWork(d) \in Episodes /\
        InWork(d) \notin lost
    BY <1>1 DEF KnowledgeInv, CycleInv, HandInv, KnowledgeTypes, KnowledgeTypeOK
  <2>8. \A d \in Cycles \ {c} : CycleInv(d)' /\ Engaged(d)' = Engaged(d) /\ InWork(d)' = InWork(d)
    BY <1>1, <1>2, <1>3, <2>1, <2>3, <2>7, OtherKeeps DEF KnowledgeInv
  <2>9. OneHolder'
    BY <1>6, <2>5, <2>7, <2>8 DEF KnowledgeInv, OneHolder
  <2>10. LessonsInv'
    BY <1>1, <1>6, <2>1, <2>3 DEF KnowledgeInv, LessonsInv
  <2>11. CompleteInv'
    <3> SUFFICES ASSUME NEW f \in consolidated', f \notin lost'
                 PROVE  IsComplete(f)' \/ \E d \in Cycles : Engaged(d)' /\ InWork(d)' = f
      BY DEF CompleteInv
    <3>1. CASE f = e
      BY <2>5, <3>1
    <3>2. CASE f # e
      <4>1. f \in consolidated /\ f \notin lost /\ f \in Episodes
        BY <1>1, <1>2, <2>1, <3>2 DEF KnowledgeTypes, KnowledgeTypeOK
      <4>2. IsComplete(f) => IsComplete(f)'
        BY <1>2, <1>3, <2>3, <4>1 DEF IsComplete, Joined
      <4>3. \A d \in Cycles : Engaged(d) => Engaged(d)' /\ InWork(d)' = InWork(d)
        BY <1>1, <2>8
      <4> QED
        BY <4>1, <4>2, <4>3 DEF KnowledgeInv, CompleteInv
    <3> QED
      BY <3>1, <3>2
  <2> QED
    BY <1>3, <1>4, <2>1, <2>2, <2>4, <2>6, <2>8, <2>9, <2>10, <2>11 DEF KnowledgeInv
<1> QED
  BY <1>5, <1>6

\* A step of one cycle that moves neither the graph nor the tables, writes nothing
\* and takes no episode up: it keeps what is stored and who holds what.
LEMMA QuietKeeps ==
    ASSUME KnowledgeInv, NEW c \in Cycles, cycle[c].on, ~cycle[c].saving,
           \A d \in Cycles \ {c} : cycle'[d] = cycle[d],
           UNCHANGED <<consolidated, nodes, relations, nodeRows, edgeRows, lost, muddled>>,
           ~cycle'[c].saving,
           \A d \in Cycles \ {c} : Engaged(d) => lessons'[InWork(d)] = lessons[InWork(d)]
    PROVE  /\ \A d \in Cycles \ {c} : CycleInv(d)' /\ Engaged(d)' = Engaged(d) /\ InWork(d)' = InWork(d)
           /\ EdgesHaveNodes' /\ RowsFollowInv' /\ Named' = Named
<1>1. Named' = Named
  BY DEF Named
<1>2. \A d \in Cycles \ {c} : CycleInv(d)' /\ Engaged(d)' = Engaged(d) /\ InWork(d)' = InWork(d)
  <2> TAKE d \in Cycles \ {c}
  <2>1. Engaged(d) => InWork(d) \in Episodes \ lost
    BY DEF KnowledgeInv, CycleInv, HandInv, KnowledgeTypes, KnowledgeTypeOK
  <2> QED
    BY <1>1, <2>1, OtherKeeps DEF KnowledgeInv
<1>3. EdgesHaveNodes'
  BY <1>1 DEF KnowledgeInv, EdgesHaveNodes
<1>4. Running' \subseteq Running
  BY DEF Running
<1>5. \A d \in Cycles : cycle'[d].saving = cycle[d].saving \/ (~cycle'[d].saving /\ ~cycle[d].saving)
  OBVIOUS
<1>6. \A d \in Cycles : cycle'[d].saving => cycle[d].saving /\ cycle'[d] = cycle[d]
  OBVIOUS
<1>7. RowsFollowInv'
  <2> SUFFICES ASSUME ~muddled
               PROVE  /\ \A d, f \in Running' : d = f
                      /\ (\A d \in Cycles : ~cycle'[d].saving) => RowsFollow'
                      /\ \A d \in Cycles : cycle'[d].saving => Ahead(Head(cycle[d].work))'
    BY DEF RowsFollowInv
  <2>1. \A d, f \in Running' : d = f
    BY <1>4 DEF KnowledgeInv, RowsFollowInv
  <2>2. (\A d \in Cycles : ~cycle'[d].saving) => RowsFollow'
    BY <1>5 DEF KnowledgeInv, RowsFollowInv, RowsFollow
  <2>3. \A d \in Cycles : cycle'[d].saving => Ahead(Head(cycle[d].work))'
    BY <1>6 DEF KnowledgeInv, RowsFollowInv, Ahead
  <2> QED
    BY <2>1, <2>2, <2>3
<1> QED
  BY <1>1, <1>2, <1>3, <1>7

\* The fact is added; a named episode has its mission, its goal and the edge to do.
LEMMA DistillKeeps ==
    ASSUME KnowledgeInv, NEW c \in Cycles, DistillFact(c)
    PROVE  KnowledgeInv'
<1> DEFINE e == InWork(c)
           listed == IF e \in Nameless THEN <<>> ELSE MissionWork(e)
<1>1. /\ cycle[c].on /\ cycle[c].at = "distill" /\ cycle[c].todo # <<>> /\ cycle[c] \in CycleStates
      /\ e \in Episodes /\ KnowledgeTypes /\ cycle[c].work = <<>> /\ ~cycle[c].saving /\ Engaged(c)
      /\ e \in consolidated /\ e \notin lost /\ lessons[e].facts = 0
  BY CycleTyped, InWorkTyped
     DEF DistillFact, CycleAt, KnowledgeInv, CycleInv, CycleShape, HandInv, Engaged
<1>2. /\ UNCHANGED <<episodes, consolidated, nodes, relations, nodeRows, edgeRows, lost, muddled>>
      /\ cycle' = [cycle EXCEPT ![c].at = "graph", ![c].work = listed]
      /\ lessons' = [lessons EXCEPT ![e].facts = @ + 1]
  BY DEF DistillFact, MissionWork
<1>3. listed \in Seq(WorkItems)
  <2>1. CASE e \in Nameless
    BY <2>1
  <2>2. CASE e \notin Nameless
    <3>1. /\ Node(e, "mission") \in WorkItems /\ Node(GoalName, "goal") \in WorkItems /\
             Edge(e, GoalName) \in WorkItems
      BY <1>1 DEF WorkItems, Node, Edge, NodeTypes, Entities
    <3> QED
      BY <2>2, <3>1 DEF MissionWork
  <2> QED
    BY <2>1, <2>2
<1> HIDE DEF listed
<1>4. /\ \A d \in Cycles \ {c} : cycle'[d] = cycle[d]
      /\ cycle'[c] = [cycle[c] EXCEPT !.at = "graph", !.work = listed]
  BY <1>1, <1>2 DEF KnowledgeTypes
<1>5. /\ cycle'[c] \in CycleStates /\ cycle'[c].on /\ cycle'[c].at = "graph" /\ cycle'[c].work = listed
      /\ ~cycle'[c].saving /\ cycle'[c].todo = cycle[c].todo
  BY <1>1, <1>3, <1>4 DEF CycleStates
<1>6. /\ lessons' \in [Episodes -> [experiences : Nat, facts : Nat]]
      /\ \A f \in Episodes : lessons'[f].experiences = lessons[f].experiences
      /\ \A f \in Episodes \ {e} : lessons'[f] = lessons[f]
      /\ lessons'[e].facts = 1
  <2>1. lessons[e] \in [experiences : Nat, facts : Nat] /\
        lessons \in [Episodes -> [experiences : Nat, facts : Nat]]
    BY <1>1 DEF KnowledgeTypes
  <2> DEFINE l == [lessons[e] EXCEPT !.facts = @ + 1]
  <2>2. l \in [experiences : Nat, facts : Nat] /\ l.experiences = lessons[e].experiences /\ l.facts = 1
    BY <1>1, <2>1
  <2>3. lessons' = [lessons EXCEPT ![e] = l]
    BY <1>2
  <2> HIDE DEF l
  <2> QED
    BY <1>1, <2>1, <2>2, <2>3
<1>7. KnowledgeTypes'
  <2>1. cycle' \in [Cycles -> CycleStates]
    BY <1>1, <1>2, <1>5 DEF KnowledgeTypes
  <2> QED
    BY <1>1, <1>2, <1>6, <2>1 DEF KnowledgeTypes, KnowledgeTypeOK
<1>8. InWork(c)' = e /\ Engaged(c)' /\ Len(listed) \in Nat
  BY <1>3, <1>5 DEF InWork, Engaged
<1>9. \A d \in Cycles \ {c} : Engaged(d) => InWork(d) # e
  BY <1>1 DEF KnowledgeInv, OneHolder
<1>10. /\ \A d \in Cycles \ {c} : CycleInv(d)' /\ Engaged(d)' = Engaged(d) /\ InWork(d)' = InWork(d)
       /\ EdgesHaveNodes' /\ RowsFollowInv' /\ Named' = Named
  <2>1. \A d \in Cycles \ {c} : Engaged(d) => InWork(d) \in Episodes
    BY <1>1 DEF KnowledgeInv, CycleInv, HandInv, KnowledgeTypes, KnowledgeTypeOK
  <2>2. \A d \in Cycles \ {c} : Engaged(d) => lessons'[InWork(d)] = lessons[InWork(d)]
    BY <1>6, <1>9, <2>1
  <2> QED
    BY <1>1, <1>2, <1>4, <1>5, <2>2, QuietKeeps
<1>11. CycleInv(c)'
  <2>1. CycleShape(c)' /\ HandInv(c)'
    BY <1>1, <1>2, <1>5, <1>6, <1>8 DEF CycleShape, HandInv
  <2>2. CASE e \in Nameless
    BY <1>5, <1>8, <2>1, <2>2 DEF CycleInv, ToDoInv, CycleAt, listed
  <2>3. CASE e \notin Nameless
    <3>1. listed = MissionWork(e) /\ Len(MissionWork(e)) = 3
      BY <2>3 DEF listed, MissionWork
    <3>2. Left(c)' = 3
      BY <1>5, <3>1 DEF Left
    <3>3. IsRest(listed, MissionWork(e))
      BY <3>1 DEF IsRest
    <3> QED
      BY <1>5, <1>8, <2>1, <2>3, <3>2, <3>3 DEF CycleInv, ToDoInv, CycleAt
  <2> QED
    BY <2>2, <2>3
<1>12. OneHolder'
  BY <1>1, <1>8, <1>10 DEF KnowledgeInv, OneHolder
<1>13. LessonsInv'
  BY <1>1, <1>2, <1>6 DEF KnowledgeInv, LessonsInv
<1>14. CompleteInv'
  <2> SUFFICES ASSUME NEW f \in consolidated, f \notin lost
               PROVE  IsComplete(f)' \/ \E d \in Cycles : Engaged(d)' /\ InWork(d)' = f
    BY <1>2 DEF CompleteInv
  <2>1. CASE f = e
    BY <1>8, <2>1
  <2>2. CASE f # e
    <3>1. f \in Episodes
      BY <1>1 DEF KnowledgeTypes, KnowledgeTypeOK
    <3>2. IsComplete(f) => IsComplete(f)'
      BY <1>2, <1>6, <1>10, <2>2, <3>1 DEF IsComplete, Joined
    <3>3. \A d \in Cycles : Engaged(d) => Engaged(d)' /\ InWork(d)' = InWork(d)
      BY <1>8, <1>10
    <3> QED
      BY <3>2, <3>3 DEF KnowledgeInv, CompleteInv
  <2> QED
    BY <2>1, <2>2
<1> QED
  BY <1>7, <1>10, <1>11, <1>12, <1>13, <1>14 DEF KnowledgeInv

\* The mission is in the graph, the concept comes next.
LEMMA ExtractKeeps ==
    ASSUME KnowledgeInv, NEW c \in Cycles, NEW n \in Extractable \cup {NoNode}, ExtractEntities(c, n)
    PROVE  KnowledgeInv'
<1> DEFINE e == InWork(c)
           listed == IF n = NoNode THEN <<>> ELSE ConceptWork(n)
<1>1. /\ cycle[c].on /\ cycle[c].at = "graph" /\ cycle[c].todo # <<>> /\ cycle[c] \in CycleStates
      /\ e \in Episodes /\ KnowledgeTypes /\ cycle[c].work = <<>> /\ ~cycle[c].saving /\ Engaged(c)
      /\ e \in consolidated /\ e \notin lost /\ lessons[e].facts = 1
  BY CycleTyped, InWorkTyped
     DEF ExtractEntities, CycleAt, KnowledgeInv, CycleInv, CycleShape, HandInv, Engaged
<1>2. /\ UNCHANGED <<episodes, consolidated, lessons, nodes, relations, nodeRows, edgeRows, lost,
         muddled>>
      /\ cycle' = [cycle EXCEPT ![c].at = "extract", ![c].work = listed]
  BY DEF ExtractEntities, ConceptWork
<1>3. listed \in Seq(WorkItems)
  <2>1. CASE n = NoNode
    BY <2>1
  <2>2. CASE n # NoNode
    <3>1. Node(n, "concept") \in WorkItems /\ Edge(GoalName, n) \in WorkItems
      BY <2>2 DEF WorkItems, Node, Edge, NodeTypes, Entities
    <3> QED
      BY <2>2, <3>1 DEF ConceptWork
  <2> QED
    BY <2>1, <2>2
<1> HIDE DEF listed
<1>4. /\ \A d \in Cycles \ {c} : cycle'[d] = cycle[d]
      /\ cycle'[c] = [cycle[c] EXCEPT !.at = "extract", !.work = listed]
  BY <1>1, <1>2 DEF KnowledgeTypes
<1>5. /\ cycle'[c] \in CycleStates /\ cycle'[c].on /\ cycle'[c].at = "extract" /\
         cycle'[c].work = listed
      /\ ~cycle'[c].saving /\ cycle'[c].todo = cycle[c].todo
  BY <1>1, <1>3, <1>4 DEF CycleStates
<1>6. KnowledgeTypes'
  <2>1. cycle' \in [Cycles -> CycleStates]
    BY <1>1, <1>2, <1>5 DEF KnowledgeTypes
  <2> QED
    BY <1>1, <1>2, <2>1 DEF KnowledgeTypes, KnowledgeTypeOK
<1>7. InWork(c)' = e /\ Engaged(c)' /\ Len(listed) \in Nat
  BY <1>3, <1>5 DEF InWork, Engaged
<1>8. /\ \A d \in Cycles \ {c} : CycleInv(d)' /\ Engaged(d)' = Engaged(d) /\ InWork(d)' = InWork(d)
      /\ EdgesHaveNodes' /\ RowsFollowInv' /\ Named' = Named
  BY <1>1, <1>2, <1>4, <1>5, QuietKeeps
<1>9. CycleInv(c)'
  <2>1. CycleShape(c)' /\ HandInv(c)'
    BY <1>1, <1>2, <1>5, <1>7 DEF CycleShape, HandInv
  <2>2. e \notin Nameless => Joined(e)'
    <3>1. Left(c) = 0
      BY <1>1 DEF Left
    <3>2. ToDoInv(c)
      BY DEF KnowledgeInv, CycleInv
    <3>3. e \notin Nameless => Joined(e)
      BY <1>1, <3>1, <3>2 DEF ToDoInv, CycleAt, Joined
    <3> QED
      BY <1>2, <1>7, <1>8, <3>3 DEF Joined
  <2>3. listed = <<>> \/ \E m \in Extractable : IsRest(listed, ConceptWork(m)) /\ (Left(c)' <= 1 =>
        m \in Named')
    <3>1. CASE n = NoNode
      BY <3>1 DEF listed
    <3>2. CASE n # NoNode
      <4>1. listed = ConceptWork(n) /\ Len(ConceptWork(n)) = 2 /\ n \in Extractable
        BY <3>2 DEF listed, ConceptWork
      <4>2. Left(c)' = 2
        BY <1>5, <4>1 DEF Left
      <4>3. IsRest(listed, ConceptWork(n))
        BY <4>1 DEF IsRest
      <4> QED
        BY <4>1, <4>2, <4>3
    <3> QED
      BY <3>1, <3>2
  <2> QED
    BY <1>5, <1>7, <2>1, <2>2, <2>3 DEF CycleInv, ToDoInv, CycleAt
<1>10. OneHolder' /\ LessonsInv'
  BY <1>1, <1>2, <1>7, <1>8 DEF KnowledgeInv, OneHolder, LessonsInv
<1>11. CompleteInv'
  <2>1. \A f : IsComplete(f) => IsComplete(f)'
    BY <1>2, <1>8 DEF IsComplete, Joined
  <2>2. \A d \in Cycles : Engaged(d) => Engaged(d)' /\ InWork(d)' = InWork(d)
    BY <1>7, <1>8
  <2> QED
    BY <1>2, <2>1, <2>2 DEF KnowledgeInv, CompleteInv
<1> QED
  BY <1>6, <1>8, <1>9, <1>10, <1>11 DEF KnowledgeInv

\* The episode in hand is put down: all that belongs to it is there.
LEMMA EpisodeDoneKeeps ==
    ASSUME KnowledgeInv, NEW c \in Cycles, EpisodeDone(c)
    PROVE  KnowledgeInv'
<1> DEFINE e == InWork(c)
<1>1. /\ cycle[c].on /\ cycle[c].at = "extract" /\ cycle[c].todo # <<>> /\ cycle[c] \in CycleStates
      /\ e \in Episodes /\ KnowledgeTypes /\ cycle[c].work = <<>> /\ ~cycle[c].saving /\ Engaged(c)
      /\ Tail(cycle[c].todo) \in Seq(Episodes)
      /\ e \in consolidated /\ e \notin lost /\ lessons[e].facts = 1 /\ (e \notin Nameless => Joined(e))
  BY CycleTyped, InWorkTyped
     DEF EpisodeDone, CycleAt, KnowledgeInv, CycleInv, CycleShape, HandInv, ToDoInv, Engaged
<1>2. /\ UNCHANGED <<episodes, consolidated, lessons, nodes, relations, nodeRows, edgeRows, lost,
         muddled>>
      /\ cycle' = [cycle EXCEPT ![c].at = "next", ![c].todo = Tail(@)]
  BY DEF EpisodeDone
<1>3. /\ \A d \in Cycles \ {c} : cycle'[d] = cycle[d]
      /\ cycle'[c] = [cycle[c] EXCEPT !.at = "next", !.todo = Tail(@)]
  BY <1>1, <1>2 DEF KnowledgeTypes
<1>4. /\ cycle'[c] \in CycleStates /\ cycle'[c].on /\ cycle'[c].at = "next" /\ cycle'[c].work = <<>>
      /\ ~cycle'[c].saving
  BY <1>1, <1>3 DEF CycleStates
<1>5. KnowledgeTypes'
  <2>1. cycle' \in [Cycles -> CycleStates]
    BY <1>1, <1>2, <1>4 DEF KnowledgeTypes
  <2> QED
    BY <1>1, <1>2, <2>1 DEF KnowledgeTypes, KnowledgeTypeOK
<1>6. /\ \A d \in Cycles \ {c} : CycleInv(d)' /\ Engaged(d)' = Engaged(d) /\ InWork(d)' = InWork(d)
      /\ EdgesHaveNodes' /\ RowsFollowInv' /\ Named' = Named
  BY <1>1, <1>2, <1>3, <1>4, QuietKeeps
<1>7. CycleInv(c)' /\ ~Engaged(c)'
  BY <1>4 DEF CycleInv, CycleShape, HandInv, ToDoInv, CycleAt, Engaged
<1>8. OneHolder' /\ LessonsInv'
  BY <1>2, <1>6, <1>7 DEF KnowledgeInv, OneHolder, LessonsInv
<1>9. CompleteInv'
  <2>1. \A f : IsComplete(f) => IsComplete(f)'
    BY <1>2, <1>6 DEF IsComplete, Joined
  <2>2. IsComplete(e)
    BY <1>1 DEF IsComplete
  <2>3. \A d \in Cycles : Engaged(d) => (Engaged(d)' /\ InWork(d)' = InWork(d)) \/ InWork(d) = e
    BY <1>6
  <2> QED
    BY <1>2, <2>1, <2>2, <2>3 DEF KnowledgeInv, CompleteInv
<1> QED
  BY <1>5, <1>6, <1>7, <1>8, <1>9 DEF KnowledgeInv

\* The consolidation is over.
LEMMA ReturnsKeeps ==
    ASSUME KnowledgeInv, NEW c \in Cycles, ConsolidateReturns(c)
    PROVE  KnowledgeInv'
<1>1. /\ cycle[c].on /\ cycle[c].at = "next" /\ cycle[c] \in CycleStates
      /\ KnowledgeTypes /\ cycle[c].work = <<>> /\ ~cycle[c].saving /\ ~Engaged(c)
  BY CycleTyped DEF ConsolidateReturns, CycleAt, KnowledgeInv, CycleInv, CycleShape, Engaged
<1>2. /\ UNCHANGED <<episodes, consolidated, lessons, nodes, relations, nodeRows, edgeRows, lost,
         muddled>>
      /\ cycle' = [cycle EXCEPT ![c] = NoCycle]
  BY DEF ConsolidateReturns
<1>3. /\ \A d \in Cycles \ {c} : cycle'[d] = cycle[d]
      /\ cycle'[c] = NoCycle
  BY <1>1, <1>2 DEF KnowledgeTypes
<1>4. KnowledgeTypes'
  <2>1. cycle' \in [Cycles -> CycleStates]
    BY <1>1, <1>2, NoCycleIs DEF KnowledgeTypes
  <2> QED
    BY <1>1, <1>2, <2>1 DEF KnowledgeTypes, KnowledgeTypeOK
<1>5. CycleInv(c)' /\ ~Engaged(c)'
  BY <1>3, NoCycleIs DEF CycleInv, CycleShape, HandInv, ToDoInv, CycleAt, Engaged
<1>6. /\ \A d \in Cycles \ {c} : CycleInv(d)' /\ Engaged(d)' = Engaged(d) /\ InWork(d)' = InWork(d)
      /\ EdgesHaveNodes' /\ RowsFollowInv' /\ Named' = Named
  BY <1>1, <1>2, <1>3, NoCycleIs, QuietKeeps
<1>7. OneHolder' /\ LessonsInv' /\ CompleteInv'
  BY <1>1, <1>2, <1>5, <1>6 DEF KnowledgeInv, OneHolder, LessonsInv, CompleteInv, IsComplete, Joined
<1> QED
  BY <1>4, <1>5, <1>6, <1>7 DEF KnowledgeInv

\* An item of the work that is next.
LEMMA HeadOfWork ==
    ASSUME KnowledgeInv, NEW c \in Cycles, cycle[c].work # <<>>
    PROVE  /\ cycle[c].on /\ cycle[c].at \in {"graph", "extract"} /\ Engaged(c) /\ cycle[c].todo # <<>>
           /\ InWork(c) \in Episodes /\ InWork(c) \in consolidated
           /\ Head(cycle[c].work) \in WorkItems /\ Tail(cycle[c].work) \in Seq(WorkItems)
           /\ Len(cycle[c].work) \in Nat \ {0} /\ Len(Tail(cycle[c].work)) = Len(cycle[c].work) - 1
<1>1. CycleShape(c) /\ HandInv(c) /\ KnowledgeTypes
  BY DEF KnowledgeInv, CycleInv
<1>2. cycle[c].on /\ cycle[c].at \in {"graph", "extract"} /\ Engaged(c) /\ cycle[c].todo # <<>>
  BY <1>1, CycleTyped, NoCycleIs DEF CycleShape, HandInv, Engaged
<1>3. InWork(c) \in Episodes /\ InWork(c) \in consolidated
  BY <1>1, <1>2, InWorkTyped DEF HandInv
<1>4. /\ Head(cycle[c].work) \in WorkItems /\ Tail(cycle[c].work) \in Seq(WorkItems)
      /\ Len(cycle[c].work) \in Nat \ {0} /\ Len(Tail(cycle[c].work)) = Len(cycle[c].work) - 1
  BY <1>1, CycleTyped, HeadTailProperties, EmptySeq
<1> QED
  BY <1>2, <1>3, <1>4

\* What the next item is, by how many are left.
LEMMA ItemIsNext ==
    ASSUME KnowledgeInv, NEW c \in Cycles, cycle[c].work # <<>>
    PROVE  LET item == Head(cycle[c].work)
               n == Len(cycle[c].work)
               e == InWork(c)
           IN \/ /\ CycleAt(c, "graph") /\ e \notin Nameless
                 /\ \/ n = 3 /\ item = Node(e, "mission")
                    \/ n = 2 /\ item = Node(GoalName, "goal")
                    \/ n = 1 /\ item = Edge(e, GoalName)
              \/ /\ CycleAt(c, "extract")
                 /\ \E x \in Extractable :
                      /\ IsRest(cycle[c].work, ConceptWork(x))
                      /\ Left(c) <= 1 => x \in Named
                      /\ \/ n = 2 /\ item = Node(x, "concept")
                         \/ n = 1 /\ item = Edge(GoalName, x)
<1> DEFINE n == Len(cycle[c].work)
           e == InWork(c)
<1>1. /\ cycle[c].on /\ cycle[c].at \in {"graph", "extract"} /\ e \in Episodes /\ n \in Nat \ {0}
      /\ cycle[c].work \in Seq(WorkItems)
  BY HeadOfWork, CycleTyped DEF KnowledgeInv
<1>2. ToDoInv(c)
  BY DEF KnowledgeInv, CycleInv
<1>3. CASE cycle[c].at = "graph"
  <2>1. CycleAt(c, "graph") /\ e \notin Nameless /\ IsRest(cycle[c].work, MissionWork(e))
    BY <1>1, <1>2, <1>3 DEF ToDoInv, CycleAt
  <2>2. MissionWork(e) \in Seq(WorkItems)
    <3>1. /\ Node(e, "mission") \in WorkItems /\ Node(GoalName, "goal") \in WorkItems /\
             Edge(e, GoalName) \in WorkItems
      BY <1>1 DEF WorkItems, Node, Edge, NodeTypes, Entities
    <3> QED
      BY <3>1 DEF MissionWork
  <2>a. Len(MissionWork(e)) = 3
    BY DEF MissionWork
  <2>b. cycle[c].work # <<>>
    OBVIOUS
  <2>c. Head(cycle[c].work) = MissionWork(e)[Len(MissionWork(e)) - n + 1]
    BY <1>1, <2>1, <2>2, <2>b, TailIsRest
  <2>d. n <= Len(MissionWork(e))
    BY <2>1 DEF IsRest
  <2> HIDE DEF n
  <2>3. Head(cycle[c].work) = MissionWork(e)[3 - n + 1] /\ n <= 3
    BY <2>a, <2>c, <2>d
  <2>4. n = 3 \/ n = 2 \/ n = 1
    BY <1>1, <2>3
  <2>5. \/ n = 3 /\ Head(cycle[c].work) = Node(e, "mission")
        \/ n = 2 /\ Head(cycle[c].work) = Node(GoalName, "goal")
        \/ n = 1 /\ Head(cycle[c].work) = Edge(e, GoalName)
    <3>1. /\ MissionWork(e)[1] = Node(e, "mission") /\ MissionWork(e)[2] = Node(GoalName, "goal")
          /\ MissionWork(e)[3] = Edge(e, GoalName)
      BY DEF MissionWork
    <3> QED
      BY <2>3, <2>4, <3>1
  <2> QED
    BY <2>1, <2>5 DEF n
<1>4. CASE cycle[c].at = "extract"
  <2>1. PICK x \in Extractable : IsRest(cycle[c].work, ConceptWork(x)) /\ (Left(c) <= 1 => x \in Named)
    BY <1>1, <1>2, <1>4 DEF ToDoInv, CycleAt
  <2>2. ConceptWork(x) \in Seq(WorkItems)
    <3>1. Node(x, "concept") \in WorkItems /\ Edge(GoalName, x) \in WorkItems
      BY DEF WorkItems, Node, Edge, NodeTypes, Entities
    <3> QED
      BY <3>1 DEF ConceptWork
  <2>a. Len(ConceptWork(x)) = 2
    BY DEF ConceptWork
  <2>b. cycle[c].work # <<>>
    OBVIOUS
  <2>c. Head(cycle[c].work) = ConceptWork(x)[Len(ConceptWork(x)) - n + 1]
    BY <1>1, <2>1, <2>2, <2>b, TailIsRest
  <2>d. n <= Len(ConceptWork(x))
    BY <2>1 DEF IsRest
  <2> HIDE DEF n
  <2>3. Head(cycle[c].work) = ConceptWork(x)[2 - n + 1] /\ n <= 2
    BY <2>a, <2>c, <2>d
  <2>4. n = 2 \/ n = 1
    BY <1>1, <2>3
  <2>5. \/ n = 2 /\ Head(cycle[c].work) = Node(x, "concept")
        \/ n = 1 /\ Head(cycle[c].work) = Edge(GoalName, x)
    <3>1. ConceptWork(x)[1] = Node(x, "concept") /\ ConceptWork(x)[2] = Edge(GoalName, x)
      BY DEF ConceptWork
    <3> QED
      BY <2>3, <2>4, <3>1
  <2> QED
    BY <1>1, <1>4, <2>1, <2>5 DEF CycleAt, n
<1> QED
  BY <1>1, <1>3, <1>4

\* The rows follow: nothing that is in memory changes.
LEMMA SavedKeeps ==
    ASSUME KnowledgeInv, NEW c \in Cycles, cycle[c].saving, Saved(c),
           UNCHANGED <<episodes, consolidated, lessons, nodes, relations, lost>>,
           nodeRows' \in [Entities -> NodeTypes \cup {NoNode}], RowsFollowInv'
    PROVE  KnowledgeInv'
<1> DEFINE e == InWork(c)
           q == cycle[c].work
<1>1. /\ q # <<>> /\ cycle[c] \in CycleStates /\ KnowledgeTypes /\ CycleInv(c)
  BY CycleTyped DEF KnowledgeInv, CycleInv, CycleShape
<1>2. /\ cycle[c].on /\ cycle[c].at \in {"graph", "extract"} /\ Engaged(c) /\ q \in Seq(WorkItems)
      /\ Tail(q) \in Seq(WorkItems) /\ Len(q) \in Nat \ {0} /\ Len(Tail(q)) = Len(q) - 1
  BY <1>1, HeadOfWork, CycleTyped
<1>3. /\ \A d \in Cycles \ {c} : cycle'[d] = cycle[d]
      /\ cycle'[c] = [cycle[c] EXCEPT !.saving = FALSE, !.work = Tail(@)]
  BY <1>1 DEF Saved, KnowledgeTypes
<1>4. /\ cycle'[c] \in CycleStates /\ cycle'[c].on = cycle[c].on /\ cycle'[c].at = cycle[c].at
      /\ cycle'[c].work = Tail(q) /\ ~cycle'[c].saving /\ cycle'[c].todo = cycle[c].todo
  BY <1>1, <1>2, <1>3 DEF CycleStates
<1>5. KnowledgeTypes'
  <2>1. cycle' \in [Cycles -> CycleStates]
    BY <1>1, <1>4 DEF KnowledgeTypes, Saved
  <2> QED
    BY <1>1, <2>1 DEF KnowledgeTypes, KnowledgeTypeOK
<1>6. Named' = Named
  BY DEF Named
<1>7. InWork(c)' = e /\ Engaged(c)' /\ Left(c)' = Left(c) /\ \A s : CycleAt(c, s)' <=> CycleAt(c, s)
  BY <1>2, <1>4 DEF InWork, Engaged, Left, CycleAt
<1>8. \A d \in Cycles \ {c} : CycleInv(d)' /\ Engaged(d)' = Engaged(d) /\ InWork(d)' = InWork(d)
  BY <1>1, <1>3, <1>6, OtherKeeps DEF KnowledgeInv, CycleInv, HandInv
<1>9. CycleInv(c)'
  <2>1. CycleShape(c)' /\ HandInv(c)'
    BY <1>1, <1>2, <1>4, <1>7 DEF CycleInv, CycleShape, HandInv
  <2>2. \A w \in Seq(WorkItems) : IsRest(q, w) => IsRest(Tail(q), w)
    BY <1>1, <1>2, TailIsRest
  <2>3. e \in Episodes
    BY <1>1, HeadOfWork
  <2>4. CASE cycle[c].at = "graph"
    <3>1. e \notin Nameless /\ IsRest(q, MissionWork(e)) /\ MissionWork(e) \in Seq(WorkItems)
      <4>1. /\ Node(e, "mission") \in WorkItems /\ Node(GoalName, "goal") \in WorkItems /\
               Edge(e, GoalName) \in WorkItems
        BY <2>3 DEF WorkItems, Node, Edge, NodeTypes, Entities
      <4> QED
        BY <1>1, <1>2, <2>4, <4>1 DEF CycleInv, ToDoInv, CycleAt, MissionWork
    <3>2. IsRest(Tail(q), MissionWork(e))
      BY <2>2, <3>1
    <3>3. ToDoInv(c)
      BY <1>1 DEF CycleInv
    <3> QED
      BY <1>2, <1>4, <1>6, <1>7, <2>1, <2>4, <3>1, <3>2, <3>3 DEF CycleInv, ToDoInv, CycleAt
  <2>5. CASE cycle[c].at = "extract"
    <3>1. PICK x \in Extractable : IsRest(q, ConceptWork(x)) /\ (Left(c) <= 1 => x \in Named)
      BY <1>1, <1>2, <2>5 DEF CycleInv, ToDoInv, CycleAt
    <3>2. ConceptWork(x) \in Seq(WorkItems)
      <4>1. Node(x, "concept") \in WorkItems /\ Edge(GoalName, x) \in WorkItems
        BY DEF WorkItems, Node, Edge, NodeTypes, Entities
      <4> QED
        BY <4>1 DEF ConceptWork
    <3>3. IsRest(Tail(q), ConceptWork(x))
      BY <2>2, <3>1, <3>2
    <3>4. e \notin Nameless => Joined(e)
      BY <1>1, <1>2, <2>5 DEF CycleInv, ToDoInv, CycleAt
    <3>5. e \notin Nameless => Joined(InWork(c))'
      BY <1>6, <1>7, <3>4 DEF Joined
    <3> QED
      BY <1>2, <1>4, <1>6, <1>7, <2>1, <2>5, <3>1, <3>3, <3>5 DEF CycleInv, ToDoInv, CycleAt
  <2> QED
    BY <1>2, <2>4, <2>5
<1>10. OneHolder' /\ LessonsInv'
  BY <1>2, <1>7, <1>8 DEF KnowledgeInv, OneHolder, LessonsInv
<1>11. CompleteInv'
  <2>1. \A f : IsComplete(f) => IsComplete(f)'
    BY <1>6 DEF IsComplete, Joined
  <2>2. \A d \in Cycles : Engaged(d) => Engaged(d)' /\ InWork(d)' = InWork(d)
    BY <1>7, <1>8
  <2> QED
    BY <2>1, <2>2 DEF KnowledgeInv, CompleteInv
<1>12. EdgesHaveNodes'
  BY <1>6 DEF KnowledgeInv, EdgesHaveNodes
<1> QED
  BY <1>5, <1>8, <1>9, <1>10, <1>11, <1>12 DEF KnowledgeInv

\* While nothing is muddled the one who saves is alone.
LEMMA SaverIsAlone ==
    ASSUME KnowledgeInv, ~muddled, NEW c \in Cycles, cycle[c].on
    PROVE  \A d \in Cycles \ {c} : ~cycle[d].on /\ ~cycle[d].saving
<1> TAKE d \in Cycles \ {c}
<1>1. ~cycle[d].on
  BY DEF KnowledgeInv, RowsFollowInv, Running
<1> QED
  BY <1>1, NoCycleIs DEF KnowledgeInv, CycleInv, CycleShape

\* A commit of the graph makes the rows follow ...
LEMMA PersistKeeps ==
    ASSUME KnowledgeInv, NEW c \in Cycles, Persist(c)
    PROVE  KnowledgeInv'
<1> DEFINE item == Head(cycle[c].work)
<1>1. /\ cycle[c].saving /\ Saved(c) /\ UNCHANGED <<episodes, consolidated, lessons, nodes,
         relations, lost, muddled>>
  BY DEF Persist
<1>2. cycle[c].on /\ item \in WorkItems
  BY <1>1, HeadOfWork DEF KnowledgeInv, CycleInv, CycleShape
<1>3. /\ IsNode(item) => nodeRows' = [nodeRows EXCEPT ![item.from] = item.type] /\ edgeRows' = edgeRows
      /\ ~IsNode(item) => edgeRows' = edgeRows \cup {<<item.from, item.to>>} /\ nodeRows' = nodeRows
  BY DEF Persist
<1> HIDE DEF item
<1>4. nodeRows' \in [Entities -> NodeTypes \cup {NoNode}]
  BY <1>2, <1>3 DEF KnowledgeInv, KnowledgeTypes, WorkItems, IsNode
<1>5. /\ \A d \in Cycles \ {c} : cycle'[d] = cycle[d]
      /\ cycle'[c].on = cycle[c].on /\ ~cycle'[c].saving
  <2>1. cycle[c] \in CycleStates /\ cycle \in [Cycles -> CycleStates]
    BY DEF KnowledgeInv, KnowledgeTypes
  <2>2. cycle'[c] = [cycle[c] EXCEPT !.saving = FALSE, !.work = Tail(@)]
    BY <1>1, <2>1 DEF Saved
  <2>3. \A d \in Cycles \ {c} : cycle'[d] = cycle[d]
    BY <1>1, <2>1 DEF Saved
  <2>4. cycle'[c].on = cycle[c].on /\ ~cycle'[c].saving
    BY <2>1, <2>2 DEF CycleStates
  <2> QED
    BY <2>3, <2>4
<1>6. RowsFollowInv'
  <2> SUFFICES ASSUME ~muddled
               PROVE  /\ \A d, f \in Running' : d = f
                      /\ (\A d \in Cycles : ~cycle'[d].saving) => RowsFollow'
                      /\ \A d \in Cycles : cycle'[d].saving => Ahead(Head(cycle[d].work))'
    BY <1>1 DEF RowsFollowInv
  <2>1. Ahead(item)
    BY <1>1 DEF KnowledgeInv, RowsFollowInv, item
  <2>2. \A d \in Cycles \ {c} : ~cycle[d].on /\ ~cycle[d].saving
    BY <1>2, SaverIsAlone
  <2>3. RowsFollow'
    BY <1>1, <1>3, <2>1 DEF Ahead, RowsFollow
  <2>4. Running' = {c}
    BY <1>2, <1>5, <2>2 DEF Running
  <2>5. \A d \in Cycles : ~cycle'[d].saving
    BY <1>5, <2>2
  <2> QED
    BY <2>3, <2>4, <2>5
<1> QED
  BY <1>1, <1>4, <1>6, SavedKeeps

\* ... and one that fails leaves them behind, which muddles.
LEMMA PersistFailsKeeps ==
    ASSUME KnowledgeInv, NEW c \in Cycles, PersistFails(c)
    PROVE  KnowledgeInv'
<1>1. RowsFollowInv'
  BY DEF PersistFails, RowsFollowInv
<1>2. nodeRows' \in [Entities -> NodeTypes \cup {NoNode}]
  BY DEF PersistFails, KnowledgeInv, KnowledgeTypes
<1> QED
  BY <1>1, <1>2, SavedKeeps DEF PersistFails

\* An item reaches memory.
LEMMA AddKeeps ==
    ASSUME KnowledgeInv, NEW c \in Cycles, AddToGraph(c)
    PROVE  KnowledgeInv'
<1> USE KnowledgeAssumption
<1> DEFINE e == InWork(c)
           q == cycle[c].work
           item == Head(q)
           n == Len(q)
<1>1. /\ q # <<>> /\ ~cycle[c].saving /\ cycle[c] \in CycleStates /\ KnowledgeTypes /\ CycleInv(c)
  BY CycleTyped DEF KnowledgeInv, AddToGraph
<1>2. /\ cycle[c].on /\ cycle[c].at \in {"graph", "extract"} /\ Engaged(c)
      /\ item \in WorkItems /\ n \in Nat \ {0} /\ e \in Episodes /\ e \in consolidated
  BY <1>1, HeadOfWork
<1>3. UNCHANGED <<episodes, consolidated, lessons, nodeRows, edgeRows, lost, muddled>>
  BY DEF AddToGraph
<1>4. /\ \A d \in Cycles \ {c} : cycle'[d] = cycle[d]
      /\ cycle'[c] = [cycle[c] EXCEPT !.saving = TRUE]
  BY <1>1 DEF AddToGraph, KnowledgeTypes
<1>5. /\ cycle'[c] \in CycleStates /\ cycle'[c].on = cycle[c].on /\ cycle'[c].at = cycle[c].at
      /\ cycle'[c].work = q /\ cycle'[c].saving /\ cycle'[c].todo = cycle[c].todo
  BY <1>1, <1>4 DEF CycleStates
<1>6. /\ IsNode(item) => nodes' = [nodes EXCEPT ![item.from] = item.type] /\ relations' = relations
      /\ ~IsNode(item) => relations' = relations \cup {<<item.from, item.to>>} /\ nodes' = nodes
  BY DEF AddToGraph
<1>i. item.from \in Entities /\ item.to \in Entities /\ (IsNode(item) => item.type \in NodeTypes)
  BY <1>2 DEF WorkItems, IsNode
<1>7. LET it == item m == n f == e
      IN \/ /\ CycleAt(c, "graph") /\ f \notin Nameless
            /\ \/ m = 3 /\ it = Node(f, "mission")
               \/ m = 2 /\ it = Node(GoalName, "goal")
               \/ m = 1 /\ it = Edge(f, GoalName)
         \/ /\ CycleAt(c, "extract")
            /\ \E x \in Extractable :
                 /\ IsRest(q, ConceptWork(x))
                 /\ Left(c) <= 1 => x \in Named
                 /\ \/ m = 2 /\ it = Node(x, "concept")
                    \/ m = 1 /\ it = Edge(GoalName, x)
  BY <1>1, ItemIsNext
<1>8. Left(c) = n /\ Left(c)' = n - 1 /\ InWork(c)' = e /\ Engaged(c)'
      /\ \A s : CycleAt(c, s)' <=> CycleAt(c, s)
  BY <1>1, <1>2, <1>5 DEF Left, InWork, Engaged, CycleAt
<1> HIDE DEF item, n, q, e
<1>9. /\ nodes' \in [Entities -> NodeTypes \cup {NoNode}] /\ relations' \subseteq Entities \X Entities
  <2>1. nodes \in [Entities -> NodeTypes \cup {NoNode}] /\ relations \subseteq Entities \X Entities
    BY <1>1 DEF KnowledgeTypes, KnowledgeTypeOK
  <2> QED
    BY <1>6, <1>i, <2>1
<1>10. /\ Named \subseteq Named' /\ relations \subseteq relations'
       /\ IsNode(item) => item.from \in Named'
       /\ ~IsNode(item) => <<item.from, item.to>> \in relations'
  <2>1. nodes \in [Entities -> NodeTypes \cup {NoNode}] /\ NoNode \notin NodeTypes
    BY <1>1 DEF KnowledgeTypes, NodeTypes
  <2> QED
    BY <1>6, <1>i, <2>1 DEF Named
<1>11. KnowledgeTypes'
  <2>1. cycle' \in [Cycles -> CycleStates]
    BY <1>1, <1>5 DEF KnowledgeTypes, AddToGraph
  <2>2. \A m \in Entities : nodes'[m] \in {"mission", "goal", "concept", NoNode}
    BY <1>9 DEF NodeTypes
  <2> QED
    BY <1>1, <1>3, <1>9, <2>1, <2>2 DEF KnowledgeTypes, KnowledgeTypeOK
<1>12. \A d \in Cycles \ {c} : CycleInv(d)' /\ Engaged(d)' = Engaged(d) /\ InWork(d)' = InWork(d)
  BY <1>1, <1>3, <1>4, <1>10, OtherKeeps DEF KnowledgeInv, CycleInv, HandInv
<1>13. CycleShape(c)' /\ HandInv(c)'
  BY <1>1, <1>2, <1>3, <1>5, <1>8 DEF CycleInv, CycleShape, HandInv, q, e
<1>14. ASSUME CycleAt(c, "graph"), e \notin Nameless,
              \/ n = 3 /\ item = Node(e, "mission")
              \/ n = 2 /\ item = Node(GoalName, "goal")
              \/ n = 1 /\ item = Edge(e, GoalName)
       PROVE  /\ IsRest(q, MissionWork(e)) /\ (n <= 3 => e \in Named')
              /\ (n <= 2 => GoalName \in Named') /\ (n <= 1 => <<e, GoalName>> \in relations')
              /\ n = 1 => e \in Named /\ GoalName \in Named
              /\ ~IsNode(item) => n = 1 /\ item.from = e /\ item.to = GoalName
  <2>1. ToDoInv(c)
    BY <1>1 DEF CycleInv
  <2>2. /\ IsRest(q, MissionWork(e)) /\ (n <= 2 => e \in Named) /\ (n <= 1 => GoalName \in Named)
    BY <1>8, <1>14, <2>1 DEF ToDoInv, e, q
  <2>3. CASE n = 3
    <3>1. IsNode(item) /\ item.from = e
      BY <1>14, <2>3, ItemsAre DEF NodeTypes
    <3> QED
      BY <1>10, <2>2, <2>3, <3>1
  <2>4. CASE n = 2
    <3>1. IsNode(item) /\ item.from = GoalName
      BY <1>14, <2>4, ItemsAre DEF NodeTypes
    <3> QED
      BY <1>10, <2>2, <2>4, <3>1
  <2>5. CASE n = 1
    <3>1. ~IsNode(item) /\ item.from = e /\ item.to = GoalName
      BY <1>14, <2>5, ItemsAre DEF NodeTypes
    <3> QED
      BY <1>10, <2>2, <2>5, <3>1
  <2> QED
    BY <1>14, <2>3, <2>4, <2>5
<1>15. ASSUME CycleAt(c, "extract"), NEW x \in Extractable, Left(c) <= 1 => x \in Named,
              \/ n = 2 /\ item = Node(x, "concept")
              \/ n = 1 /\ item = Edge(GoalName, x)
       PROVE  /\ n <= 2 => x \in Named'
              /\ ~IsNode(item) => n = 1 /\ item.from = GoalName /\ item.to = x /\ x \in Named
  <2>1. CASE n = 2
    <3>1. IsNode(item) /\ item.from = x
      BY <1>15, <2>1, ItemsAre DEF NodeTypes
    <3> QED
      BY <1>10, <3>1
  <2>2. CASE n = 1
    <3>1. ~IsNode(item) /\ item.from = GoalName /\ item.to = x
      BY <1>15, <2>2, ItemsAre DEF NodeTypes
    <3> QED
      BY <1>8, <1>10, <1>15, <2>2, <3>1
  <2> QED
    BY <1>15, <2>1, <2>2
<1>16. ToDoInv(c)' /\ EdgesHaveNodes'
  <2>0. ToDoInv(c) /\ EdgesHaveNodes
    BY <1>1 DEF CycleInv, KnowledgeInv
  <2>1. CASE cycle[c].at = "graph"
    <3>1. /\ CycleAt(c, "graph") /\ e \notin Nameless
          /\ \/ n = 3 /\ item = Node(e, "mission")
             \/ n = 2 /\ item = Node(GoalName, "goal")
             \/ n = 1 /\ item = Edge(e, GoalName)
      BY <1>7, <2>1 DEF CycleAt
    <3>2. /\ IsRest(q, MissionWork(e)) /\ (n <= 3 => e \in Named')
          /\ (n <= 2 => GoalName \in Named') /\ (n <= 1 => <<e, GoalName>> \in relations')
          /\ n = 1 => e \in Named /\ GoalName \in Named
          /\ ~IsNode(item) => n = 1 /\ item.from = e /\ item.to = GoalName
      BY <1>14, <3>1
    <3>3. /\ n - 1 <= 2 => n <= 3
          /\ n - 1 <= 1 => n <= 2
          /\ n - 1 <= 0 => n <= 1
      BY <1>2 DEF n
    <3>4. ToDoInv(c)'
      BY <1>2, <1>5, <1>8, <2>1, <3>1, <3>2, <3>3 DEF ToDoInv, CycleAt
    <3>5. EdgesHaveNodes'
      BY <1>3, <1>6, <1>10, <2>0, <3>2 DEF EdgesHaveNodes
    <3> QED
      BY <3>4, <3>5
  <2>2. CASE cycle[c].at = "extract"
    <3>1. PICK x \in Extractable : /\ IsRest(q, ConceptWork(x)) /\ (Left(c) <= 1 => x \in Named)
                                   /\ \/ n = 2 /\ item = Node(x, "concept")
                                      \/ n = 1 /\ item = Edge(GoalName, x)
      BY <1>7, <2>2 DEF CycleAt
    <3>2. CycleAt(c, "extract") /\ (e \notin Nameless => Joined(e))
      BY <1>2, <2>0, <2>2 DEF ToDoInv, CycleAt, e
    <3>3. /\ n <= 2 => x \in Named'
          /\ ~IsNode(item) => n = 1 /\ item.from = GoalName /\ item.to = x /\ x \in Named
      BY <1>15, <3>1, <3>2
    <3>4. n - 1 <= 1 => n <= 2
      BY <1>2 DEF n
    <3>5. e \notin Nameless => Joined(InWork(c))'
      BY <1>8, <1>10, <3>2 DEF Joined
    <3>6. ToDoInv(c)'
      BY <1>2, <1>5, <1>8, <2>2, <3>1, <3>3, <3>4, <3>5 DEF ToDoInv, CycleAt
    <3>7. GoalName \in Named \/ consolidated \cap Nameless # {}
      BY <1>2, <3>2 DEF Joined
    <3>8. EdgesHaveNodes'
      BY <1>3, <1>6, <1>10, <2>0, <3>3, <3>7 DEF EdgesHaveNodes
    <3> QED
      BY <3>6, <3>8
  <2> QED
    BY <1>2, <2>1, <2>2
<1>17. OneHolder' /\ LessonsInv'
  BY <1>2, <1>3, <1>8, <1>12 DEF KnowledgeInv, OneHolder, LessonsInv, e
<1>18. CompleteInv'
  <2>1. \A f : IsComplete(f) => IsComplete(f)'
    BY <1>3, <1>10 DEF IsComplete, Joined
  <2>2. \A d \in Cycles : Engaged(d) => Engaged(d)' /\ InWork(d)' = InWork(d)
    BY <1>8, <1>12 DEF e
  <2> QED
    BY <1>3, <2>1, <2>2 DEF KnowledgeInv, CompleteInv
<1>19. RowsFollowInv'
  <2> SUFFICES ASSUME ~muddled
               PROVE  /\ \A d, f \in Running' : d = f
                      /\ (\A d \in Cycles : ~cycle'[d].saving) => RowsFollow'
                      /\ \A d \in Cycles : cycle'[d].saving => Ahead(Head(cycle[d].work))'
    BY <1>3 DEF RowsFollowInv
  <2>1. \A d \in Cycles \ {c} : ~cycle[d].on /\ ~cycle[d].saving
    BY <1>2, SaverIsAlone
  <2>2. RowsFollow
    BY <1>1, <2>1 DEF KnowledgeInv, RowsFollowInv
  <2>3. Ahead(item)'
    <3>1. Head(cycle[c].work)' = item
      BY <1>5 DEF item, q
    <3> QED
      BY <1>3, <1>6, <2>2, <1>5 DEF Ahead, RowsFollow, item, q
  <2>4. Running' = {c}
    BY <1>2, <1>4, <1>5, <2>1 DEF Running
  <2>5. \A d \in Cycles : cycle'[d].saving => d = c
    BY <1>4, <2>1
  <2>6. Ahead(Head(cycle[c].work))'
    BY <2>3 DEF item, q
  <2> QED
    BY <1>5, <2>4, <2>5, <2>6
<1> QED
  BY <1>11, <1>12, <1>13, <1>16, <1>17, <1>18, <1>19 DEF KnowledgeInv, CycleInv

\* What the cancelled caller had in hand is lost, and nobody takes it up.
LEMMA CutOffKeeps ==
    ASSUME KnowledgeInv, NEW c \in Cycles, CutOffCycle(c)
    PROVE  KnowledgeInv'
<1>1. /\ cycle[c].on /\ KnowledgeTypes /\ CycleInv(c)
      /\ UNCHANGED <<episodes, consolidated, lessons, nodes, relations, nodeRows, edgeRows>>
      /\ cycle' = [cycle EXCEPT ![c] = NoCycle]
      /\ lost' = lost \cup InHand(c) /\ muddled' = (muddled \/ cycle[c].saving)
  BY DEF CutOffCycle, KnowledgeInv
<1>2. \A d \in Cycles : InHand(d) = IF Engaged(d) THEN {InWork(d)} ELSE {}
  BY DEF InHand, Engaged
<1>3. /\ \A d \in Cycles \ {c} : cycle'[d] = cycle[d]
      /\ cycle'[c] = NoCycle
  BY <1>1 DEF KnowledgeTypes
<1>4. lost' \subseteq consolidated
  BY <1>1, <1>2 DEF CycleInv, HandInv, KnowledgeTypes, KnowledgeTypeOK
<1>5. KnowledgeTypes'
  <2>1. cycle' \in [Cycles -> CycleStates]
    BY <1>1, NoCycleIs DEF KnowledgeTypes
  <2> QED
    BY <1>1, <1>4, <2>1 DEF KnowledgeTypes, KnowledgeTypeOK
<1>6. CycleInv(c)' /\ ~Engaged(c)'
  BY <1>3, NoCycleIs DEF CycleInv, CycleShape, HandInv, ToDoInv, CycleAt, Engaged
<1>7. Named' = Named
  BY <1>1 DEF Named
<1>8. \A d \in Cycles \ {c} : CycleInv(d)' /\ Engaged(d)' = Engaged(d) /\ InWork(d)' = InWork(d)
  <2> TAKE d \in Cycles \ {c}
  <2>1. Engaged(d) => InWork(d) \notin lost'
    BY <1>1, <1>2 DEF KnowledgeInv, OneHolder, CycleInv, HandInv
  <2> QED
    BY <1>1, <1>3, <1>7, <2>1, OtherKeeps DEF KnowledgeInv
<1>9. OneHolder' /\ LessonsInv'
  BY <1>1, <1>6, <1>8 DEF KnowledgeInv, OneHolder, LessonsInv
<1>10. CompleteInv'
  <2>1. \A f : IsComplete(f) => IsComplete(f)'
    BY <1>1, <1>7 DEF IsComplete, Joined
  <2>2. \A d \in Cycles : Engaged(d) => (Engaged(d)' /\ InWork(d)' = InWork(d)) \/ InWork(d) \in lost'
    BY <1>1, <1>2, <1>8
  <2> QED
    BY <1>1, <2>1, <2>2 DEF KnowledgeInv, CompleteInv
<1>11. EdgesHaveNodes'
  BY <1>1, <1>7 DEF KnowledgeInv, EdgesHaveNodes
<1>12. RowsFollowInv'
  <2> SUFFICES ASSUME ~muddled, ~cycle[c].saving
               PROVE  /\ \A d, f \in Running' : d = f
                      /\ (\A d \in Cycles : ~cycle'[d].saving) => RowsFollow'
                      /\ \A d \in Cycles : cycle'[d].saving => Ahead(Head(cycle[d].work))'
    BY <1>1 DEF RowsFollowInv
  <2>1. \A d \in Cycles \ {c} : ~cycle[d].on /\ ~cycle[d].saving
    BY <1>1, SaverIsAlone
  <2>2. \A d \in Cycles : ~cycle'[d].on /\ ~cycle'[d].saving
    BY <1>3, <2>1, NoCycleIs
  <2>3. RowsFollow
    BY <2>1 DEF KnowledgeInv, RowsFollowInv
  <2> QED
    BY <1>1, <2>2, <2>3 DEF Running, RowsFollow
<1> QED
  BY <1>5, <1>6, <1>8, <1>9, <1>10, <1>11, <1>12 DEF KnowledgeInv

\* Nothing is known and nothing under way.
LEMMA KnowledgeStarts == ASSUME KnowledgeInit PROVE KnowledgeInv
<1> USE DEF KnowledgeInit
<1>1. \A c \in Cycles : cycle[c] = NoCycle /\ ~cycle[c].on /\ ~cycle[c].saving /\ ~Engaged(c)
  BY NoCycleIs DEF Engaged
<1>2. KnowledgeTypes
  <2>1. lessons \in [Episodes -> [experiences : Nat, facts : Nat]]
    BY DEF NoLessons
  <2>2. cycle \in [Cycles -> CycleStates]
    BY NoCycleIs
  <2> QED
    BY <2>1, <2>2 DEF KnowledgeTypes, KnowledgeTypeOK, NodeTypes
<1>3. \A c \in Cycles : CycleInv(c)
  BY <1>1, NoCycleIs DEF CycleInv, CycleShape, HandInv, ToDoInv, CycleAt
<1>4. OneHolder /\ CompleteInv /\ EdgesHaveNodes
  BY <1>1 DEF OneHolder, CompleteInv, EdgesHaveNodes
<1>5. LessonsInv
  BY DEF LessonsInv, NoLessons
<1>6. RowsFollowInv
  BY <1>1 DEF RowsFollowInv, Running, RowsFollow
<1> QED
  BY <1>2, <1>3, <1>4, <1>5, <1>6 DEF KnowledgeInv

\* Nothing but the rows is left.
LEMMA RestartAndLoadKeeps == ASSUME KnowledgeInv, RestartAndLoad PROVE KnowledgeInv'
<1>1. nodeRows' \in [Entities -> NodeTypes \cup {NoNode}]
  BY DEF KnowledgeInv, KnowledgeTypes, RestartAndLoad
<1>2. \A c \in Cycles : cycle'[c] = NoCycle /\ ~cycle'[c].on /\ ~cycle'[c].saving /\ ~Engaged(c)'
  BY NoCycleIs DEF RestartAndLoad, Engaged
<1>3. KnowledgeTypes'
  <2>1. lessons' \in [Episodes -> [experiences : Nat, facts : Nat]]
    BY DEF NoLessons, RestartAndLoad
  <2>2. cycle' \in [Cycles -> CycleStates]
    BY NoCycleIs DEF RestartAndLoad
  <2> QED
    BY <1>1, <2>1, <2>2 DEF KnowledgeTypes, KnowledgeTypeOK, NodeTypes, RestartAndLoad
<1>4. \A c \in Cycles : CycleInv(c)'
  BY <1>2, NoCycleIs DEF CycleInv, CycleShape, HandInv, ToDoInv, CycleAt
<1>5. OneHolder' /\ CompleteInv' /\ EdgesHaveNodes'
  BY <1>2 DEF OneHolder, CompleteInv, EdgesHaveNodes, RestartAndLoad
<1>6. LessonsInv'
  BY DEF LessonsInv, NoLessons, RestartAndLoad
<1>7. RowsFollowInv'
  BY <1>2 DEF RowsFollowInv, Running, RowsFollow, RestartAndLoad
<1> QED
  BY <1>3, <1>4, <1>5, <1>6, <1>7 DEF KnowledgeInv

\* Every step keeps it.
LEMMA KnowledgeStepKeeps == ASSUME KnowledgeInv, [KnowledgeNext]_knowledgeVars PROVE KnowledgeInv'
<1>1. CASE UNCHANGED knowledgeVars
  <2> USE <1>1 DEF knowledgeVars
  <2>1. KnowledgeTypes' /\ EdgesHaveNodes'
    BY DEF KnowledgeInv, KnowledgeTypes, KnowledgeTypeOK, EdgesHaveNodes, Named
  <2>2. \A c \in Cycles : CycleInv(c)' /\ Engaged(c)' = Engaged(c) /\ InWork(c)' = InWork(c)
    BY OtherKeeps DEF KnowledgeInv, CycleInv, HandInv, Named
  <2>3. OneHolder' /\ LessonsInv' /\ CompleteInv'
    BY <2>2 DEF KnowledgeInv, OneHolder, LessonsInv, CompleteInv, IsComplete, Joined, Named
  <2>4. RowsFollowInv'
    BY DEF KnowledgeInv, RowsFollowInv, Running, RowsFollow, Ahead
  <2> QED
    BY <2>1, <2>2, <2>3, <2>4 DEF KnowledgeInv
<1>2. CASE KnowledgeNext
  BY <1>2, RecordKeeps, RestartAndLoadKeeps, ConsolidateKeeps, NextKeeps, DistillKeeps,
     ExtractKeeps,
     EpisodeDoneKeeps, ReturnsKeeps, AddKeeps, PersistKeeps, PersistFailsKeeps, CutOffKeeps
     DEF KnowledgeNext
<1> QED
  BY <1>1, <1>2

\* The invariant is more than what KnowledgeSafe says.
LEMMA KnowledgeInvSafe == ASSUME KnowledgeInv PROVE KnowledgeSafe
<1>1. NoEpisodeTwice
  BY DEF KnowledgeInv, LessonsInv, NoEpisodeTwice
<1>2. ConsolidatedIsComplete
  <2> SUFFICES ASSUME NEW e \in consolidated, e \notin lost, \A c \in Cycles : e \notin InHand(c)
               PROVE  lessons[e].facts = 1 /\ (e \notin Nameless => Joined(e))
    BY DEF ConsolidatedIsComplete, Joined
  <2>1. \A c \in Cycles : ~(Engaged(c) /\ InWork(c) = e)
    BY DEF InHand, Engaged
  <2> QED
    BY <2>1 DEF KnowledgeInv, CompleteInv, IsComplete
<1>3. GraphIsStored
  <2> SUFFICES ASSUME Running = {}, ~muddled
               PROVE  RowsFollow
    BY DEF GraphIsStored, RowsFollow
  <2>1. \A c \in Cycles : ~cycle[c].saving
    BY NoCycleIs DEF KnowledgeInv, CycleInv, CycleShape, Running
  <2> QED
    BY <2>1 DEF KnowledgeInv, RowsFollowInv
<1> QED
  BY <1>1, <1>2, <1>3 DEF KnowledgeInv, KnowledgeTypes, KnowledgeSafe

-----------------------------------------------------------------------------
(* The chunk store.                                                        *)

\* The types, as far as the model's type invariant leaves them open.
ChunkTypes == ChunksTypeOK /\ lru \in Seq(ChunkIds)

\* A sequence without repetitions.
NoneTwice(s) == \A i, j \in DOMAIN s : s[i] = s[j] => i = j

\* The working memory.
CacheInv == NoneTwice(lru) /\ Len(lru) <= WorkingSize /\ working = Range(lru)

\* What is true of a call at a point with a chunk in hand and something flushed.
CallIs(point, k, f) ==
    /\ point = "idle" => k = NoChunk
    /\ point # "idle" => k \in ChunkIds
    /\ f = "nothing" <=> point \notin {"announce", "unannounce", "commit"}
    /\ point = "announce" => f = "live"
    /\ point = "unannounce" => f = "deleted"
    /\ f = "live" => Unique(k)
    /\ f \in {"deleted", "dropped"} \/ point \in {"delete", "drop"} => row[k] # "none"

\* The calls, of which one at a time has flushed something of a content.
ChunkCallsInv ==
    /\ \A p \in ChunkCalls : CallIs(chunkAt[p], hand[p], flushed[p])
    /\ \A p \in ChunkCalls : \A q \in ChunkCalls \ {p} :
         flushed[p] # "nothing" /\ flushed[q] # "nothing" => hand[q] \notin SameText(hand[p])

\* The events and the index.
IndexInv ==
    /\ vector \subseteq ChunkIds /\ node \subseteq ChunkIds /\ processed \subseteq Indexed
    /\ removed \subseteq ChunkIds
    /\ \A k \in removed : row[k] # "none"
    /\ \A k \in processed : row[k] = "none" => k \in hasty
    /\ \A k \in Indexed :
         /\ indexing[k] \in {"vector", "node"} => row[k] # "none"
         /\ indexing[k] = "node" /\ Live(k) /\ k \notin hasty => k \in vector

\* A deletion is announced before it is committed.
GoneInv ==
    \A k \in ChunkIds \ raced :
        /\ row[k] = "deleted" \/ Leaving(k) => (k \in vector => k \in removed)
        /\ row[k] = "dropped" => k \notin working

\* The inductive invariant. MemoryChunksSafe lacks what the calls and handlers under
\* way rely on: what their transactions have flushed, and that no other has.
ChunkInv ==
    /\ ChunkTypes /\ CacheInv /\ ChunkCallsInv /\ IndexInv /\ GoneInv
    /\ OneChunkPerHash /\ IndexedMeansIndexed

\* The range of a sequence without repetitions has as many elements as it is long.
LEMMA OnceCounts ==
    ASSUME NEW S, NEW s \in Seq(S), NoneTwice(s)
    PROVE  Cardinality(Range(s)) = Len(s)
<1>1. Len(s) \in Nat /\ DOMAIN s = 1 .. Len(s)
  OBVIOUS
<1>2. IsFiniteSet(1 .. Len(s)) /\ Cardinality(1 .. Len(s)) = Len(s)
  BY <1>1, FS_Interval
<1>3. s \in Bijection(1 .. Len(s), Range(s))
  BY <1>1 DEF Bijection, Injection, Surjection, IsInjective, NoneTwice, Range
<1>4. IsFiniteSet(Range(s)) /\ Cardinality(Range(s)) = Cardinality(1 .. Len(s))
  BY <1>2, <1>3, FS_Bijection DEF ExistsBijection
<1> QED
  BY <1>2, <1>4

\* Removing an element keeps the others, once each.
LEMMA WithoutIs ==
    ASSUME NEW S, NEW s \in Seq(S), NoneTwice(s), NEW k
    PROVE  /\ Without(s, k) \in Seq(S) /\ NoneTwice(Without(s, k))
           /\ Range(Without(s, k)) = Range(s) \ {k}
           /\ Len(Without(s, k)) <= Len(s)
           /\ k \in Range(s) => Len(Without(s, k)) = Len(s) - 1
<1>1. CASE k \notin Range(s)
  BY <1>1 DEF Without
<1>2. CASE k \in Range(s)
  <2> DEFINE n == Len(s)
             i == CHOOSE j \in DOMAIN s : s[j] = k
             a == SubSeq(s, 1, i - 1)
             b == SubSeq(s, i + 1, n)
             t == a \o b
  <2>1. n \in Nat /\ DOMAIN s = 1 .. n
    OBVIOUS
  <2>2. i \in 1 .. n /\ s[i] = k
    BY <1>2, <2>1 DEF Range
  <2>3. \A j \in 1 .. n : s[j] \in S
    BY <2>1
  <2>4. Without(s, k) = t
    BY <1>2 DEF Without, RemoveAt
  <2> HIDE DEF n, i
  <2>5. a \in Seq(S) /\ Len(a) = i - 1 /\ \A j \in 1 .. i - 1 : a[j] = s[j]
    <3>1. 1 \in Int /\ i - 1 \in Int /\ \A j \in 1 .. i - 1 : s[j] \in S
      BY <2>1, <2>2, <2>3
    <3>2. /\ a \in Seq(S) /\ Len(a) = IF 1 <= i - 1 THEN (i - 1) - 1 + 1 ELSE 0
          /\ \A j \in 1 .. (i - 1) - 1 + 1 : a[j] = s[1 + j - 1]
      BY <3>1, SubSeqProperties
    <3> HIDE DEF a
    <3> QED
      BY <2>1, <2>2, <3>2
  <2>6. b \in Seq(S) /\ Len(b) = n - i /\ \A j \in 1 .. n - i : b[j] = s[i + j]
    <3>1. i + 1 \in Int /\ n \in Int /\ \A j \in i + 1 .. n : s[j] \in S
      BY <2>1, <2>2, <2>3
    <3>2. /\ b \in Seq(S) /\ Len(b) = IF i + 1 <= n THEN n - (i + 1) + 1 ELSE 0
          /\ \A j \in 1 .. n - (i + 1) + 1 : b[j] = s[(i + 1) + j - 1]
      BY <3>1, SubSeqProperties
    <3> HIDE DEF b
    <3>3. Len(b) = n - i
      BY <2>1, <2>2, <3>2
    <3>4. ASSUME NEW j \in 1 .. n - i
          PROVE  b[j] = s[i + j]
      <4>1. j \in 1 .. n - (i + 1) + 1 /\ (i + 1) + j - 1 = i + j
        BY <2>1, <2>2
      <4> QED
        BY <3>2, <4>1
    <3> QED
      BY <3>2, <3>3, <3>4
  <2> HIDE DEF a, b
  <2>7. /\ t \in Seq(S) /\ Len(t) = n - 1
        /\ \A j \in 1 .. n - 1 : t[j] = s[IF j < i THEN j ELSE j + 1]
    <3>1. /\ t \in Seq(S) /\ Len(t) = Len(a) + Len(b)
          /\ \A j \in 1 .. Len(a) + Len(b) : t[j] = IF j <= Len(a) THEN a[j] ELSE b[j - Len(a)]
      BY <2>5, <2>6, ConcatProperties
    <3>2. Len(a) + Len(b) = n - 1
      BY <2>1, <2>2, <2>5, <2>6
    <3>3. ASSUME NEW j \in 1 .. n - 1
          PROVE  t[j] = s[IF j < i THEN j ELSE j + 1]
      <4>1. CASE j < i
        <5>1. j \in 1 .. i - 1 /\ j <= Len(a)
          BY <2>1, <2>2, <2>5, <4>1
        <5> QED
          BY <2>5, <3>1, <3>2, <4>1, <5>1
      <4>2. CASE ~(j < i)
        <5>1. j - (i - 1) \in 1 .. n - i /\ ~(j <= Len(a)) /\ i + (j - (i - 1)) = j + 1
          BY <2>1, <2>2, <2>5, <4>2
        <5>2. t[j] = b[j - (i - 1)]
          BY <2>5, <3>1, <3>2, <5>1
        <5> QED
          BY <2>6, <4>2, <5>1, <5>2
      <4> QED
        BY <4>1, <4>2
    <3> QED
      BY <3>1, <3>2, <3>3
  <2> HIDE DEF t
  <2>8. DOMAIN t = 1 .. n - 1
    BY <2>1, <2>2, <2>7
  <2>9. NoneTwice(t)
    <3> SUFFICES ASSUME NEW j \in 1 .. n - 1, NEW m \in 1 .. n - 1, t[j] = t[m]
                 PROVE  j = m
      BY <2>8 DEF NoneTwice
    <3> DEFINE x == IF j < i THEN j ELSE j + 1
               y == IF m < i THEN m ELSE m + 1
    <3>1. x \in 1 .. n /\ y \in 1 .. n /\ s[x] = s[y]
      BY <2>1, <2>2, <2>7
    <3>2. x = y
      BY <2>1, <3>1 DEF NoneTwice
    <3> QED
      BY <2>1, <2>2, <3>2
  <2>10. Range(t) = Range(s) \ {k}
    <3>1. ASSUME NEW j \in 1 .. n - 1
          PROVE  t[j] \in Range(s) \ {k}
      <4> DEFINE x == IF j < i THEN j ELSE j + 1
      <4>1. x \in 1 .. n /\ x # i /\ t[j] = s[x]
        BY <2>1, <2>2, <2>7
      <4> QED
        BY <2>1, <2>2, <4>1 DEF NoneTwice, Range
    <3>2. ASSUME NEW x \in 1 .. n, s[x] # k
          PROVE  \E j \in 1 .. n - 1 : t[j] = s[x]
      <4>1. x # i
        BY <2>2, <3>2
      <4>2. CASE x < i
        BY <2>1, <2>2, <2>7, <4>2
      <4>3. CASE x > i
        <5>1. x - 1 \in 1 .. n - 1 /\ ~(x - 1 < i) /\ (x - 1) + 1 = x
          BY <2>1, <2>2, <4>3
        <5> QED
          BY <2>7, <5>1
      <4> QED
        BY <2>1, <2>2, <4>1, <4>2, <4>3
    <3> QED
      BY ZenonT(20), <2>1, <2>8, <3>1, <3>2 DEF Range
  <2> QED
    BY <1>2, <2>1, <2>4, <2>7, <2>9, <2>10 DEF n
<1> QED
  BY <1>1, <1>2

\* A new element at the end repeats nothing.
LEMMA AppendNew ==
    ASSUME NEW S, NEW s \in Seq(S), NoneTwice(s), NEW k \in S, k \notin Range(s)
    PROVE  /\ Append(s, k) \in Seq(S) /\ NoneTwice(Append(s, k)) /\ Len(Append(s, k)) = Len(s) + 1
           /\ Range(Append(s, k)) = Range(s) \cup {k}
<1> DEFINE t == Append(s, k)
<1>1. /\ t \in Seq(S) /\ Len(t) = Len(s) + 1 /\ t[Len(s) + 1] = k /\ DOMAIN t = 1 .. Len(s) + 1
      /\ \A i \in 1 .. Len(s) : t[i] = s[i]
  BY AppendProperties
<1>2. Len(s) \in Nat /\ DOMAIN s = 1 .. Len(s)
  OBVIOUS
<1> HIDE DEF t
<1>3. \A i \in 1 .. Len(s) : t[i] # k
  BY <1>1, <1>2 DEF Range
<1>4. NoneTwice(t)
  <2> SUFFICES ASSUME NEW i \in 1 .. Len(s) + 1, NEW j \in 1 .. Len(s) + 1, t[i] = t[j]
               PROVE  i = j
    BY <1>1 DEF NoneTwice
  <2> QED
    BY <1>1, <1>2, <1>3 DEF NoneTwice
<1>5. Range(t) = Range(s) \cup {k}
  <2>1. Range(t) \subseteq Range(s) \cup {k}
    BY <1>1, <1>2 DEF Range
  <2>2. Len(s) + 1 \in 1 .. Len(s) + 1 /\ \A i \in 1 .. Len(s) : i \in 1 .. Len(s) + 1
    BY <1>2
  <2>3. Range(s) \cup {k} \subseteq Range(t)
    BY <1>1, <1>2, <2>2 DEF Range
  <2> QED
    BY <2>1, <2>3
<1> QED
  BY <1>1, <1>4, <1>5 DEF t

\* What is left after the eviction fits and repeats nothing.
LEMMA EvictedIs ==
    ASSUME NEW S, NEW s \in Seq(S), NoneTwice(s)
    PROVE  /\ Evicted(s) \in Seq(S) /\ NoneTwice(Evicted(s)) /\ Len(Evicted(s)) <= WorkingSize
           /\ Range(Evicted(s)) \subseteq Range(s)
<1> USE ChunkAssumption
<1>1. Len(s) \in Nat /\ DOMAIN s = 1 .. Len(s)
  OBVIOUS
<1>2. CASE Len(s) <= WorkingSize
  BY <1>1, <1>2 DEF Evicted
<1>3. CASE Len(s) > WorkingSize
  <2> DEFINE m == Len(s) - WorkingSize
             t == SubSeq(s, m + 1, Len(s))
  <2>1. Evicted(s) = t
    BY <1>3 DEF Evicted
  <2>2. m \in Nat /\ m + 1 \in Int /\ Len(s) \in Int /\ m + 1 <= Len(s) /\
        Len(s) - (m + 1) + 1 = WorkingSize
    BY <1>1, <1>3
  <2>3. \A i \in m + 1 .. Len(s) : s[i] \in S
    BY <1>1, <2>2
  <2> HIDE DEF m
  <2>4. /\ t \in Seq(S) /\ Len(t) = WorkingSize
        /\ \A i \in 1 .. WorkingSize : t[i] = s[(m + 1) + i - 1]
    BY <2>2, <2>3, SubSeqProperties
  <2> HIDE DEF t
  <2>5. DOMAIN t = 1 .. WorkingSize /\ \A i \in 1 .. WorkingSize : (m + 1) + i - 1 \in DOMAIN s
    BY <1>1, <2>2, <2>4
  <2>6. NoneTwice(t)
    <3> SUFFICES ASSUME NEW i \in 1 .. WorkingSize, NEW j \in 1 .. WorkingSize, t[i] = t[j]
                 PROVE  i = j
      BY <2>5 DEF NoneTwice
    <3>1. (m + 1) + i - 1 = (m + 1) + j - 1
      BY <2>4, <2>5 DEF NoneTwice
    <3> QED
      BY <2>2, <3>1
  <2>7. Range(t) \subseteq Range(s)
    BY <2>4, <2>5 DEF Range
  <2> QED
    BY <2>1, <2>4, <2>6, <2>7
<1> QED
  BY <1>1, <1>2, <1>3

\* Order and index of the working memory stay together.
LEMMA UpdateLruKeeps ==
    ASSUME ChunkTypes, CacheInv, NEW k \in ChunkIds, UpdateLru(k)
    PROVE  lru' \in Seq(ChunkIds) /\ CacheInv' /\ working' \subseteq working \cup {k}
<1> DEFINE a == Without(lru, k)
           b == Append(a, k)
           c == Evicted(b)
<1>1. a \in Seq(ChunkIds) /\ NoneTwice(a) /\ Range(a) = Range(lru) \ {k}
  BY WithoutIs DEF ChunkTypes, CacheInv
<1> HIDE DEF a
<1>2. b \in Seq(ChunkIds) /\ NoneTwice(b) /\ Range(b) = Range(a) \cup {k}
  BY <1>1, AppendNew
<1> HIDE DEF b
<1>3. c \in Seq(ChunkIds) /\ NoneTwice(c) /\ Len(c) <= WorkingSize /\ Range(c) \subseteq Range(b)
  BY <1>2, EvictedIs
<1>4. lru' = c /\ working' = (working \cup {k}) \cap Range(c)
  BY DEF UpdateLru, a, b
<1> HIDE DEF c
<1>5. working' = Range(c)
  BY <1>1, <1>2, <1>3, <1>4 DEF CacheInv
<1> QED
  BY <1>3, <1>4, <1>5 DEF CacheInv

\* They do when nothing changes, too.
LEMMA CachesKeep ==
    ASSUME ChunkTypes, CacheInv, UNCHANGED cacheVars
    PROVE  lru' \in Seq(ChunkIds) /\ CacheInv'
BY DEF ChunkTypes, CacheInv, cacheVars, NoneTwice, Range

\* Two chunks of one content have it both ways.
LEMMA SameTextBoth ==
    ASSUME NEW j, NEW k
    PROVE  j \in SameText(k) <=> k \in SameText(j)
BY DEF SameText

\* A step of call p within its transaction: it stands at point with chunk k and has
\* flushed f, and nobody else has flushed a chunk of that content.
Moves(p, point, k, f) ==
    /\ Goes(p, point, k) /\ flushed' = [flushed EXCEPT ![p] = f] /\ UNCHANGED row /\ CallIs(point, k, f)
    /\ f # "nothing" => \A q \in ChunkCalls \ {p} : flushed[q] # "nothing" => hand[q] \notin SameText(k)

\* Every call goes on, except for its commit.
LEMMA CallMoves ==
    ASSUME ChunkInv, NEW p \in ChunkCalls, NEW point \in ChunkPoints, NEW k \in ChunkIds \cup {NoChunk},
           NEW f \in {"nothing", "live", "deleted", "dropped"},
           Moves(p, point, k, f)
    PROVE  /\ ChunkCallsInv' /\ flushed' \in [ChunkCalls -> {"nothing", "live", "deleted", "dropped"}]
           /\ chunkAt' \in [ChunkCalls -> ChunkPoints] /\
              hand' \in [ChunkCalls -> ChunkIds \cup {NoChunk}]
           /\ chunkAt'[p] = point /\ hand'[p] = k /\ flushed'[p] = f
           /\ \A q \in ChunkCalls \ {p} : chunkAt'[q] = chunkAt[q] /\ hand'[q] = hand[q] /\
              flushed'[q] = flushed[q]
<1>1. /\ chunkAt \in [ChunkCalls -> ChunkPoints] /\ hand \in [ChunkCalls -> ChunkIds \cup {NoChunk}]
      /\ flushed \in [ChunkCalls -> {"nothing", "live", "deleted", "dropped"}]
      /\ chunkAt' = [chunkAt EXCEPT ![p] = point] /\ hand' = [hand EXCEPT ![p] = k]
  BY DEF ChunkInv, ChunkTypes, ChunksTypeOK, Moves, Goes
<1>2. /\ chunkAt'[p] = point /\ hand'[p] = k /\ flushed'[p] = f /\ row' = row /\ CallIs(point, k, f)
      /\ \A q \in ChunkCalls \ {p} : chunkAt'[q] = chunkAt[q] /\ hand'[q] = hand[q] /\
         flushed'[q] = flushed[q]
  BY <1>1 DEF Moves
<1>3. ASSUME NEW q \in ChunkCalls PROVE CallIs(chunkAt[q], hand[q], flushed[q])'
  <2>1. CASE q = p
    BY <2>1, <1>2 DEF CallIs, Unique
  <2>2. CASE q # p
    BY <2>2, <1>2 DEF CallIs, Unique, ChunkInv, ChunkCallsInv
  <2> QED
    BY <2>1, <2>2
<1>4. ASSUME NEW q \in ChunkCalls, NEW r \in ChunkCalls \ {q}, flushed'[q] # "nothing",
             flushed'[r] # "nothing"
      PROVE  hand'[r] \notin SameText(hand'[q])
  <2>1. CASE q = p
    BY <2>1, <1>2, <1>4 DEF Moves
  <2>2. CASE r = p
    BY <2>2, <1>2, <1>4, SameTextBoth DEF Moves
  <2>3. CASE q # p /\ r # p
    BY <2>3, <1>2, <1>4 DEF ChunkInv, ChunkCallsInv
  <2> QED
    BY <2>1, <2>2, <2>3
<1>5. ChunkCallsInv'
  <2>1. \A q \in ChunkCalls : \A r \in ChunkCalls \ {q} :
          flushed'[q] # "nothing" /\ flushed'[r] # "nothing" => hand'[r] \notin SameText(hand'[q])
    BY <1>4
  <2> QED
    BY <1>3, <2>1 DEF ChunkCallsInv, SameText
<1> QED
  BY <1>1, <1>2, <1>5 DEF Moves

\* ... and with it the rest, when it writes to working memory or publishes only.
LEMMA MoveKeeps ==
    ASSUME ChunkInv, NEW p \in ChunkCalls, NEW point \in ChunkPoints, NEW k \in ChunkIds \cup {NoChunk},
           NEW f \in {"nothing", "live", "deleted", "dropped"},
           Moves(p, point, k, f),
           UNCHANGED <<indexing, indexTries, processed, vector, node, deadLetters, hasty>>,
           taken' \subseteq ChunkIds, created' \subseteq Indexed, removed \subseteq removed',
           \A j \in removed' \ removed : j \in ChunkIds /\ row[j] # "none", raced \subseteq raced',
           lru' \in Seq(ChunkIds), CacheInv', working' \subseteq ChunkIds,
           \A j \in working' \ working : row[j] # "dropped" \/ j \in raced',
           point = "commit" /\ f = "deleted" => k \in removed'
    PROVE  ChunkInv'
<1>1. /\ ChunkCallsInv' /\ flushed' \in [ChunkCalls -> {"nothing", "live", "deleted", "dropped"}]
      /\ chunkAt' \in [ChunkCalls -> ChunkPoints] /\ hand' \in [ChunkCalls -> ChunkIds \cup {NoChunk}]
      /\ chunkAt'[p] = point /\ hand'[p] = k /\ flushed'[p] = f
      /\ \A q \in ChunkCalls \ {p} : chunkAt'[q] = chunkAt[q] /\ hand'[q] = hand[q] /\
         flushed'[q] = flushed[q]
  BY CallMoves
<1> USE DEF ChunkInv
<1>2. ChunkTypes'
  BY <1>1 DEF ChunkTypes, ChunksTypeOK, Moves
<1>3. IndexInv'
  BY DEF IndexInv, Live, Moves
<1>4. IndexedMeansIndexed' /\ OneChunkPerHash'
  BY DEF IndexedMeansIndexed, OneChunkPerHash, Live, Moves
<1>5. GoneInv'
  <2> SUFFICES ASSUME NEW j \in ChunkIds \ raced'
               PROVE  /\ row[j] = "deleted" \/ Leaving(j)' => (j \in vector => j \in removed')
                      /\ row[j] = "dropped" => j \notin working'
    BY DEF GoneInv, Moves
  <2>1. Leaving(j)' => Leaving(j) \/ j \in removed'
    BY <1>1 DEF Leaving
  <2> QED
    BY <2>1 DEF GoneInv
<1> QED
  BY <1>1, <1>2, <1>3, <1>4, <1>5

\* Finding the chunk, or not, moves the call only ...
LEMMA StoreKeeps ==
    ASSUME ChunkInv, NEW p \in ChunkCalls, NEW k \in ChunkIds,
           StoreKnown(p, k) \/ StoreUnknown(p, k) \/ RetrieveRow(p, k) \/ DeleteNode(p, k)
    PROVE  ChunkInv'
<1>1. PICK point \in {"cache", "insert", "delete"} : Goes(p, point, k) /\ (point = "delete" => Live(k))
  BY DEF StoreKnown, StoreUnknown, RetrieveRow, DeleteNode
<1>2. /\ chunkAt[p] = "idle" /\ UNCHANGED row /\ UNCHANGED cacheVars /\ UNCHANGED indexVars /\
         UNCHANGED pastVars
      /\ UNCHANGED flushed /\ taken' \in {taken, taken \cup {k}}
  BY DEF StoreKnown, StoreUnknown, RetrieveRow, DeleteNode, Stays
<1>3. lru' \in Seq(ChunkIds) /\ CacheInv' /\ working' = working /\ working' \subseteq ChunkIds
      /\ taken' \subseteq ChunkIds /\ created \subseteq Indexed
      /\ flushed \in [ChunkCalls -> {"nothing", "live", "deleted", "dropped"}]
  BY <1>2, CachesKeep DEF ChunkInv, cacheVars, ChunkTypes, ChunksTypeOK
<1>4. flushed[p] = "nothing"
  BY <1>2 DEF ChunkInv, ChunkCallsInv, CallIs
<1>5. flushed' = [flushed EXCEPT ![p] = "nothing"]
  BY <1>2, <1>3, <1>4
<1>6. CallIs(point, k, "nothing")
  BY <1>1 DEF CallIs, Live
<1> QED
  BY <1>1, <1>2, <1>3, <1>5, <1>6, MoveKeeps DEF ChunkPoints, indexVars, pastVars, Moves

\* It raises, finds no row, or is rolled back.
LEMMA ReturnKeeps ==
    ASSUME ChunkInv, NEW p \in ChunkCalls, Goes(p, "idle", NoChunk), UNCHANGED <<row, taken>>,
           UNCHANGED cacheVars, UNCHANGED indexVars, UNCHANGED pastVars,
             flushed' = [flushed EXCEPT ![p] = "nothing"]
    PROVE  ChunkInv'
<1>1. lru' \in Seq(ChunkIds) /\ CacheInv' /\ working' = working /\ working' \subseteq ChunkIds
      /\ taken' \subseteq ChunkIds /\ created \subseteq Indexed
  BY CachesKeep DEF ChunkInv, cacheVars, ChunkTypes, ChunksTypeOK
<1>2. CallIs("idle", NoChunk, "nothing")
  BY DEF CallIs
<1> QED
  BY <1>1, <1>2, MoveKeeps DEF ChunkPoints, indexVars, pastVars, Moves

\* ... and so does a refused insertion.
LEMMA CreateRaisesKeeps ==
    ASSUME ChunkInv, NEW p \in ChunkCalls, CreateRaises(p)
    PROVE  ChunkInv'
<1>1. flushed[p] = "nothing" /\ flushed' = flushed
  BY DEF CreateRaises, Returns, Stays, ChunkInv, ChunkCallsInv, CallIs
<1>2. flushed' = [flushed EXCEPT ![p] = "nothing"]
  BY <1>1 DEF ChunkInv, ChunkTypes, ChunksTypeOK
<1> QED
  BY <1>2, ReturnKeeps DEF CreateRaises, Returns, Stays

\* A transaction that is rolled back leaves the rows as they were.
LEMMA RollBackKeeps ==
    ASSUME ChunkInv, NEW p \in ChunkCalls, RollBack(p)
    PROVE  ChunkInv'
BY ReturnKeeps DEF RollBack

\* The engine's deletion finds its row, or none.
LEMMA DropRowKeeps ==
    ASSUME ChunkInv, NEW p \in ChunkCalls, DropRow(p)
    PROVE  ChunkInv'
<1>1. /\ flushed[p] = "nothing" /\ flushed' = flushed /\ hand[p] \in ChunkIds /\
         chunkAt[p] = "soft_delete"
      /\ UNCHANGED <<row, taken>> /\ UNCHANGED cacheVars /\ UNCHANGED indexVars /\ UNCHANGED pastVars
  BY DEF DropRow, Returns, Stays, ChunkInv, ChunkCallsInv, CallIs
<1>2. flushed' = [flushed EXCEPT ![p] = "nothing"]
  BY <1>1 DEF ChunkInv, ChunkTypes, ChunksTypeOK
<1>3. CASE Goes(p, "idle", NoChunk)
  BY <1>1, <1>2, <1>3, ReturnKeeps
<1>4. CASE Live(hand[p]) /\ Goes(p, "drop", hand[p])
  <2>1. CallIs("drop", hand[p], "nothing")
    BY <1>1, <1>4 DEF CallIs, Live
  <2>2. lru' \in Seq(ChunkIds) /\ CacheInv' /\ working' = working /\ working' \subseteq ChunkIds
        /\ taken' \subseteq ChunkIds /\ created \subseteq Indexed
    BY <1>1, CachesKeep DEF ChunkInv, cacheVars, ChunkTypes, ChunksTypeOK
  <2> QED
    BY <1>1, <1>2, <1>4, <2>1, <2>2, MoveKeeps DEF ChunkPoints, indexVars, pastVars, Moves
<1> QED
  BY <1>3, <1>4 DEF DropRow, Returns

\* A record found in working memory becomes the one used last.
LEMMA UseCachedKeeps ==
    ASSUME ChunkInv, NEW p \in ChunkCalls, NEW k \in ChunkIds, UseCached(p, k)
    PROVE  ChunkInv'
<1>1. /\ chunkAt[p] = "idle" /\ k \in working /\ UpdateLru(k)
      /\ UNCHANGED <<row, taken, flushed>> /\ UNCHANGED indexVars /\ UNCHANGED pastVars
  BY DEF UseCached, Stays
<1>2. lru' \in Seq(ChunkIds) /\ CacheInv' /\ working' \subseteq working
  BY <1>1, UpdateLruKeeps DEF ChunkInv
<1>3. working' \subseteq ChunkIds /\ taken' \subseteq ChunkIds /\ created \subseteq Indexed
  BY <1>1, <1>2 DEF ChunkInv, ChunkTypes, ChunksTypeOK
<1>4. flushed[p] = "nothing" /\ hand[p] = NoChunk
  BY <1>1 DEF ChunkInv, ChunkCallsInv, CallIs
<1>5. flushed' = [flushed EXCEPT ![p] = "nothing"]
  BY <1>1, <1>4 DEF ChunkInv, ChunkTypes, ChunksTypeOK
<1>6. CallIs("cache", k, "nothing") /\ CallIs("idle", NoChunk, "nothing")
  BY DEF CallIs
<1>7. CASE Goes(p, "cache", k)
  BY <1>1, <1>2, <1>3, <1>5, <1>6, <1>7, MoveKeeps DEF ChunkPoints, indexVars, pastVars, Moves
<1>8. CASE UNCHANGED <<chunkAt, hand>>
  <2>1. Goes(p, "idle", NoChunk)
    BY <1>1, <1>4, <1>8 DEF ChunkInv, ChunkTypes, ChunksTypeOK, Goes
  <2> QED
    BY <1>1, <1>2, <1>3, <1>5, <1>6, <2>1, MoveKeeps DEF ChunkPoints, indexVars, pastVars, Moves
<1> QED
  BY <1>7, <1>8 DEF UseCached

\* The engine's deletion takes it out first.
LEMMA DeleteCachedKeeps ==
    ASSUME ChunkInv, NEW p \in ChunkCalls, NEW k \in ChunkIds, DeleteCached(p, k)
    PROVE  ChunkInv'
<1>1. /\ chunkAt[p] = "idle" /\ working' = working \ {k} /\ lru' = Without(lru, k)
      /\ Goes(p, "soft_delete", k) /\ UNCHANGED <<row, taken, flushed>> /\ UNCHANGED indexVars /\
         UNCHANGED pastVars
  BY DEF DeleteCached, Stays
<1>2. lru' \in Seq(ChunkIds) /\ NoneTwice(lru') /\ Range(lru') = Range(lru) \ {k} /\
      Len(lru') <= Len(lru)
      /\ Len(lru) \in Nat /\ Len(lru') \in Nat
  BY <1>1, WithoutIs DEF ChunkInv, ChunkTypes, CacheInv
<1>3. CacheInv' /\ working' \subseteq ChunkIds /\ taken' \subseteq ChunkIds /\ created \subseteq Indexed
  BY <1>1, <1>2, ChunkAssumption DEF ChunkInv, ChunkTypes, ChunksTypeOK, CacheInv
<1>4. flushed[p] = "nothing"
  BY <1>1 DEF ChunkInv, ChunkCallsInv, CallIs
<1>5. flushed' = [flushed EXCEPT ![p] = "nothing"] /\ CallIs("soft_delete", k, "nothing")
  BY <1>1, <1>4 DEF ChunkInv, ChunkTypes, ChunksTypeOK, CallIs
<1> QED
  BY <1>1, <1>2, <1>3, <1>5, MoveKeeps DEF ChunkPoints, indexVars, pastVars, Moves

\* A flush that nobody hinders.
LEMMA FlushKeeps ==
    ASSUME ChunkInv, NEW p \in ChunkCalls, NEW f \in {"live", "deleted", "dropped"},
           NEW point \in ChunkPoints,
           Flushes(p, f, point), Unhindered(p), CallIs(point, hand[p], f), ~(point = "commit" /\
             f = "deleted"),
           hand[p] \in ChunkIds
    PROVE  ChunkInv'
<1>1. /\ Goes(p, point, hand[p]) /\ UNCHANGED <<row, taken>> /\ UNCHANGED cacheVars /\
         UNCHANGED indexVars
      /\ UNCHANGED pastVars /\ flushed' = [flushed EXCEPT ![p] = f]
  BY DEF Flushes
<1>2. lru' \in Seq(ChunkIds) /\ CacheInv' /\ working' = working /\ working' \subseteq ChunkIds
      /\ taken' \subseteq ChunkIds /\ created \subseteq Indexed
  BY <1>1, CachesKeep DEF ChunkInv, cacheVars, ChunkTypes, ChunksTypeOK
<1> QED
  BY <1>1, <1>2, MoveKeeps DEF Unhindered, indexVars, pastVars, Moves

\* What is inserted is nobody else's content: the column is unique.
LEMMA CreateChunkKeeps ==
    ASSUME ChunkInv, NEW p \in ChunkCalls, CreateChunk(p)
    PROVE  ChunkInv'
<1>1. hand[p] \in ChunkIds /\ CallIs("announce", hand[p], "live")
  BY DEF CreateChunk, ChunkInv, ChunkCallsInv, CallIs
<1> QED
  BY <1>1, FlushKeeps DEF CreateChunk, ChunkPoints

\* What is deleted is nobody else's, either.
LEMMA SoftDeleteKeeps ==
    ASSUME ChunkInv, NEW p \in ChunkCalls, SoftDelete(p)
    PROVE  ChunkInv'
<1>1. hand[p] \in ChunkIds /\ CallIs("unannounce", hand[p], "deleted") /\
      CallIs("commit", hand[p], "dropped")
  BY DEF SoftDelete, ChunkInv, ChunkCallsInv, CallIs
<1> QED
  BY <1>1, FlushKeeps DEF SoftDelete, ChunkPoints

\* An event goes out, or the record into working memory, before the commit.
LEMMA AnnounceKeeps ==
    ASSUME ChunkInv, NEW p \in ChunkCalls, AnnounceCreated(p) \/ AnnounceDeleted(p)
    PROVE  ChunkInv'
<1> DEFINE k == hand[p]
<1>1. /\ chunkAt[p] \in {"announce", "unannounce"} /\ Goes(p, "commit", k) /\
         UNCHANGED <<row, taken, flushed>>
      /\ UNCHANGED <<indexing, indexTries, processed, vector, node, deadLetters>> /\ UNCHANGED pastVars
      /\ removed' = IF chunkAt[p] = "unannounce" THEN removed \cup {k} ELSE removed
      /\ created' \in {created, created \cup {k}} /\ (created' # created => k \in Indexed)
      /\ UNCHANGED cacheVars \/ (UpdateLru(k) /\ chunkAt[p] = "announce")
  BY DEF AnnounceCreated, AnnounceDeleted, Stays
<1>2. /\ k \in ChunkIds /\ flushed[p] = (IF chunkAt[p] = "announce" THEN "live" ELSE "deleted")
      /\ flushed[p] = "live" => Unique(k)
      /\ flushed[p] = "deleted" => row[k] # "none"
  BY <1>1 DEF ChunkInv, ChunkCallsInv, CallIs
<1>3. flushed' = [flushed EXCEPT ![p] = flushed[p]]
  BY <1>1 DEF ChunkInv, ChunkTypes, ChunksTypeOK
<1>4. CallIs("commit", k, flushed[p])
  BY <1>2 DEF CallIs
<1>5. \A q \in ChunkCalls \ {p} : flushed[q] # "nothing" => hand[q] \notin SameText(k)
  BY <1>2 DEF ChunkInv, ChunkCallsInv
<1>6. \A j \in removed' \ removed : j \in ChunkIds /\ row[j] # "none"
  BY <1>1, <1>2
<1>7. taken' \subseteq ChunkIds /\ created' \subseteq Indexed /\ removed \subseteq removed'
      /\ (flushed[p] = "deleted" => k \in removed')
  BY <1>1, <1>2 DEF ChunkInv, ChunkTypes, ChunksTypeOK
<1>8. lru' \in Seq(ChunkIds) /\ CacheInv' /\ working' \subseteq ChunkIds
      /\ \A j \in working' \ working : row[j] # "dropped"
  <2>1. CASE UNCHANGED cacheVars
    BY <2>1, CachesKeep DEF ChunkInv, cacheVars, ChunkTypes, ChunksTypeOK
  <2>2. CASE UpdateLru(k) /\ chunkAt[p] = "announce"
    <3>1. lru' \in Seq(ChunkIds) /\ CacheInv' /\ working' \subseteq working \cup {k}
      BY <1>2, <2>2, UpdateLruKeeps DEF ChunkInv
    <3>2. row[k] = "none"
      <4>1. k \in SameText(k)
        BY <1>2, ChunkAssumption DEF SameText
      <4> QED
        BY <1>2, <2>2, <4>1 DEF Unique
    <3> QED
      BY <1>2, <3>1, <3>2 DEF ChunkInv, ChunkTypes, ChunksTypeOK
  <2> QED
    BY <1>1, <2>1, <2>2
<1>9. flushed[p] \in {"nothing", "live", "deleted", "dropped"} /\ "commit" \in ChunkPoints
  BY <1>2 DEF ChunkPoints
<1> HIDE DEF k
<1> QED
  BY <1>1, <1>2, <1>3, <1>4, <1>5, <1>6, <1>7, <1>8, <1>9, MoveKeeps DEF pastVars, Moves

\* A record that is gone and is cached has raced with its deletion.
LEMMA CacheRecordKeeps ==
    ASSUME ChunkInv, NEW p \in ChunkCalls, CacheRecord(p)
    PROVE  ChunkInv'
<1>1. /\ chunkAt[p] = "cache" /\ UpdateLru(hand[p]) /\ Goes(p, "idle", NoChunk)
      /\ UNCHANGED <<row, hasty, taken, flushed>> /\ UNCHANGED indexVars
      /\ raced' = IF Live(hand[p]) THEN raced ELSE raced \cup {hand[p]}
  BY DEF CacheRecord, Returns, Stays
<1>2. hand[p] \in ChunkIds /\ flushed[p] = "nothing"
  BY <1>1 DEF ChunkInv, ChunkCallsInv, CallIs
<1>3. lru' \in Seq(ChunkIds) /\ CacheInv' /\ working' \subseteq working \cup {hand[p]}
  BY <1>1, <1>2, UpdateLruKeeps DEF ChunkInv
<1>4. working' \subseteq ChunkIds /\ taken' \subseteq ChunkIds /\ created \subseteq Indexed
      /\ flushed' = [flushed EXCEPT ![p] = "nothing"]
  BY <1>1, <1>2, <1>3 DEF ChunkInv, ChunkTypes, ChunksTypeOK
<1>5. \A j \in working' \ working : row[j] # "dropped" \/ j \in raced'
  BY <1>1, <1>3 DEF Live
<1>6. CallIs("idle", NoChunk, "nothing") /\ raced \subseteq raced'
  BY <1>1 DEF CallIs
<1> QED
  BY <1>1, <1>3, <1>4, <1>5, <1>6, MoveKeeps DEF ChunkPoints, indexVars, Moves

\* The row is there for all, or gone for all.
LEMMA CommitKeeps ==
    ASSUME ChunkInv, NEW p \in ChunkCalls, Commit(p)
    PROVE  ChunkInv'
<1> DEFINE k == hand[p]
           f == flushed[p]
<1>1. /\ chunkAt[p] = "commit" /\ row' = [row EXCEPT ![k] = IF @ \in {"none", "live"} THEN f ELSE @]
      /\ raced' = IF f = "dropped" /\ k \in working THEN raced \cup {k} ELSE raced
      /\ flushed' = [flushed EXCEPT ![p] = "nothing"]
      /\ chunkAt' = [chunkAt EXCEPT ![p] = "idle"] /\ hand' = [hand EXCEPT ![p] = NoChunk]
      /\ UNCHANGED <<taken, hasty>> /\ UNCHANGED cacheVars /\ UNCHANGED indexVars
  BY DEF Commit, Goes
<1>2. /\ k \in ChunkIds /\ f \in {"live", "deleted", "dropped"}
      /\ f = "live" => Unique(k)
      /\ f # "live" => row[k] # "none"
  BY <1>1 DEF ChunkInv, ChunkTypes, ChunksTypeOK, ChunkCallsInv, CallIs
<1>3. /\ row \in [ChunkIds -> {"none", "live", "deleted", "dropped"}]
      /\ chunkAt \in [ChunkCalls -> ChunkPoints] /\ hand \in [ChunkCalls -> ChunkIds \cup {NoChunk}]
      /\ flushed \in [ChunkCalls -> {"nothing", "live", "deleted", "dropped"}]
  BY DEF ChunkInv, ChunkTypes, ChunksTypeOK
<1>4. k \in SameText(k)
  BY <1>2, ChunkAssumption DEF SameText
<1>5. \A q \in ChunkCalls \ {p} : flushed[q] # "nothing" => hand[q] \notin SameText(k)
  BY <1>2 DEF ChunkInv, ChunkCallsInv
<1>6. Leaving(k) \/ f # "deleted"
  BY <1>1 DEF Leaving
<1> HIDE DEF k, f
<1>7. /\ \A j \in ChunkIds : j # k => row'[j] = row[j]
      /\ row'[k] = IF row[k] \in {"none", "live"} THEN f ELSE row[k]
      /\ row' \in [ChunkIds -> {"none", "live", "deleted", "dropped"}]
  BY <1>1, <1>2, <1>3
<1>8. f = "live" => row[k] = "none"
  BY <1>2, <1>4 DEF Unique
<1>9. /\ chunkAt'[p] = "idle" /\ hand'[p] = NoChunk /\ flushed'[p] = "nothing"
      /\ \A q \in ChunkCalls \ {p} : chunkAt'[q] = chunkAt[q] /\ hand'[q] = hand[q] /\
         flushed'[q] = flushed[q]
  BY <1>1, <1>3
<1>10. ChunkTypes' /\ CacheInv'
  BY <1>1, <1>3, <1>7, CachesKeep
     DEF ChunkInv, ChunkTypes, ChunksTypeOK, ChunkPoints, cacheVars, indexVars
<1>11. ChunkCallsInv'
  <2>1. ASSUME NEW q \in ChunkCalls PROVE CallIs(chunkAt[q], hand[q], flushed[q])'
    <3>1. CASE q = p
      BY <3>1, <1>9 DEF CallIs
    <3>2. CASE q # p
      <4>1. CallIs(chunkAt[q], hand[q], flushed[q])
        BY DEF ChunkInv, ChunkCallsInv
      <4>2. chunkAt'[q] = chunkAt[q] /\ hand'[q] = hand[q] /\ flushed'[q] = flushed[q]
        BY <3>2, <1>9
      <4>3. flushed[q] = "live" => Unique(hand[q])'
        <5> SUFFICES ASSUME flushed[q] = "live" PROVE \A j \in SameText(hand[q]) : row'[j] = "none"
          BY <4>2 DEF Unique, SameText
        <5>1. k \notin SameText(hand[q])
          BY <3>2, <1>5, SameTextBoth
        <5>2. \A j \in SameText(hand[q]) : row[j] = "none"
          BY <4>1 DEF CallIs, Unique
        <5> QED
          BY <5>1, <5>2, <1>1
      <4>4. row[hand[q]] # "none" => row'[hand[q]] # "none"
        BY <1>1, <1>2, <1>3
      <4> QED
        BY <4>1, <4>2, <4>3, <4>4 DEF CallIs
    <3> QED
      BY <3>1, <3>2
  <2>2. \A q \in ChunkCalls : \A r \in ChunkCalls \ {q} :
          flushed'[q] # "nothing" /\ flushed'[r] # "nothing" => hand'[r] \notin SameText(hand'[q])
    BY <1>9 DEF ChunkInv, ChunkCallsInv
  <2> QED
    BY <2>1, <2>2 DEF ChunkCallsInv, SameText
<1>12. OneChunkPerHash'
  <2> SUFFICES ASSUME NEW t \in ChunkTexts, NEW i \in t \cap ChunkIds, NEW j \in t \cap ChunkIds,
                      row'[i] # "none", row'[j] # "none", i # j
               PROVE  FALSE
    BY DEF OneChunkPerHash
  <2>1. ~(row[i] # "none" /\ row[j] # "none")
    BY DEF ChunkInv, OneChunkPerHash
  <2>2. f = "live" /\ (i = k \/ j = k)
    BY <1>2, <1>7, <2>1
  <2>3. i \in SameText(j) /\ j \in SameText(i)
    BY DEF SameText
  <2>4. row[i] = "none" /\ row[j] = "none"
    BY <1>2, <1>8, <2>2, <2>3 DEF Unique
  <2> QED
    BY <1>7, <2>4
<1>13. IndexInv'
  BY <1>1, <1>2, <1>7, <1>8 DEF ChunkInv, ChunkTypes, ChunksTypeOK, IndexInv, indexVars, Live
<1>14. IndexedMeansIndexed'
  <2> SUFFICES ASSUME NEW j \in processed \ hasty, row'[j] = "live" PROVE j \in node /\ j \in vector
    BY <1>1 DEF IndexedMeansIndexed, indexVars, Live
  <2>1. j \in ChunkIds /\ row[j] # "none"
    BY ChunkAssumption DEF ChunkInv, IndexInv
  <2>2. row[j] = "live"
    BY <1>2, <1>7, <1>8, <2>1
  <2> QED
    BY <2>2 DEF ChunkInv, IndexedMeansIndexed, Live
<1>15. GoneInv'
  <2> SUFFICES ASSUME NEW j \in ChunkIds \ raced'
               PROVE  /\ row'[j] = "deleted" \/ Leaving(j)' => (j \in vector => j \in removed)
                      /\ row'[j] = "dropped" => j \notin working
    BY <1>1 DEF GoneInv, indexVars, cacheVars
  <2>1. j \notin raced /\ (j = k /\ f = "dropped" => j \notin working)
    BY <1>1
  <2>2. Leaving(j)' => Leaving(j)
    BY <1>9 DEF Leaving
  <2>3. row'[j] = "deleted" => row[j] = "deleted" \/ Leaving(j)
    BY <1>6, <1>7
  <2> QED
    BY <1>7, <2>1, <2>2, <2>3 DEF ChunkInv, GoneInv
<1> QED
  BY <1>10, <1>11, <1>12, <1>13, <1>14, <1>15 DEF ChunkInv

\* The indexer leaves the rows, the calls and the working memory alone.
LEMMA UnindexedKeeps ==
    ASSUME ChunkInv, Unindexed, raced \subseteq raced'
    PROVE  /\ CacheInv' /\ ChunkCallsInv' /\ OneChunkPerHash' /\ lru' \in Seq(ChunkIds) /\
              working' \subseteq ChunkIds
           /\ chunkAt' \in [ChunkCalls -> ChunkPoints] /\
              hand' \in [ChunkCalls -> ChunkIds \cup {NoChunk}]
           /\ flushed' \in [ChunkCalls -> {"nothing", "live", "deleted", "dropped"}] /\
              taken' \subseteq ChunkIds
           /\ \A k \in ChunkIds \ raced' : row'[k] = "dropped" => k \notin working'
           /\ \A k \in ChunkIds : Leaving(k)' = Leaving(k)
<1> USE DEF ChunkInv, Unindexed
<1>1. CacheInv' /\ lru' \in Seq(ChunkIds)
  BY CachesKeep
<1>2. ChunkCallsInv' /\ OneChunkPerHash'
  BY DEF ChunkCallsInv, CallIs, Unique, SameText, OneChunkPerHash, callVars
<1>3. \A k \in ChunkIds : Leaving(k)' = Leaving(k)
  BY DEF Leaving, callVars
<1> QED
  BY <1>1, <1>2, <1>3 DEF ChunkTypes, ChunksTypeOK, callVars, cacheVars, GoneInv

\* A step of the handler of a creation that writes no vector.
LEMMA IndexStepKeeps ==
    ASSUME ChunkInv, Unindexed, UNCHANGED raced, UNCHANGED <<vector, removed>>, NEW k \in Indexed,
           NEW point \in {"no", "read", "vector"}, NEW n \in 0 .. MaxAttempts,
           point = "vector" => Live(k), hasty \subseteq hasty',
           indexing' = [indexing EXCEPT ![k] = point], indexTries' = [indexTries EXCEPT ![k] = n],
           created' \subseteq created, processed' \subseteq processed \cup {k},
           node \subseteq node', node' \subseteq node \cup {k},
           k \in processed' \ processed => (row[k] = "none" => k \in hasty'),
           k \in processed' \ processed => (Live(k) /\ k \notin hasty' => k \in node' /\ k \in vector)
    PROVE  ChunkInv'
<1> USE ChunkAssumption DEF ChunkInv
<1>1. UNCHANGED row /\ UNCHANGED callVars /\ UNCHANGED cacheVars
  BY DEF Unindexed
<1>2. /\ indexing \in [Indexed -> {"no", "read", "vector", "node"}]
      /\ indexTries \in [Indexed -> 0 .. MaxAttempts]
  BY DEF ChunkTypes, ChunksTypeOK
<1>3. ChunkTypes' /\ CacheInv' /\ ChunkCallsInv' /\ OneChunkPerHash' /\
      \A j \in ChunkIds : Leaving(j)' = Leaving(j)
  <2>1. /\ indexing' \in [Indexed -> {"no", "read", "vector", "node"}]
        /\ indexTries' \in [Indexed -> 0 .. MaxAttempts]
    BY <1>2
  <2> QED
    BY <1>1, <2>1, UnindexedKeeps DEF ChunkTypes, ChunksTypeOK
<1>4. IndexInv'
  <2>1. \A j \in Indexed : indexing'[j] = IF j = k THEN point ELSE indexing[j]
    BY <1>2
  <2> QED
    BY <1>1, <2>1 DEF IndexInv, Live
<1>5. IndexedMeansIndexed'
  BY <1>1 DEF IndexedMeansIndexed, Live
<1>6. GoneInv'
  BY <1>1, <1>3 DEF GoneInv, callVars, cacheVars
<1> QED
  BY <1>3, <1>4, <1>5, <1>6

\* An attempt to index begins.
LEMMA HandleCreatedKeeps ==
    ASSUME ChunkInv, NEW k \in Indexed, HandleCreated(k)
    PROVE  ChunkInv'
<1>1. 1 \in 0 .. MaxAttempts
  BY ChunkAssumption
<1> QED
  BY <1>1, IndexStepKeeps DEF HandleCreated

\* A deleted chunk needs no index.
LEMMA IndexReadsKeeps ==
    ASSUME ChunkInv, NEW k \in Indexed, IndexReads(k)
    PROVE  ChunkInv'
<1>1. indexTries \in [Indexed -> 0 .. MaxAttempts] /\ 0 \in 0 .. MaxAttempts
  BY ChunkAssumption DEF ChunkInv, ChunkTypes, ChunksTypeOK
<1>2. CASE Live(k)
  <2>1. indexTries' = [indexTries EXCEPT ![k] = indexTries[k]] /\ indexTries[k] \in 0 .. MaxAttempts
    BY <1>1, <1>2 DEF IndexReads
  <2> QED
    BY <1>1, <1>2, <2>1, IndexStepKeeps DEF IndexReads
<1>3. CASE ~Live(k)
  <2>1. hasty \subseteq hasty' /\ (row[k] = "none" => k \in hasty')
    BY DEF IndexReads
  <2> QED
    BY <1>1, <1>3, <2>1, IndexStepKeeps DEF IndexReads, Handled
<1> QED
  BY <1>2, <1>3

\* The node comes last, after the vector.
LEMMA IndexNodeKeeps ==
    ASSUME ChunkInv, NEW k \in Indexed, IndexNode(k)
    PROVE  ChunkInv'
<1>1. row[k] # "none" /\ 0 \in 0 .. MaxAttempts /\ (Live(k) /\ k \notin hasty => k \in vector)
  BY ChunkAssumption DEF IndexNode, ChunkInv, IndexInv
<1> QED
  BY <1>1, IndexStepKeeps DEF IndexNode, Handled

\* A failed attempt leaves what it wrote.
LEMMA IndexAttemptFailsKeeps ==
    ASSUME ChunkInv, NEW k \in Indexed, IndexAttemptFails(k)
    PROVE  ChunkInv'
<1>1. indexTries \in [Indexed -> 0 .. MaxAttempts] /\ 0 \in 0 .. MaxAttempts
  BY ChunkAssumption DEF ChunkInv, ChunkTypes, ChunksTypeOK
<1>2. CASE indexTries[k] < MaxAttempts
  <2>1. indexTries' = [indexTries EXCEPT ![k] = indexTries[k] + 1] /\
        indexTries[k] + 1 \in 0 .. MaxAttempts
    BY <1>1, <1>2, ChunkAssumption DEF IndexAttemptFails
  <2> QED
    BY <1>1, <1>2, <2>1, IndexStepKeeps DEF IndexAttemptFails
<1>3. CASE ~(indexTries[k] < MaxAttempts)
  BY <1>1, <1>3, IndexStepKeeps DEF IndexAttemptFails, Handled
<1> QED
  BY <1>2, <1>3

\* A vector written for a row that is deleted by now, or about to be, is a race.
LEMMA IndexVectorKeeps ==
    ASSUME ChunkInv, NEW k \in Indexed, IndexVector(k)
    PROVE  ChunkInv'
<1> USE ChunkAssumption DEF ChunkInv
<1>1. /\ indexing[k] = "vector" /\ indexing' = [indexing EXCEPT ![k] = "node"]
      /\ vector' = vector \cup {k} /\ raced' = IF Live(k) /\ ~Leaving(k) THEN raced ELSE raced \cup {k}
      /\ UNCHANGED <<created, removed, indexTries, processed, node, deadLetters, hasty>> /\ Unindexed
  BY DEF IndexVector
<1>2. UNCHANGED row /\ UNCHANGED callVars /\ UNCHANGED cacheVars
  BY <1>1 DEF Unindexed
<1>3. indexing \in [Indexed -> {"no", "read", "vector", "node"}] /\ row[k] # "none"
  BY <1>1 DEF ChunkTypes, ChunksTypeOK, IndexInv
<1>4. ChunkTypes' /\ CacheInv' /\ ChunkCallsInv' /\ OneChunkPerHash' /\
      \A j \in ChunkIds : Leaving(j)' = Leaving(j)
  BY <1>1, <1>2, <1>3, UnindexedKeeps DEF ChunkTypes, ChunksTypeOK
<1>5. IndexInv'
  <2>1. \A j \in Indexed : indexing'[j] = IF j = k THEN "node" ELSE indexing[j]
    BY <1>1, <1>3
  <2> QED
    BY <1>1, <1>2, <1>3, <2>1 DEF IndexInv, Live
<1>6. IndexedMeansIndexed'
  BY <1>1, <1>2 DEF IndexedMeansIndexed, Live
<1>7. GoneInv'
  <2> SUFFICES ASSUME NEW j \in ChunkIds \ raced'
               PROVE  /\ row[j] = "deleted" \/ Leaving(j) => (j \in vector' => j \in removed)
                      /\ row[j] = "dropped" => j \notin working
    BY <1>1, <1>2, <1>4 DEF GoneInv, callVars, cacheVars
  <2>1. j \notin raced /\ (j = k => Live(k) /\ ~Leaving(k))
    BY <1>1
  <2> QED
    BY <1>1, <2>1 DEF GoneInv, Live
<1> QED
  BY <1>4, <1>5, <1>6, <1>7

\* A vector that is taken from a live row was taken too early.
LEMMA HandleDeletedKeeps ==
    ASSUME ChunkInv, NEW k \in ChunkIds, HandleDeleted(k)
    PROVE  ChunkInv'
<1> USE ChunkAssumption DEF ChunkInv
<1>1. /\ k \in removed /\ removed' = removed \ {k} /\ vector' = vector \ {k} /\ row[k] # "none"
      /\ hasty' = IF Live(k) THEN hasty \cup {k} ELSE hasty
      /\ UNCHANGED <<raced, created, indexing, indexTries, processed, node, deadLetters>> /\ Unindexed
  BY DEF HandleDeleted, IndexInv
<1>2. UNCHANGED row /\ UNCHANGED callVars /\ UNCHANGED cacheVars
  BY <1>1 DEF Unindexed
<1>3. ChunkTypes' /\ CacheInv' /\ ChunkCallsInv' /\ OneChunkPerHash' /\
      \A j \in ChunkIds : Leaving(j)' = Leaving(j)
  BY <1>1, <1>2, UnindexedKeeps DEF ChunkTypes, ChunksTypeOK
<1>4. IndexInv' /\ IndexedMeansIndexed'
  BY <1>1, <1>2 DEF IndexInv, IndexedMeansIndexed, Live
<1>5. GoneInv'
  BY <1>1, <1>2, <1>3 DEF GoneInv, callVars, cacheVars
<1> QED
  BY <1>3, <1>4, <1>5

\* An empty store is in the invariant.
LEMMA ChunksStart ==
    ASSUME ChunksInit
    PROVE  ChunkInv
<1> USE ChunkAssumption DEF ChunksInit
<1>1. ChunkTypes
  BY DEF ChunkTypes, ChunksTypeOK, ChunkPoints
<1>2. CacheInv
  BY DEF CacheInv, NoneTwice, Range
<1>3. ChunkCallsInv
  BY DEF ChunkCallsInv, CallIs
<1>4. OneChunkPerHash
  BY DEF OneChunkPerHash
<1> QED
  BY <1>1, <1>2, <1>3, <1>4 DEF ChunkInv, IndexInv, GoneInv, Leaving, IndexedMeansIndexed

\* Every step keeps it.
LEMMA ChunkStepKeeps ==
    ASSUME ChunkInv, [ChunksNext]_chunkVars
    PROVE  ChunkInv'
<1>1. CASE UNCHANGED chunkVars
  <2>1. ChunkTypes' /\ CacheInv'
    BY <1>1, CachesKeep DEF ChunkInv, ChunkTypes, ChunksTypeOK, chunkVars, cacheVars
  <2>2. ChunkCallsInv' /\ OneChunkPerHash'
    BY <1>1 DEF chunkVars, ChunkInv, ChunkCallsInv, CallIs, Unique, SameText, OneChunkPerHash
  <2> QED
    BY <1>1, <2>1, <2>2
       DEF chunkVars, ChunkInv, IndexInv, GoneInv, Leaving, IndexedMeansIndexed, Live
<1>2. ASSUME NEW p \in ChunkCalls,
             \/ CreateChunk(p) \/ CreateRaises(p) \/ AnnounceCreated(p) \/ CacheRecord(p)
             \/ DropRow(p) \/ SoftDelete(p) \/ AnnounceDeleted(p) \/ Commit(p) \/ RollBack(p)
      PROVE  ChunkInv'
  BY <1>2, CreateChunkKeeps, CreateRaisesKeeps, AnnounceKeeps, CacheRecordKeeps, DropRowKeeps,
     SoftDeleteKeeps,
     CommitKeeps, RollBackKeeps
<1>3. ASSUME NEW p \in ChunkCalls, NEW k \in ChunkIds,
             \/ StoreKnown(p, k) \/ StoreUnknown(p, k) \/ UseCached(p, k) \/ RetrieveRow(p, k)
             \/ DeleteCached(p, k) \/ DeleteNode(p, k)
      PROVE  ChunkInv'
  BY <1>3, StoreKeeps, UseCachedKeeps, DeleteCachedKeeps
<1>4. ASSUME NEW k \in Indexed,
             \/ HandleCreated(k) \/ IndexReads(k) \/ IndexVector(k) \/ IndexNode(k)
             \/ IndexAttemptFails(k)
      PROVE  ChunkInv'
  BY <1>4, HandleCreatedKeeps, IndexReadsKeeps, IndexVectorKeeps, IndexNodeKeeps,
     IndexAttemptFailsKeeps
<1>5. ASSUME NEW k \in ChunkIds, HandleDeleted(k)
      PROVE  ChunkInv'
  BY <1>5, HandleDeletedKeeps
<1> QED
  BY <1>1, <1>2, <1>3, <1>4, <1>5 DEF ChunksNext

\* The invariant is more than what MemoryChunksSafe says.
LEMMA ChunkInvSafe ==
    ASSUME ChunkInv
    PROVE  MemoryChunksSafe
<1> USE DEF ChunkInv
<1>1. ChunksTypeOK
  BY DEF ChunkTypes
<1>2. WorkingMemoryFits
  BY OnceCounts DEF WorkingMemoryFits, CacheInv, ChunkTypes
<1>3. DeletedIsGone
  BY DEF DeletedIsGone, GoneInv
<1> QED
  BY <1>1, <1>2, <1>3 DEF MemoryChunksSafe

-----------------------------------------------------------------------------
(* Spans and their rows.                                                   *)

\* A save: its onto, and from its first onto on what it found and what it writes.
SaveStates ==
    [at : {"none", "queued", "found", "done", "failed"}, insert : BOOLEAN, row : Rows \cup {NoSpan}]

\* The types, as far as the model's type invariant leaves them open.
TraceTypes ==
    /\ TraceTypeOK
    /\ spanRows \in [Spans -> Rows \cup {NoSpan}]
    /\ saves \in [Spans -> [SpanEnds -> SaveStates]]
    /\ recentSpans \in Seq(Spans)

\* The two saves of a span.
StartSave(s) == saves[s]["start"]
EndSave(s) == saves[s]["end"]

\* A span that was started and ended has the saves of that, and writes a row.
SavesInv(s) ==
    /\ s \in Started <=> StartSave(s).at # "none"
    /\ s \in over <=> EndSave(s).at # "none"
    /\ \A p \in SpanEnds : saves[s][p].at = "found" =>
         saves[s][p].row \in Rows /\ (~saves[s][p].insert => spanRows[s] # NoSpan)
    /\ \A p \in SpanEnds : saves[s][p].at = "done" => spanRows[s] # NoSpan
    /\ spanRows[s] # NoSpan => StartSave(s).at # "none"

\* What the end has written stays: a start that finds the row finds the end reported.
EndInv(s) ==
    /\ EndSave(s).at = "found" => EndSave(s).row.status = "ENDED"
    /\ EndSave(s).at = "done" => s \in blank \/ spanRows[s].status = "ENDED"
    /\ spanRows[s] # NoSpan /\ StartSave(s).at \in {"queued", "found"} => EndSave(s).at = "done"
    /\ StartSave(s).at = "found" /\ ~StartSave(s).insert =>
         s \in over /\ (s \in blank \/ StartSave(s).row.status = "ENDED")

\* Saves that neither overlap nor fail: the row of the start, then the end in it.
SpanOrderInv(s) ==
    s \in Started \ mingled =>
        /\ StartSave(s).at # "failed" /\ EndSave(s).at # "failed"
        /\ StartSave(s).at \in {"queued", "found"} =>
             spanRows[s] = NoSpan /\ EndSave(s).at \in {"none", "queued"}
        /\ StartSave(s).at = "found" =>
             /\ StartSave(s).insert /\ StartSave(s).row.known
             /\ s \notin over => StartSave(s).row.status = "STARTED"
        /\ StartSave(s).at = "done" =>
             /\ spanRows[s].known
             /\ s \notin over => spanRows[s].status = "STARTED"
        /\ EndSave(s).at = "found" => ~EndSave(s).insert
        /\ EndSave(s).at = "done" => spanRows[s].status = "ENDED"

\* The list: the spans that started last, MaxRecent of them unless fewer were started.
RecentInv ==
    tracing =>
        /\ Len(recentSpans) <= begun
        /\ Len(recentSpans) >= MaxRecent \/ Len(recentSpans) = begun
        /\ \A i \in 1 .. Len(recentSpans) : recentSpans[i] = begun - Len(recentSpans) + i

\* The inductive invariant.
TraceInv ==
    TraceTypes /\ RecentInv /\ \A s \in Spans : SavesInv(s) /\ EndInv(s) /\ SpanOrderInv(s)

\* LastOf() takes as many as there are, MaxRecent at most, from the end.
LEMMA LastOfIs ==
    ASSUME NEW S, NEW q \in Seq(S)
    PROVE  /\ LastOf(q) \in Seq(S)
           /\ Len(LastOf(q)) = IF Len(q) <= MaxRecent THEN Len(q) ELSE MaxRecent
           /\ \A i \in 1 .. Len(LastOf(q)) : LastOf(q)[i] = q[Len(q) - Len(LastOf(q)) + i]
<1> DEFINE n == Len(q)
           m == IF n <= MaxRecent THEN n ELSE MaxRecent
           a == Max({1, n - MaxRecent + 1})
<1>1. MaxRecent \in Nat \ {0} /\ n \in Nat /\ \A i \in 1 .. n : q[i] \in S
  BY TraceAssumption
<1>2. LastOf(q) = SubSeq(q, a, n)
  BY DEF LastOf
<1> HIDE DEF n
<1>3. n - MaxRecent + 1 \in Int
  BY <1>1
<1>4. a = IF 1 >= n - MaxRecent + 1 THEN 1 ELSE n - MaxRecent + 1
  BY <1>3, GreatestOfTwo
<1> HIDE DEF a
<1>5. a = n - m + 1 /\ a \in Nat /\ m \in Nat /\ a \in Int /\ n \in Int /\ 1 <= a
  BY <1>1, <1>4
<1>6. \A i \in a .. n : q[i] \in S
  BY <1>1, <1>5
<1> HIDE DEF m
<1>7. /\ SubSeq(q, a, n) \in Seq(S)
      /\ Len(SubSeq(q, a, n)) = IF a <= n THEN n - a + 1 ELSE 0
      /\ \A i \in 1 .. n - a + 1 : SubSeq(q, a, n)[i] = q[a + i - 1]
  <2>1. a \in Int
    BY <1>5
  <2>2. n \in Int
    BY <1>5
  <2> QED
    BY <1>6, <2>1, <2>2, SubSeqProperties
<1>8. Len(LastOf(q)) = m
  BY <1>2, <1>5, <1>7
<1>9. \A i \in 1 .. m : i \in 1 .. n - a + 1 /\ a + i - 1 = n - m + i
  BY <1>1, <1>5
<1>10. \A i \in 1 .. m : LastOf(q)[i] = q[n - m + i]
  BY <1>2, <1>7, <1>9
<1> QED
  BY <1>2, <1>7, <1>8, <1>10 DEF m, n

\* The spans in the order they started.
LEMMA IndicesInOrder ==
    ASSUME TraceTypes
    PROVE  LET q == [s \in Started |-> s] IN
           q \in Seq(Started) /\ Len(q) = begun /\ \A i \in 1 .. begun : q[i] = i
<1>1. begun \in Nat
  BY TraceAssumption DEF TraceTypes, TraceTypeOK
<1> QED
  BY <1>1 DEF Started

\* A span that starts enters the list at its end, and pushes the oldest one out.
LEMMA AddRecentKeeps ==
    ASSUME TraceTypes, RecentInv, tracing, tracing' = tracing, NEW s \in Spans, s = begun + 1,
           begun' = s,
           recentSpans' = AddRecent(s)
    PROVE  RecentInv' /\ recentSpans' \in Seq(Spans)
<1> DEFINE n == Len(recentSpans)
           q == Append(recentSpans, s)
<1>0. MaxRecent \in Nat \ {0}
  BY TraceAssumption
<1>1. /\ begun \in Nat /\ n \in Nat /\ n <= begun /\ (n >= MaxRecent \/ n = begun)
      /\ \A i \in 1 .. n : recentSpans[i] = begun - n + i
  BY TraceAssumption DEF TraceTypes, TraceTypeOK, RecentInv
<1>2. /\ q \in Seq(Spans) /\ Len(q) = n + 1 /\ q[n + 1] = s
      /\ \A i \in 1 .. n : q[i] = recentSpans[i]
  BY AppendProperties DEF TraceTypes
<1>3. recentSpans' = IF n + 1 > 2 * MaxRecent THEN LastOf(q) ELSE q
  BY DEF AddRecent
<1> HIDE DEF n, q
<1>4. \A i \in 1 .. n + 1 : q[i] = begun' - (n + 1) + i
  <2> TAKE i \in 1 .. n + 1
  <2>1. CASE i = n + 1
    BY <1>1, <1>2, <2>1
  <2>2. CASE i # n + 1
    BY <1>1, <1>2, <2>2
  <2> QED
    BY <2>1, <2>2
<1> DEFINE k == n + 1
<1>5. k \in Nat /\ k = Len(q) /\ k <= begun' /\ (k >= MaxRecent \/ k = begun') /\ begun' \in Nat
  BY <1>0, <1>1, <1>2
<1>6. \A i \in 1 .. k : q[i] = begun' - k + i
  BY <1>4
<1> HIDE DEF k
<1>7. CASE k > 2 * MaxRecent
  <2>1. MaxRecent = (IF k <= MaxRecent THEN k ELSE MaxRecent)
    BY <1>0, <1>5, <1>7
  <2>2. /\ LastOf(q) \in Seq(Spans) /\ Len(LastOf(q)) = MaxRecent
        /\ \A i \in 1 .. MaxRecent : LastOf(q)[i] = q[k - MaxRecent + i]
    <3>1. /\ LastOf(q) \in Seq(Spans)
          /\ Len(LastOf(q)) = IF Len(q) <= MaxRecent THEN Len(q) ELSE MaxRecent
          /\ \A i \in 1 .. Len(LastOf(q)) : LastOf(q)[i] = q[Len(q) - Len(LastOf(q)) + i]
      BY <1>2, LastOfIs, Zenon
    <3>2. Len(LastOf(q)) = MaxRecent
      BY <1>5, <2>1, <3>1, Zenon
    <3> QED
      BY <1>5, <3>1, <3>2, Zenon
  <2>3. recentSpans' = LastOf(q)
    BY <1>3, <1>7 DEF k
  <2>4. \A i \in 1 .. MaxRecent : k - MaxRecent + i \in 1 .. k /\
        begun' - k + (k - MaxRecent + i) = begun' - MaxRecent + i
    BY <1>0, <1>5, <1>7
  <2>5. \A i \in 1 .. MaxRecent : recentSpans'[i] = begun' - MaxRecent + i
    BY <1>6, <2>2, <2>3, <2>4
  <2>6. Len(recentSpans') = MaxRecent /\ MaxRecent <= begun' /\ MaxRecent >= MaxRecent
    BY <1>0, <1>5, <1>7, <2>2, <2>3
  <2>7. RecentInv'
    BY <2>5, <2>6 DEF RecentInv
  <2> QED
    BY <2>2, <2>3, <2>7
<1>8. CASE ~(k > 2 * MaxRecent)
  <2>1. recentSpans' = q
    BY <1>3, <1>8 DEF k
  <2>2. RecentInv'
    BY <1>5, <1>6, <2>1 DEF RecentInv
  <2> QED
    BY <1>2, <2>1, <2>2
<1> QED
  BY <1>7, <1>8

\* What a onto of one span leaves alone.
LEMMA OtherSpansKeep ==
    ASSUME TraceInv, NEW s \in Spans, spanRows'[s] = spanRows[s], saves'[s] = saves[s],
           s \in Started' <=> s \in Started, s \in over' <=> s \in over, s \in blank' <=> s \in blank,
           s \in mingled => s \in mingled'
    PROVE  SavesInv(s)' /\ EndInv(s)' /\ SpanOrderInv(s)'
BY DEF TraceInv, SavesInv, EndInv, SpanOrderInv, StartSave, EndSave

\* The two saves as a onto of one of them leaves them.
LEMMA SaveMoves ==
    ASSUME TraceTypes, NEW s \in Spans, NEW p \in SpanEnds, NEW v \in SaveStates,
           saves' = [saves EXCEPT ![s][p] = v]
    PROVE  /\ saves' \in [Spans -> [SpanEnds -> SaveStates]]
           /\ \A t \in Spans \ {s} : saves'[t] = saves[t]
           /\ p = "start" => StartSave(s)' = v /\ EndSave(s)' = EndSave(s)
           /\ p = "end" => StartSave(s)' = StartSave(s) /\ EndSave(s)' = v
<1>1. saves \in [Spans -> [SpanEnds -> SaveStates]]
  BY DEF TraceTypes
<1>2. saves'[s] = [saves[s] EXCEPT ![p] = v] /\ saves[s] \in [SpanEnds -> SaveStates]
  BY <1>1
<1>3. saves'[s][p] = v /\ \A r \in SpanEnds \ {p} : saves'[s][r] = saves[s][r]
  BY <1>2
<1>4. saves' \in [Spans -> [SpanEnds -> SaveStates]] /\ \A t \in Spans \ {s} : saves'[t] = saves[t]
  BY <1>1
<1> QED
  BY <1>3, <1>4 DEF StartSave, EndSave, SpanEnds

\* A save that is changed is a save.
LEMMA SavesTyped ==
    ASSUME TraceTypes, NEW s \in Spans
    PROVE  /\ StartSave(s) \in SaveStates /\ EndSave(s) \in SaveStates
           /\ \A p \in SpanEnds : saves[s][p] = IF p = "start" THEN StartSave(s) ELSE EndSave(s)
           /\ spanRows[s] \in Rows \cup {NoSpan} /\ NoSpan \notin Rows
BY TraceAssumption DEF TraceTypes, StartSave, EndSave, SpanEnds, Rows

\* ... and at its new step.
LEMMA SaveAtTyped ==
    ASSUME NEW onto \in {"none", "queued", "failed", "done"}
    PROVE  SaveAt(onto) \in SaveStates /\ SaveAt(onto).at = onto
BY DEF SaveAt, SaveStates

\* A span starts; its first save is on its way.
LEMMA StartSpanKeeps ==
    ASSUME TraceInv, NEW s \in Spans, StartSpan(s)
    PROVE  TraceInv'
<1> USE DEF TraceInv
<1>1. /\ tracing /\ s = begun + 1 /\ begun' = s /\ recentSpans' = AddRecent(s)
      /\ saves' = [saves EXCEPT ![s]["start"] = SaveAt("queued")]
      /\ UNCHANGED <<over, blank, spanRows, mingled, tracing>>
  BY DEF StartSpan, FireAndForget
<1>2. begun \in Nat /\ s \notin Started /\ \A t \in Spans : t \in Started' <=> t \in Started \/ t = s
  BY <1>1, TraceAssumption DEF TraceTypes, TraceTypeOK, Started, Spans
<1>3. RecentInv' /\ recentSpans' \in Seq(Spans)
  BY <1>1, AddRecentKeeps
<1>4. /\ saves' \in [Spans -> [SpanEnds -> SaveStates]] /\ \A t \in Spans \ {s} : saves'[t] = saves[t]
      /\ StartSave(s)' = SaveAt("queued") /\ EndSave(s)' = EndSave(s)
  BY <1>1, SaveMoves, SaveAtTyped DEF SpanEnds
<1>5. TraceTypes'
  <2>1. begun' \in 0 .. MaxSpans /\ over \subseteq Started'
    BY <1>1, <1>2, TraceAssumption DEF TraceTypes, TraceTypeOK, Spans, Started
  <2> QED
    BY <1>1, <1>3, <1>4, <2>1 DEF TraceTypes, TraceTypeOK
<1>6. \A t \in Spans \ {s} : SavesInv(t)' /\ EndInv(t)' /\ SpanOrderInv(t)'
  BY <1>1, <1>2, <1>4, OtherSpansKeep
<1>7. s \notin over /\ EndSave(s).at = "none" /\ spanRows[s] = NoSpan
  BY <1>2 DEF TraceTypes, TraceTypeOK, SavesInv
<1>8. SavesInv(s)' /\ EndInv(s)' /\ SpanOrderInv(s)'
  <2>1. \A p \in SpanEnds : saves'[s][p].at \in {"none", "queued"}
    BY <1>4, <1>7, SaveAtTyped DEF SpanEnds, StartSave, EndSave
  <2> QED
    BY <1>1, <1>2, <1>4, <1>7, <2>1, SaveAtTyped DEF SavesInv, EndInv, SpanOrderInv
<1> QED
  BY <1>3, <1>5, <1>6, <1>8

\* It ends; its last save is on its way.
LEMMA EndSpanKeeps ==
    ASSUME TraceInv, NEW s \in Spans, EndSpan(s)
    PROVE  TraceInv'
<1> USE DEF TraceInv
<1>1. /\ s \in Started \ over /\ over' = over \cup {s} /\ blank \subseteq blank' /\
         blank' \subseteq blank \cup {s}
      /\ saves' = [saves EXCEPT ![s]["end"] = SaveAt("queued")]
      /\ UNCHANGED <<begun, recentSpans, spanRows, mingled, tracing>>
  BY DEF EndSpan, FireAndForget
<1>2. /\ saves' \in [Spans -> [SpanEnds -> SaveStates]] /\ \A t \in Spans \ {s} : saves'[t] = saves[t]
      /\ StartSave(s)' = StartSave(s) /\ EndSave(s)' = SaveAt("queued")
  BY <1>1, SaveMoves, SaveAtTyped DEF SpanEnds
<1>3. TraceTypes' /\ RecentInv'
  BY <1>1, <1>2 DEF TraceTypes, TraceTypeOK, RecentInv, Started
<1>4. \A t \in Spans \ {s} : SavesInv(t)' /\ EndInv(t)' /\ SpanOrderInv(t)'
  BY <1>1, <1>2, OtherSpansKeep DEF Started
<1>5. EndSave(s).at = "none" /\ EndSave(s)'.at = "queued" /\ Started' = Started
  BY <1>1, <1>2, SaveAtTyped DEF SavesInv, Started
<1>6. SavesInv(s)'
  <2>1. \A p \in SpanEnds : saves'[s][p].at \in {"found", "done"} => p = "start" /\
        saves'[s][p] = saves[s][p]
    BY <1>2, <1>5 DEF SpanEnds, StartSave, EndSave
  <2> QED
    BY <1>1, <1>2, <1>5, <2>1 DEF SavesInv
<1>7. EndInv(s)' /\ SpanOrderInv(s)'
  BY <1>1, <1>2, <1>5 DEF EndInv, SpanOrderInv, SavesInv
<1> QED
  BY <1>3, <1>4, <1>6, <1>7

\* The frame of a onto of a save.
LEMMA SaveFrame ==
    ASSUME TraceInv, NEW s \in Spans, NEW p \in SpanEnds, NEW v \in SaveStates,
           saves' = [saves EXCEPT ![s][p] = v], NEW r \in Rows \cup {NoSpan},
           spanRows' = [spanRows EXCEPT ![s] = r], mingled \subseteq mingled',
             mingled' \subseteq mingled \cup {s},
           UNCHANGED <<begun, recentSpans, over, blank, tracing>>
    PROVE  /\ TraceTypes' /\ RecentInv' /\ spanRows'[s] = r /\ Started' = Started
           /\ \A t \in Spans \ {s} : SavesInv(t)' /\ EndInv(t)' /\ SpanOrderInv(t)'
           /\ p = "start" => StartSave(s)' = v /\ EndSave(s)' = EndSave(s)
           /\ p = "end" => StartSave(s)' = StartSave(s) /\ EndSave(s)' = v
           /\ \A q \in SpanEnds : saves'[s][q] = IF q = p THEN v ELSE saves[s][q]
<1> USE DEF TraceInv
<1>1. /\ saves' \in [Spans -> [SpanEnds -> SaveStates]] /\ \A t \in Spans \ {s} : saves'[t] = saves[t]
      /\ p = "start" => StartSave(s)' = v /\ EndSave(s)' = EndSave(s)
      /\ p = "end" => StartSave(s)' = StartSave(s) /\ EndSave(s)' = v
  BY SaveMoves
<1>2. spanRows' \in [Spans -> Rows \cup {NoSpan}] /\ spanRows'[s] = r /\
      \A t \in Spans \ {s} : spanRows'[t] = spanRows[t]
  BY DEF TraceTypes
<1>3. TraceTypes' /\ RecentInv' /\ Started' = Started
  BY <1>1, <1>2 DEF TraceTypes, TraceTypeOK, RecentInv, Started
<1>4. \A t \in Spans \ {s} : SavesInv(t)' /\ EndInv(t)' /\ SpanOrderInv(t)'
  BY <1>1, <1>2, <1>3, OtherSpansKeep
<1>5. \A q \in SpanEnds : saves'[s][q] = IF q = p THEN v ELSE saves[s][q]
  BY <1>1 DEF SpanEnds, StartSave, EndSave
<1> QED
  BY <1>1, <1>2, <1>3, <1>4, <1>5

\* A save looks for the row of its span.
LEMMA LookUpKeeps ==
    ASSUME TraceInv, NEW s \in Spans, NEW p \in SpanEnds, LookUp(s, p)
    PROVE  TraceInv'
<1> DEFINE v == [at |-> "found", insert |-> spanRows[s] = NoSpan, row |-> Content(s, p)]
<1>1. /\ saves[s][p].at = "queued" /\ saves' = [saves EXCEPT ![s][p] = v]
      /\ mingled' = IF p = "end" /\ saves[s]["start"].at # "done" THEN mingled \cup {s} ELSE mingled
      /\ UNCHANGED <<begun, recentSpans, over, blank, spanRows, tracing>>
  BY DEF LookUp
<1>2. /\ Content(s, p) \in Rows
      /\ Content(s, p).status = "ENDED" <=> p = "end" \/ (s \in over /\ s \notin blank)
      /\ p = "start" => Content(s, p).known
  BY DEF Content, Rows, SpanEnds
<1>3. v \in SaveStates /\ v.at = "found" /\ v.insert = (spanRows[s] = NoSpan) /\ v.row = Content(s, p)
  BY <1>2 DEF SaveStates
<1>4. spanRows' = [spanRows EXCEPT ![s] = spanRows[s]] /\ spanRows[s] \in Rows \cup {NoSpan} /\
      NoSpan \notin Rows
  BY <1>1, SavesTyped DEF TraceInv, TraceTypes
<1> HIDE DEF v
<1>5. /\ TraceTypes' /\ RecentInv' /\ Started' = Started
      /\ \A t \in Spans \ {s} : SavesInv(t)' /\ EndInv(t)' /\ SpanOrderInv(t)'
      /\ p = "start" => StartSave(s)' = v /\ EndSave(s)' = EndSave(s)
      /\ p = "end" => StartSave(s)' = StartSave(s) /\ EndSave(s)' = v
      /\ \A q \in SpanEnds : saves'[s][q] = IF q = p THEN v ELSE saves[s][q]
  <2>1. mingled \subseteq mingled' /\ mingled' \subseteq mingled \cup {s} /\
        spanRows[s] \in Rows \cup {NoSpan}
    BY <1>1, <1>4
  <2>2. UNCHANGED <<begun, recentSpans, over, blank, tracing>> /\ saves' = [saves EXCEPT ![s][p] = v]
    BY <1>1
  <2> DEFINE r == spanRows[s]
  <2>3. r \in Rows \cup {NoSpan} /\ spanRows' = [spanRows EXCEPT ![s] = r]
    BY <1>4
  <2>4. v \in SaveStates
    BY <1>3
  <2> HIDE DEF r
  <2> QED
    <3> USE <2>1, <2>2, <2>3, <2>4
    <3>1. TraceTypes' /\ RecentInv' /\ Started' = Started
      BY SaveFrame
    <3>2. \A t \in Spans \ {s} : SavesInv(t)' /\ EndInv(t)' /\ SpanOrderInv(t)'
      BY SaveFrame
    <3>3. (p = "start" => StartSave(s)' = v /\ EndSave(s)' = EndSave(s))
          /\ (p = "end" => StartSave(s)' = StartSave(s) /\ EndSave(s)' = v)
      BY SaveFrame
    <3>4. \A q \in SpanEnds : saves'[s][q] = IF q = p THEN v ELSE saves[s][q]
      BY <3>3 DEF SpanEnds, StartSave, EndSave
    <3> QED
      BY <3>1, <3>2, <3>3, <3>4
<1> USE DEF TraceInv
<1>6. SavesInv(s)'
  <2>1. saves[s][p] = IF p = "start" THEN StartSave(s) ELSE EndSave(s)
    BY DEF StartSave, EndSave, SpanEnds
  <2>2. (s \in Started <=> StartSave(s)'.at # "none") /\ (s \in over <=> EndSave(s)'.at # "none")
    BY <1>1, <1>3, <1>5, <2>1 DEF SavesInv, SpanEnds
  <2>3. spanRows[s] # NoSpan => StartSave(s)'.at # "none"
    BY <1>1, <1>3, <1>5, <2>1 DEF SavesInv, SpanEnds
  <2>4. \A q \in SpanEnds : saves'[s][q].at = "found" =>
           saves'[s][q].row \in Rows /\ (~saves'[s][q].insert => spanRows[s] # NoSpan)
    BY <1>2, <1>3, <1>5 DEF SavesInv
  <2>5. \A q \in SpanEnds : saves'[s][q].at = "done" => spanRows[s] # NoSpan
    BY <1>3, <1>5 DEF SavesInv
  <2> QED
    BY <1>1, <1>5, <2>2, <2>3, <2>4, <2>5 DEF SavesInv
<1>7. CASE p = "start"
  <2>1. StartSave(s).at = "queued" /\ StartSave(s)' = v /\ EndSave(s)' = EndSave(s) /\ UNCHANGED mingled
    BY <1>1, <1>5, <1>7 DEF StartSave
  <2>2. EndInv(s)'
    <3>1. spanRows[s] # NoSpan => EndSave(s).at = "done" /\ s \in over
      BY <2>1 DEF EndInv, SavesInv
    <3>2. spanRows[s] # NoSpan => s \in blank \/ v.row.status = "ENDED"
      BY <1>2, <1>3, <1>7, <3>1
    <3> QED
      BY <1>1, <1>3, <2>1, <3>1, <3>2 DEF EndInv
  <2>3. SpanOrderInv(s)'
    <3>1. v.row.known /\ (s \notin over => v.row.status = "STARTED")
      BY <1>2, <1>3, <1>7 DEF Rows
    <3> QED
      BY <1>1, <1>3, <1>5, <2>1, <3>1 DEF SpanOrderInv
  <2> QED
    BY <1>5, <1>6, <2>2, <2>3
<1>8. CASE p = "end"
  <2>1. EndSave(s).at = "queued" /\ EndSave(s)' = v /\ StartSave(s)' = StartSave(s) /\
        v.row.status = "ENDED"
    BY <1>1, <1>2, <1>3, <1>5, <1>8 DEF EndSave
  <2>2. EndInv(s)'
    BY <1>1, <1>3, <2>1 DEF EndInv
  <2>3. SpanOrderInv(s)'
    <3> SUFFICES ASSUME s \in Started \ mingled'
                 PROVE  SpanOrderInv(s)'
      BY <1>5 DEF SpanOrderInv
    <3>1. StartSave(s).at = "done" /\ s \notin mingled
      BY <1>1, <1>8 DEF StartSave
    <3>2. spanRows[s] # NoSpan
      BY <3>1 DEF SavesInv, StartSave, SpanEnds
    <3> QED
      BY <1>1, <1>3, <1>5, <2>1, <3>1, <3>2 DEF SpanOrderInv
  <2> QED
    BY <1>5, <1>6, <2>2, <2>3
<1> QED
  BY <1>7, <1>8 DEF SpanEnds

\* It inserts the row, or updates the one there is.
LEMMA StoreSpanKeeps ==
    ASSUME TraceInv, NEW s \in Spans, NEW p \in SpanEnds, Store(s, p)
    PROVE  TraceInv'
<1> DEFINE w == saves[s][p]
           fails == w.insert /\ spanRows[s] # NoSpan
           v == SaveAt(IF fails THEN "failed" ELSE "done")
           r == IF fails THEN spanRows[s] ELSE IF w.insert THEN w.row ELSE [spanRows[s] EXCEPT !.status = w.row.status]
<1>1. /\ w.at = "found" /\ saves' = [saves EXCEPT ![s][p] = v]
      /\ UNCHANGED <<begun, recentSpans, over, blank, mingled, tracing>>
  BY DEF Store
<1>2. /\ w \in SaveStates /\ w.row \in Rows /\ (~w.insert => spanRows[s] # NoSpan) /\
         w.insert \in BOOLEAN
      /\ spanRows[s] \in Rows \cup {NoSpan} /\ NoSpan \notin Rows /\
         spanRows \in [Spans -> Rows \cup {NoSpan}]
      /\ w = IF p = "start" THEN StartSave(s) ELSE EndSave(s)
  BY <1>1, SavesTyped DEF TraceInv, SavesInv, TraceTypes, SaveStates
<1>3. v \in SaveStates /\ v.at = IF fails THEN "failed" ELSE "done"
  BY SaveAtTyped
<1>4. /\ r \in Rows \cup {NoSpan} /\ spanRows' = [spanRows EXCEPT ![s] = r] /\ r # NoSpan
      /\ ~fails => r.status = w.row.status /\
         r.known = (IF w.insert THEN w.row.known ELSE spanRows[s].known)
      /\ fails => r = spanRows[s]
  <2>1. CASE fails
    <3>1. UNCHANGED spanRows
      BY <2>1 DEF Store
    <3> QED
      BY <1>2, <2>1, <3>1
  <2>2. CASE ~fails
    <3>1. spanRows' = [spanRows EXCEPT ![s] = IF w.insert THEN w.row ELSE [@ EXCEPT !.status = w.row.status]]
      BY <2>2 DEF Store
    <3> QED
      BY <1>2, <2>2, <3>1 DEF Rows
  <2> QED
    BY <2>1, <2>2
<1> HIDE DEF v, r
<1>5. /\ TraceTypes' /\ RecentInv' /\ Started' = Started /\ spanRows'[s] = r
      /\ \A t \in Spans \ {s} : SavesInv(t)' /\ EndInv(t)' /\ SpanOrderInv(t)'
      /\ p = "start" => StartSave(s)' = v /\ EndSave(s)' = EndSave(s)
      /\ p = "end" => StartSave(s)' = StartSave(s) /\ EndSave(s)' = v
      /\ \A q \in SpanEnds : saves'[s][q] = IF q = p THEN v ELSE saves[s][q]
  <2>1. mingled \subseteq mingled' /\ mingled' \subseteq mingled \cup {s}
    BY <1>1
  <2>2. UNCHANGED <<begun, recentSpans, over, blank, tracing>> /\ saves' = [saves EXCEPT ![s][p] = v]
    BY <1>1
  <2>3. r \in Rows \cup {NoSpan} /\ spanRows' = [spanRows EXCEPT ![s] = r]
    BY <1>4
  <2>4. v \in SaveStates
    BY <1>3
  <2> USE <2>1, <2>2, <2>3, <2>4
  <2>5. TraceTypes' /\ RecentInv' /\ Started' = Started /\ spanRows'[s] = r
    BY SaveFrame
  <2>6. \A t \in Spans \ {s} : SavesInv(t)' /\ EndInv(t)' /\ SpanOrderInv(t)'
    BY SaveFrame
  <2>7. (p = "start" => StartSave(s)' = v /\ EndSave(s)' = EndSave(s))
        /\ (p = "end" => StartSave(s)' = StartSave(s) /\ EndSave(s)' = v)
    BY SaveFrame
  <2>8. \A q \in SpanEnds : saves'[s][q] = IF q = p THEN v ELSE saves[s][q]
    BY <2>7 DEF SpanEnds, StartSave, EndSave
  <2> QED
    BY <2>5, <2>6, <2>7, <2>8
<1> USE DEF TraceInv
<1>6. SavesInv(s)'
  <2>1. (s \in Started' <=> StartSave(s)'.at # "none") /\ (s \in over' <=> EndSave(s)'.at # "none")
    BY <1>1, <1>2, <1>3, <1>5 DEF SavesInv, SpanEnds
  <2>2. StartSave(s)'.at # "none"
    BY <1>1, <1>2, <1>3, <1>5, <2>1 DEF SavesInv, SpanEnds, TraceTypes, TraceTypeOK
  <2>3. \A q \in SpanEnds : saves'[s][q].at = "found" => saves'[s][q].row \in Rows
    BY <1>3, <1>5 DEF SavesInv
  <2> QED
    BY <1>4, <1>5, <2>1, <2>2, <2>3 DEF SavesInv
<1>7. s \in Started /\ UNCHANGED mingled
  BY <1>1, <1>2 DEF SavesInv, TraceTypes, TraceTypeOK, SpanEnds
<1>8. CASE p = "start"
  <2>1. w = StartSave(s) /\ StartSave(s)' = v /\ EndSave(s)' = EndSave(s)
    BY <1>2, <1>5, <1>8
  <2>2. EndInv(s)'
    <3>1. EndSave(s).at = "done" => spanRows[s] # NoSpan
      BY DEF SavesInv, EndSave, SpanEnds
    <3>2. EndSave(s).at = "done" => s \in blank \/ r.status = "ENDED"
      BY <1>1, <1>2, <1>4, <2>1, <3>1 DEF EndInv
    <3> QED
      BY <1>1, <1>3, <1>5, <2>1, <3>2 DEF EndInv
  <2>3. SpanOrderInv(s)'
    <3> SUFFICES ASSUME s \notin mingled
                 PROVE  SpanOrderInv(s)'
      BY <1>7 DEF SpanOrderInv
    <3>1. spanRows[s] = NoSpan /\ w.insert /\ EndSave(s).at \in {"none", "queued"} /\ w.row.known
          /\ (s \notin over => w.row.status = "STARTED")
      BY <1>1, <1>7, <2>1 DEF SpanOrderInv
    <3> QED
      BY <1>1, <1>3, <1>4, <1>5, <2>1, <3>1 DEF SpanOrderInv
  <2> QED
    BY <1>5, <1>6, <2>2, <2>3
<1>9. CASE p = "end"
  <2>1. w = EndSave(s) /\ StartSave(s)' = StartSave(s) /\ EndSave(s)' = v /\ w.row.status = "ENDED"
    BY <1>1, <1>2, <1>5, <1>9 DEF EndInv
  <2>2. spanRows[s] # NoSpan => StartSave(s).at \notin {"queued", "found"}
    BY <1>1, <2>1 DEF EndInv
  <2>3. EndInv(s)'
    <3>1. v.at = "done" => r.status = "ENDED"
      BY <1>3, <1>4, <2>1
    <3>2. v.at = "failed" => spanRows[s] # NoSpan
      BY <1>3
    <3> QED
      BY <1>1, <1>3, <1>5, <2>1, <2>2, <3>1, <3>2 DEF EndInv
  <2>4. SpanOrderInv(s)'
    <3> SUFFICES ASSUME s \notin mingled
                 PROVE  SpanOrderInv(s)'
      BY <1>7 DEF SpanOrderInv
    <3>1. ~w.insert /\ StartSave(s).at \notin {"queued", "found", "failed"} /\ s \in over
      BY <1>1, <1>7, <2>1 DEF SpanOrderInv, SavesInv
    <3>2. StartSave(s).at = "done" => spanRows[s].known /\ r.known = spanRows[s].known
      BY <1>4, <1>7, <3>1 DEF SpanOrderInv
    <3> QED
      BY <1>1, <1>3, <1>4, <1>5, <2>1, <3>1, <3>2 DEF SpanOrderInv
  <2> QED
    BY <1>5, <1>6, <2>3, <2>4
<1> QED
  BY <1>8, <1>9 DEF SpanEnds

\* A save that fails mingles; what is written stays.
LEMMA StoreFailsKeeps ==
    ASSUME TraceInv, NEW s \in Spans, NEW p \in SpanEnds, StoreFails(s, p)
    PROVE  TraceInv'
<1> DEFINE v == SaveAt("failed")
           r == spanRows[s]
<1>1. /\ saves[s][p].at \in {"queued", "found"} /\ saves' = [saves EXCEPT ![s][p] = v]
      /\ mingled' = mingled \cup {s} /\ UNCHANGED <<begun, recentSpans, over, blank, spanRows, tracing>>
  BY DEF StoreFails
<1>2. v \in SaveStates /\ v.at = "failed"
  BY SaveAtTyped
<1>3. r \in Rows \cup {NoSpan} /\ spanRows' = [spanRows EXCEPT ![s] = r]
  BY <1>1 DEF TraceInv, TraceTypes
<1> HIDE DEF v, r
<1>4. /\ TraceTypes' /\ RecentInv' /\ Started' = Started
      /\ \A t \in Spans \ {s} : SavesInv(t)' /\ EndInv(t)' /\ SpanOrderInv(t)'
      /\ p = "start" => StartSave(s)' = v /\ EndSave(s)' = EndSave(s)
      /\ p = "end" => StartSave(s)' = StartSave(s) /\ EndSave(s)' = v
      /\ \A q \in SpanEnds : saves'[s][q] = IF q = p THEN v ELSE saves[s][q]
  <2>1. mingled \subseteq mingled' /\ mingled' \subseteq mingled \cup {s}
    BY <1>1
  <2>2. UNCHANGED <<begun, recentSpans, over, blank, tracing>> /\ saves' = [saves EXCEPT ![s][p] = v]
    BY <1>1
  <2>3. v \in SaveStates
    BY <1>2
  <2> USE <1>3, <2>1, <2>2, <2>3
  <2>4. TraceTypes' /\ RecentInv' /\ Started' = Started
    BY SaveFrame
  <2>5. \A t \in Spans \ {s} : SavesInv(t)' /\ EndInv(t)' /\ SpanOrderInv(t)'
    BY SaveFrame
  <2>6. (p = "start" => StartSave(s)' = v /\ EndSave(s)' = EndSave(s))
        /\ (p = "end" => StartSave(s)' = StartSave(s) /\ EndSave(s)' = v)
    BY SaveFrame
  <2>7. \A q \in SpanEnds : saves'[s][q] = IF q = p THEN v ELSE saves[s][q]
    BY <2>6 DEF SpanEnds, StartSave, EndSave
  <2> QED
    BY <2>4, <2>5, <2>6, <2>7
<1> USE DEF TraceInv
<1>5. (IF p = "start" THEN StartSave(s) ELSE EndSave(s)).at \in {"queued", "found"}
  BY <1>1, SavesTyped
<1>6. SavesInv(s)'
  BY <1>1, <1>2, <1>4, <1>5 DEF SavesInv, SpanEnds
<1>7. EndInv(s)'
  BY <1>1, <1>2, <1>4, <1>5 DEF EndInv, SpanEnds
<1>8. SpanOrderInv(s)'
  BY <1>1 DEF SpanOrderInv
<1> QED
  BY <1>4, <1>6, <1>7, <1>8

\* The process stops: saves that were under way are lost.
LEMMA StopTracingKeeps ==
    ASSUME TraceInv, StopTracing
    PROVE  TraceInv'
<1> USE DEF TraceInv
<1>1. /\ tracing' = FALSE /\ recentSpans' = <<>> /\ UNCHANGED <<begun, over, blank, spanRows>>
      /\ mingled' = mingled \cup {s \in Spans : \E p \in SpanEnds : saves[s][p].at \in {"queued", "found"}}
      /\ saves' = [s \in Spans |-> [p \in SpanEnds |->
           IF saves[s][p].at \in {"queued", "found"} THEN SaveAt("failed") ELSE saves[s][p]]]
  BY DEF StopTracing
<1>2. SaveAt("failed") \in SaveStates /\ SaveAt("failed").at = "failed"
  BY SaveAtTyped
<1>3. TraceTypes' /\ RecentInv'
  BY <1>1, <1>2 DEF TraceTypes, TraceTypeOK, RecentInv, Started
<1>4. ASSUME NEW s \in Spans
      PROVE  SavesInv(s)' /\ EndInv(s)' /\ SpanOrderInv(s)'
  <2>1. \A p \in SpanEnds :
        saves'[s][p] = IF saves[s][p].at \in {"queued", "found"} THEN SaveAt("failed") ELSE saves[s][p]
    BY <1>1
  <2>2. /\ StartSave(s)' = IF StartSave(s).at \in {"queued", "found"} THEN SaveAt("failed") ELSE StartSave(s)
        /\ EndSave(s)' = IF EndSave(s).at \in {"queued", "found"} THEN SaveAt("failed") ELSE EndSave(s)
    BY <2>1 DEF SpanEnds, StartSave, EndSave
  <2>3. Started' = Started /\ SavesInv(s) /\ EndInv(s) /\ SpanOrderInv(s)
    BY <1>1 DEF Started
  <2>4. SavesInv(s)'
    BY <1>1, <1>2, <2>1, <2>2, <2>3 DEF SavesInv
  <2>5. EndInv(s)'
    BY <1>1, <1>2, <2>2, <2>3 DEF EndInv
  <2>6. SpanOrderInv(s)'
    <3>1. s \notin mingled' => s \notin mingled /\ StartSave(s).at \notin {"queued", "found"} /\
          EndSave(s).at \notin {"queued", "found"}
      BY <1>1 DEF SpanEnds, StartSave, EndSave
    <3> QED
      BY <1>1, <2>2, <2>3, <3>1 DEF SpanOrderInv
  <2> QED
    BY <2>4, <2>5, <2>6
<1> QED
  BY <1>3, <1>4

\* No span has started.
LEMMA TracesStart ==
    ASSUME TraceInit
    PROVE  TraceInv
<1> USE DEF TraceInit
<1>1. SaveAt("none") \in SaveStates /\ SaveAt("none").at = "none"
  BY SaveAtTyped
<1>2. TraceTypes
  BY <1>1, TraceAssumption DEF TraceTypes, TraceTypeOK, Started, Spans
<1>3. RecentInv
  BY DEF RecentInv
<1>4. ASSUME NEW s \in Spans
      PROVE  SavesInv(s) /\ EndInv(s) /\ SpanOrderInv(s)
  <2>1. \A p \in SpanEnds : saves[s][p].at = "none"
    BY <1>1
  <2>2. s \notin Started
    BY DEF Started
  <2> QED
    BY <2>1, <2>2 DEF SavesInv, EndInv, SpanOrderInv, StartSave, EndSave, SpanEnds
<1> QED
  BY <1>2, <1>3, <1>4 DEF TraceInv

\* Every step keeps it.
LEMMA TraceStepKeeps ==
    ASSUME TraceInv, [TraceNext]_traceVars
    PROVE  TraceInv'
<1>1. CASE UNCHANGED traceVars
  BY <1>1
     DEF traceVars, TraceInv, TraceTypes, TraceTypeOK, RecentInv, SavesInv, EndInv,
         SpanOrderInv, StartSave, EndSave,
              Started
<1>2. CASE TraceNext
  BY <1>2, StopTracingKeeps, StartSpanKeeps, EndSpanKeeps, LookUpKeeps, StoreSpanKeeps,
     StoreFailsKeeps
     DEF TraceNext
<1> QED
  BY <1>1, <1>2

\* The invariant is more than what TracingSafe says.
LEMMA TraceInvSafe ==
    ASSUME TraceInv
    PROVE  TracingSafe
<1> USE DEF TraceInv
<1>1. TraceTypeOK
  BY DEF TraceTypes
<1>2. Started \subseteq Spans
  BY TraceAssumption DEF TraceTypes, TraceTypeOK, Started, Spans
<1>3. EndsAreRecorded
  <2> SUFFICES ASSUME NEW s \in Started \ mingled, Settled(s)
               PROVE  spanRows[s] = [status |-> IF s \in over THEN "ENDED" ELSE "STARTED", known |-> TRUE]
    BY DEF EndsAreRecorded
  <2>1. StartSave(s).at = "done" /\ EndSave(s).at \in {"none", "done"} /\ spanRows[s] # NoSpan
    BY <1>2 DEF Settled, SavesInv, SpanOrderInv, StartSave, EndSave, SpanEnds
  <2>2. spanRows[s] \in Rows /\ spanRows[s].known
    BY <1>2, <2>1 DEF SpanOrderInv, TraceTypes
  <2>3. spanRows[s].status = IF s \in over THEN "ENDED" ELSE "STARTED"
    BY <1>2, <2>1 DEF SpanOrderInv, SavesInv
  <2> QED
    BY <2>2, <2>3 DEF Rows
<1>4. EndsStay
  <2> SUFFICES ASSUME NEW s \in over \ blank, Settled(s), \A p \in SpanEnds : saves[s][p].at # "failed"
               PROVE  spanRows[s].status = "ENDED"
    BY DEF EndsStay
  <2>1. s \in Spans
    BY <1>2 DEF TraceTypes, TraceTypeOK
  <2>2. EndSave(s).at = "done"
    BY <2>1 DEF Settled, SavesInv, EndSave, SpanEnds
  <2> QED
    BY <2>1, <2>2 DEF EndInv
<1>5. RecentIsRecent
  <2> SUFFICES ASSUME tracing
               PROVE  LastOf(recentSpans) = LastOf([s \in Started |-> s])
    BY DEF RecentIsRecent
  <2> DEFINE q == [s \in Started |-> s]
             n == Len(recentSpans)
             a == LastOf(recentSpans)
             b == LastOf(q)
  <2>1. /\ MaxRecent \in Nat \ {0} /\ begun \in Nat /\ n \in Nat /\ n <= begun /\ (n >= MaxRecent \/
           n = begun)
        /\ \A i \in 1 .. n : recentSpans[i] = begun - n + i
    BY TraceAssumption DEF TraceTypes, TraceTypeOK, RecentInv
  <2>2. q \in Seq(Started) /\ Len(q) = begun /\ \A i \in 1 .. begun : q[i] = i
    BY IndicesInOrder
  <2>3. /\ a \in Seq(Spans) /\ Len(a) = (IF n <= MaxRecent THEN n ELSE MaxRecent)
        /\ \A i \in 1 .. Len(a) : a[i] = recentSpans[n - Len(a) + i]
    <3>1. recentSpans \in Seq(Spans)
      BY DEF TraceTypes
    <3> QED
      BY <3>1, LastOfIs, Zenon
  <2> HIDE DEF q
  <2>4. /\ b \in Seq(Started) /\ Len(b) = (IF Len(q) <= MaxRecent THEN Len(q) ELSE MaxRecent)
        /\ \A i \in 1 .. Len(b) : b[i] = q[Len(q) - Len(b) + i]
    BY <2>2, LastOfIs, Zenon
  <2> HIDE DEF a, b, n
  <2>5. Len(a) = Len(b) /\ Len(a) \in Nat /\ Len(a) <= n
    BY <2>1, <2>2, <2>3, <2>4
  <2>6. \A i \in 1 .. Len(a) : a[i] = b[i]
    <3> TAKE i \in 1 .. Len(a)
    <3>1. n - Len(a) + i \in 1 .. n /\ begun - Len(b) + i \in 1 .. begun
      BY SMTT(20), <2>1, <2>5
    <3>2. a[i] = begun - n + (n - Len(a) + i)
      BY <2>1, <2>3, <3>1
    <3>3. b[i] = begun - Len(b) + i
      BY <2>2, <2>4, <2>5, <3>1
    <3> QED
      BY <2>1, <2>5, <3>2, <3>3
  <2>7. a = b
    BY <2>3, <2>4, <2>5, <2>6, SeqEqual
  <2> QED
    BY <2>7 DEF a, b, q
<1> QED
  BY <1>1, <1>3, <1>4, <1>5 DEF TracingSafe
=============================================================================
