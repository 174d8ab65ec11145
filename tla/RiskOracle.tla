----------------------------- MODULE RiskOracle -----------------------------
(***************************************************************************)
(* packages/contracts/src/RiskOracle.sol: the risk score of every          *)
(* manifest, published by the scoring service and contested by the         *)
(* Council.  A score keeps its composite r, the largest of its three       *)
(* components, its time and its absolute flag; the classifier version is   *)
(* left out.  A transaction that was delayed on its way is one whose       *)
(* updatedAt lies behind the block it lands in.                            *)
(***************************************************************************)
EXTENDS EvmBlocks

CONSTANTS
  Manifest,            \* manifest hashes
  ContestId,           \* contest ids other than bytes32(0)
  ZeroContest,         \* bytes32(0), "no active contest"
  Bps,                 \* score values a caller may pass
  BPS_MAX,
  MAX_PUBLISH_SKEW,
  InitialScoringService, InitialOracleCouncil

ASSUME OracleAssumption ==
  /\ Bps \subseteq Nat
  /\ BPS_MAX \in Nat
  /\ MAX_PUBLISH_SKEW \in Nat
  /\ ZeroContest \notin ContestId
  /\ InitialScoringService \in Address
  /\ InitialOracleCouncil \in Address

VARIABLES
  scores,              \* _scores
  activeContest,       \* _activeContest
  scoringService,
  oracleCouncil        \* council

oracleVars == <<scores, activeContest, scoringService, oracleCouncil>>

Score == [r : Bps, component : Bps, updatedAt : Nat, isAbsolute : BOOLEAN]

NoScore == [r |-> 0, component |-> 0, updatedAt |-> 0, isAbsolute |-> FALSE]

OracleInit ==
  /\ scores = [m \in Manifest |-> NoScore]
  /\ activeContest = [m \in Manifest |-> ZeroContest]
  /\ scoringService = InitialScoringService
  /\ oracleCouncil = InitialOracleCouncil

ScoreBps(m) == scores[m].r

IsContested(m) == activeContest[m] # ZeroContest

----------------------------------------------------------------------------
\* A variant of _validateScore without the rule for absolute scores.
ValidScoreAnyAbsolute(s) ==
  /\ s.r <= BPS_MAX
  /\ s.component <= BPS_MAX
  /\ s.updatedAt >= (IF timestamp > MAX_PUBLISH_SKEW THEN timestamp - MAX_PUBLISH_SKEW ELSE 0)
  /\ s.updatedAt <= timestamp + MAX_PUBLISH_SKEW

\* _validateScore
ValidScore(s) ==
  /\ s.r <= BPS_MAX
  /\ s.component <= BPS_MAX
  /\ s.isAbsolute => s.r = BPS_MAX
  /\ s.updatedAt >= (IF timestamp > MAX_PUBLISH_SKEW THEN timestamp - MAX_PUBLISH_SKEW ELSE 0)
  /\ s.updatedAt <= timestamp + MAX_PUBLISH_SKEW

\* A variant of publishScore that ignores contests.
PublishScoreRacing(sender, m, newScore) ==
  /\ sender = scoringService
  /\ ValidScore(newScore)
  /\ scores' = [scores EXCEPT ![m] = newScore]
  /\ UNCHANGED <<activeContest, scoringService, oracleCouncil>>

PublishScore(sender, m, newScore) ==
  /\ sender = scoringService
  /\ ~ IsContested(m)
  /\ ValidScore(newScore)
  /\ scores' = [scores EXCEPT ![m] = newScore]
  /\ UNCHANGED <<activeContest, scoringService, oracleCouncil>>

ContestScore(sender, m, contestId) ==
  /\ sender = oracleCouncil
  /\ contestId # ZeroContest
  /\ ~ IsContested(m)
  /\ activeContest' = [activeContest EXCEPT ![m] = contestId]
  /\ UNCHANGED <<scores, scoringService, oracleCouncil>>

ResolveContest(sender, m, contestId, resolvedScore) ==
  /\ sender = oracleCouncil
  /\ IsContested(m)
  /\ activeContest[m] = contestId
  /\ ValidScore(resolvedScore)
  /\ scores' = [scores EXCEPT ![m] = resolvedScore]
  /\ activeContest' = [activeContest EXCEPT ![m] = ZeroContest]
  /\ UNCHANGED <<scoringService, oracleCouncil>>

RotateScoringServiceKey(sender, newScoringService) ==
  /\ sender = oracleCouncil
  /\ newScoringService # ZeroAddress
  /\ scoringService' = newScoringService
  /\ UNCHANGED <<scores, activeContest, oracleCouncil>>

\* setCouncil
SetOracleCouncil(sender, newCouncil) ==
  /\ sender = oracleCouncil
  /\ newCouncil # ZeroAddress
  /\ oracleCouncil' = newCouncil
  /\ UNCHANGED <<scores, activeContest, scoringService>>

----------------------------------------------------------------------------
\* The scores a caller may submit, dated up to MAX_PUBLISH_SKEW and one beyond.
Submissions ==
  [r : Bps, component : Bps, updatedAt : 0..MaxTime + MAX_PUBLISH_SKEW + 1,
   isAbsolute : BOOLEAN]

Scoring ==
  \E sender \in Address :
    \/ \E m \in Manifest, s \in Submissions : PublishScore(sender, m, s)
    \/ \E m \in Manifest, id \in ContestId \cup {ZeroContest} :
         \/ ContestScore(sender, m, id)
         \/ \E s \in Submissions : ResolveContest(sender, m, id, s)
    \/ \E a \in Address \cup {ZeroAddress} :
         RotateScoringServiceKey(sender, a) \/ SetOracleCouncil(sender, a)

OracleNext ==
  \/ Scoring /\ UNCHANGED blockVars
  \/ NextBlock /\ UNCHANGED oracleVars

OracleDeployed == BlocksInit /\ OracleInit

OracleSpec == OracleDeployed /\ [][OracleNext]_<<blockVars, oracleVars>>

----------------------------------------------------------------------------
(***************************************************************************)
(* Properties                                                              *)
(***************************************************************************)

\* Scores are well formed and neither role is ever burned to address(0).
OracleTypeOK ==
  /\ scores \in [Manifest -> Score \cup {NoScore}]
  /\ activeContest \in [Manifest -> ContestId \cup {ZeroContest}]
  /\ scoringService \in Address
  /\ oracleCouncil \in Address

\* "Only resolveContest may update a contested score": while a manifest is
\* contested its score stands, through publications, key rotations and changes
\* of the Council, until the very contest that froze it is over.
FrozenWhileContested ==
  [][\A m \in Manifest :
       IsContested(m) =>
         \/ activeContest'[m] = ZeroContest
         \/ activeContest'[m] = activeContest[m] /\ scores'[m] = scores[m]]_oracleVars

\* ADR 0009 on the skew window: "Ancient rejection guards against replay-style
\* publication of stale scores to mask recent activity".  A score is never
\* replaced by one that is older than itself.
NeverMaskedByStale ==
  [][\A m \in Manifest : scores'[m].updatedAt >= scores[m].updatedAt]_oracleVars
=============================================================================
