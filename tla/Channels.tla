------------------------------ MODULE Channels ------------------------------
(***************************************************************************)
(* The field channels: the agents with their hierarchy, float, commissions *)
(* and bounties, and the USSD gateway.  What two components share no step  *)
(* of either reads: commissions and bounties are paid from one pool, funded*)
(* from one treasury account into one account per agent, none with a flag  *)
(* on its balance, under transfer ids that never meet; and the links of    *)
(* the hierarchy change in Commission by a step that stands for an Attach. *)
(* So every behaviour runs one component, chosen by focus, and the state   *)
(* graphs add up.                                                          *)
(***************************************************************************)
EXTENDS Integers, FiniteSets

CONSTANTS
  HAgents, TenantOf, HRoot, MaxDepth, Replicas, Vetters, Vetted,  \* the hierarchy
  Offices, OfficeTenant, MaxActive,
  FAgents, FTreasury, Funding, Moves, KindOf, FCalls, MoveOf, FAgentOf,  \* the float
  AmountOf, Sweeper, FMaxAmount, FFaults,
  CAgents, CRoot, Upline, CPool, Offset, Refs, MaxLevel, RateOf, CCalls, CAgentOf,  \* the commissions
  RefOf, BaseOf, Clawer, CMaxAmount, CFaults, MaxMoves,
  SAgents, SPool, STreasury, SWorkers, MaxCount, MaxTries, MaxRuns, SFaults,  \* the bounties
  Dials, Phone, UWorkers, MaxStrikes, MaxInputs, MaxRequests  \* the USSD gateway

\* There are finitely many agents and processes, and the cap on the depth is a
\* number; calls are about movements, agents and amounts there are; a settled
\* transaction has one capturing agent; a worker is not the absence of one.
ASSUME ChannelsAssumption ==
  /\ IsFiniteSet(HAgents) /\ HRoot \notin HAgents \cup Replicas /\ Replicas \cap Vetters = {}
  /\ IsFiniteSet(Replicas) /\ MaxDepth \in Nat
  /\ MoveOf \in [FCalls -> Moves] /\ FAgentOf \in [FCalls -> FAgents]
  /\ AmountOf \in [FCalls -> 1..FMaxAmount] /\ FMaxAmount \in Nat
  /\ RefOf \in [CCalls -> Refs] /\ MaxLevel \in Nat \ {0}
  /\ \A v, w \in CCalls : RefOf[v] = RefOf[w] => CAgentOf[v] = CAgentOf[w]
  /\ Clawer \notin CCalls /\ Sweeper \notin FCalls
  /\ MaxTries \in Nat \ {0} /\ MaxCount \in Nat
  /\ MaxStrikes \in Nat \ {0} /\ [none |-> TRUE] \notin UWorkers

VARIABLES
  focus,
  rows, lock, active, hPc, hLoc,
  fAccounts, fBalances, fTransfers, movements, fPc, fLoc, fFaults,
  parent, cAccounts, cBalances, cTransfers, records, expired, cPc, cLoc, moves, cFaults,
  sAccounts, sBalances, sTransfers, remote, counts, markers, lapsed, sPc, sLoc, moved, sRuns, sFaults,
  text, sessions, index, locks, mu, pin, guesses, uPc, uLoc, requests

hVars == <<rows, lock, active, hPc, hLoc>>
fVars == <<fAccounts, fBalances, fTransfers, movements, fPc, fLoc, fFaults>>
cVars == <<parent, cAccounts, cBalances, cTransfers, records, expired, cPc, cLoc, moves, cFaults>>
sVars == <<sAccounts, sBalances, sTransfers, remote, counts, markers, lapsed, sPc, sLoc, moved, sRuns, sFaults>>
uVars == <<text, sessions, index, locks, mu, pin, guesses, uPc, uLoc, requests>>
vars == <<focus, hVars, fVars, cVars, sVars, uVars>>

Hier == INSTANCE AgentHierarchy
  WITH Agents <- HAgents, Root <- HRoot, pc <- hPc, loc <- hLoc

Float == INSTANCE AgentFloat
  WITH Agents <- FAgents, Treasury <- FTreasury, Calls <- FCalls, AgentOf <- FAgentOf,
       MaxAmount <- FMaxAmount, MaxFaults <- FFaults,
       accounts <- fAccounts, balances <- fBalances, transfers <- fTransfers,
       pc <- fPc, loc <- fLoc, faults <- fFaults

Comm == INSTANCE Commission
  WITH Agents <- CAgents, Root <- CRoot, Pool <- CPool, Calls <- CCalls, AgentOf <- CAgentOf,
       MaxAmount <- CMaxAmount, MaxFaults <- CFaults,
       accounts <- cAccounts, balances <- cBalances, transfers <- cTransfers,
       pc <- cPc, loc <- cLoc, faults <- cFaults

Settlement == INSTANCE CommissionSettlement
  WITH Agents <- SAgents, Pool <- SPool, Treasury <- STreasury, Workers <- SWorkers, MaxFaults <- SFaults,
       accounts <- sAccounts, balances <- sBalances, transfers <- sTransfers,
       expired <- lapsed, pc <- sPc, loc <- sLoc, runs <- sRuns, faults <- sFaults

USSD == INSTANCE USSDGateway
  WITH Workers <- UWorkers, pc <- uPc, loc <- uLoc

\* What a call of Accrue has to fund when it has m earners.
Total(w, m) == Comm!Total(BaseOf[w], [n \in 1..m |-> CRoot])

\* Rates and settled amounts are naturals, and the bound on amounts covers what
\* a call can have to fund.
ASSUME CommissionAssumption ==
  /\ CMaxAmount \in Nat
  /\ RateOf \in [1..MaxLevel -> Nat] /\ BaseOf \in [CCalls -> Nat]
  /\ \A w \in CCalls, m \in 1..MaxLevel : Total(w, m) <= CMaxAmount

\* The variables of a component that does not run.
HierOff ==
  /\ rows = 0 /\ lock = 0 /\ active = 0 /\ hPc = 0 /\ hLoc = 0
FloatOff ==
  /\ fAccounts = 0 /\ fBalances = 0 /\ fTransfers = 0 /\ movements = 0 /\ fPc = 0
  /\ fLoc = 0 /\ fFaults = 0
CommOff ==
  /\ parent = 0 /\ cAccounts = 0 /\ cBalances = 0 /\ cTransfers = 0 /\ records = 0
  /\ expired = 0 /\ cPc = 0 /\ cLoc = 0 /\ moves = 0 /\ cFaults = 0
SettlementOff ==
  /\ sAccounts = 0 /\ sBalances = 0 /\ sTransfers = 0 /\ remote = 0 /\ counts = 0
  /\ markers = 0 /\ lapsed = 0 /\ sPc = 0 /\ sLoc = 0 /\ moved = 0 /\ sRuns = 0
  /\ sFaults = 0

USSDOff ==
  /\ text = 0 /\ sessions = 0 /\ index = 0 /\ locks = 0 /\ mu = 0 /\ pin = 0
  /\ guesses = 0 /\ uPc = 0 /\ uLoc = 0 /\ requests = 0

Init ==
  /\ focus \in {"hierarchy", "float", "commission", "settlement", "ussd"}
  /\ IF focus = "hierarchy" THEN Hier!Init /\ Cardinality(active) <= MaxActive ELSE HierOff
  /\ IF focus = "float" THEN Float!Init ELSE FloatOff
  /\ IF focus = "commission" THEN Comm!Init ELSE CommOff
  /\ IF focus = "settlement" THEN Settlement!Init ELSE SettlementOff
  /\ IF focus = "ussd" THEN USSD!Init ELSE USSDOff

HierStep == focus = "hierarchy" /\ Hier!Next /\ UNCHANGED <<focus, fVars, cVars, sVars, uVars>>
FloatStep == focus = "float" /\ Float!Next /\ UNCHANGED <<focus, hVars, cVars, sVars, uVars>>
CommStep == focus = "commission" /\ Comm!Next /\ UNCHANGED <<focus, hVars, fVars, sVars, uVars>>
SettlementStep ==
  focus = "settlement" /\ Settlement!Next /\ UNCHANGED <<focus, hVars, fVars, cVars, uVars>>
USSDStep == focus = "ussd" /\ USSD!Next /\ UNCHANGED <<focus, hVars, fVars, cVars, sVars>>

Next == HierStep \/ FloatStep \/ CommStep \/ SettlementStep \/ USSDStep

Spec == Init /\ [][Next]_vars

\* One process keeps a forest within the cap (Attach under h.mu).
OneProcessForest == focus = "hierarchy" => Hier!OneProcessForest

\* Replicas never store a cycle of two (row locks of attachPostgres).
CrossAttachSerialised == focus = "hierarchy" => Hier!CrossAttachSerialised

\* Float movements are true of the ledger (move, SweepFloatMovements).
MovementBacked == focus = "float" => Float!MovementBacked

\* Commission records are true of the ledger (accrueOne, Clawback).
RecordBacked == focus = "commission" => Comm!RecordBacked

\* A reference is paid what the pool was funded with for it (Accrue).
PoolCovered == focus = "commission" => Comm!PoolCovered

\* A bounty is paid once per period (commissionSettlement).
PaidOnce == focus = "settlement" => Settlement!PaidOnce

\* Wrong PIN guesses are bounded (PINManager.Verify under lockFor).
GuessesBounded == focus = "ussd" => USSD!GuessesBounded
=============================================================================
