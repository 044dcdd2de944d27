-------------------------- MODULE MCProtocolCalls --------------------------
(***************************************************************************)
(* The systems that are moved by calls of staff, buyers and sellers, and   *)
(* about which safety is asked: orders that are paid directly, the         *)
(* accounts of sellers, the seller-agent factory, the agents at work, the  *)
(* threats that are known and the responses to them, the adaptations of    *)
(* the protocol, the outreach to merchants, what the protocol keeps of     *)
(* what it has seen, and what its foundation decides.  The properties of   *)
(* one read no table of another, so a behaviour is one of any of them:     *)
(* system says which one moves, and the others stay in their initial       *)
(* state.                                                                  *)
(***************************************************************************)
EXTENDS ManagedOrders, SellerFactory, SellerAgents, SellerAccounts, ThreatResponse,
        ProtocolAdaptation, GoiaPartnerships, ProtocolLearning, FoundationRulings,
        ReleaseAuthority, TLC

VARIABLE
  system     \* the one that moves

callsVars == <<directVars, factoryVars, agentVars, accountVars, responseVars,
              adaptationVars, partnerVars, learningVars, rulingVars, authorityVars, system>>

CallsBegin ==
  /\ system \in {"direct", "factory", "agents", "accounts", "threats", "responses",
                "adaptation", "partners", "memory", "hypotheses", "rulings", "supply",
                "authority"}
  /\ DirectInit
  /\ FactoryInit
  /\ AgentsInit
  /\ AccountsInit
  /\ ResponsesInit
  /\ AdaptationInit
  /\ PartnersInit
  /\ LearningInit
  /\ RulingsInit
  /\ AuthorityInit

\* Threads are alike: of two that are idle, either may serve the next call.
ThreadsAreAlike == Permutations(Staff)

\* Direct orders.  Payments are alike, so the next that is made is one of them.
\* Orders may as well be created and paid before the calls about them begin, but
\* for those that ban the buyer; and a ban is read by nothing but creation.
NextPayment ==
  \A x \in DirectPayments :
    passes[x] = {} /\ passes'[x] # {}
    => x = CHOOSE y \in DirectPayments : passes[y] = {}

Prepared ==
  /\ \A o \in DirectOrders : direct[o].status # "none"
  /\ \A x \in DirectPayments : passes[x] # {}

Prepares ==
  \/ passes' # passes
  \/ banned' # banned
  \/ \E o \in DirectOrders : direct[o].status = "none" /\ direct'[o].status # "none"

InDirectOrder ==
  /\ NextPayment
  /\ Prepared \/ Prepares
  /\ banned' # banned => \E o \in DirectOrders : direct[o].status = "none"

\* Outreach.  Markets are alike, so the first that lacks offers is one of them.
FirstMarket ==
  linked = {} /\ lacking' # {} => (CHOOSE k \in Markets : TRUE) \in lacking'

\* Tables of several systems.
sellerTables == <<factoryTables, agentTables, accountTables, threatTables, responseTables,
                  about>>

foundationTables == <<queueTables, supplyTables, topic, authorityVars>>

otherTables == <<directTables, adaptationTables, partnerTables, learningTables>>

DirectSteps ==
  /\ system = "direct"
  /\ DirectNext
  /\ InDirectOrder
  /\ UNCHANGED <<sellerTables, adaptationTables, partnerTables, learningTables,
                 foundationTables>>

\* (Bound: one call at a time reads an agent before it writes, beside those that
\* write at once; as for accounts and threats, what follows the first that has
\* written over what it had not read is left out.)
SellerSteps ==
  /\ system \in {"factory", "agents", "accounts", "threats", "responses"}
  /\ UNCHANGED <<otherTables, foundationTables>>
  /\ system = "agents" => ~overlapped
  /\ \/ /\ system = "factory"
        /\ FactoryNext
        /\ UNCHANGED <<agentTables, accountTables, threatTables, responseTables, about>>
     \/ /\ system = "agents"
        /\ AgentsNext
        /\ Cardinality(Busy') <= 1
        /\ UNCHANGED <<factoryTables, accountTables, threatTables, responseTables, about>>
     \/ /\ system = "accounts"
        /\ AccountsNext
        /\ UNCHANGED <<factoryTables, agentTables, threatTables, responseTables, about>>
     \/ /\ system = "threats"
        /\ ThreatsNext
        /\ UNCHANGED <<factoryTables, agentTables, accountTables>>
     \/ /\ system = "responses"
        /\ ResponsesNext
        /\ UNCHANGED <<factoryTables, agentTables, accountTables>>

\* (Bound: and so it is for the outreach to merchants.)
ProtocolSteps ==
  /\ system \in {"adaptation", "partners", "memory", "hypotheses"}
  /\ UNCHANGED <<directTables, sellerTables, foundationTables>>
  /\ system = "partners" => ~overlapped
  /\ \/ /\ system = "adaptation"
        /\ AdaptationNext
        /\ UNCHANGED <<partnerTables, learningTables>>
     \/ /\ system = "partners"
        /\ PartnersNext
        /\ FirstMarket
        /\ UNCHANGED <<adaptationTables, learningTables>>
     \/ /\ system = "memory"
        /\ MemoryNext
        /\ UNCHANGED <<adaptationTables, partnerTables, hypothesisTables>>
     \/ /\ system = "hypotheses"
        /\ HypothesesNext
        /\ UNCHANGED <<adaptationTables, partnerTables, memoryTables>>

FoundationSteps ==
  /\ system \in {"rulings", "supply", "authority"}
  /\ UNCHANGED <<otherTables, sellerTables>>
  /\ \/ /\ system = "rulings"
        /\ QueueNext
        /\ UNCHANGED authorityVars
     \/ /\ system = "supply"
        /\ SupplyNext
        /\ UNCHANGED authorityVars
     \/ /\ system = "authority"
        /\ AuthorityNext
        /\ UNCHANGED rulingVars

CallsNext ==
  /\ UNCHANGED system
  /\ DirectSteps \/ SellerSteps \/ ProtocolSteps \/ FoundationSteps

\* The tables of the other systems do not move, so they tell no states apart.
Moving ==
  <<system,
    CASE system = "direct" -> directVars
      [] system = "factory" -> factoryVars
      [] system = "agents" -> agentVars
      [] system = "accounts" -> accountVars
      [] system \in {"threats", "responses"} -> responseVars
      [] system = "adaptation" -> adaptationVars
      [] system = "partners" -> partnerVars
      [] system \in {"memory", "hypotheses"} -> learningVars
      [] system \in {"rulings", "supply"} -> rulingVars
      [] system = "authority" -> authorityVars>>

CallsSpec == CallsBegin /\ [][CallsNext]_callsVars

\* The tables and the calls of the systems keep their types, and only a call that
\* is at work can be outdated.
CallsTypeOK ==
  /\ outdated \subseteq Busy
  /\ system = "direct" => DirectTypeOK
  /\ system = "factory" => FactoryTypeOK
  /\ system = "agents" => AgentsTypeOK
  /\ system = "accounts" => AccountsTypeOK
  /\ system \in {"threats", "responses"} => ResponsesTypeOK
  /\ system = "adaptation" => AdaptationTypeOK
  /\ system = "partners" => PartnersTypeOK
  /\ system \in {"memory", "hypotheses"} => LearningTypeOK
  /\ system \in {"rulings", "supply"} => RulingsTypeOK
  /\ system = "authority" => AuthorityTypeOK
=============================================================================
