----------------------------- MODULE Container ------------------------------
(***************************************************************************)
(* One retailer's container: ports resolved on demand through providers    *)
(* that resolve others, each built once (platform/container.ts).  A        *)
(* provider is the ports it asks for, in order, and whether it throws in   *)
(* the end or on the way; whether it builds an instance of its own or      *)
(* passes one on makes no difference to what is resolved.                  *)
(***************************************************************************)
EXTENDS Integers, Sequences, SequencesExt

CONSTANTS
    Wirings,     \* the providers a container may be given, by port
    MaxRequests  \* how often somebody outside asks for a port

ASSUME WiringAssumption ==
    \A w \in Wirings : \A p \in DOMAIN w : /\ w[p].asks \in Seq(DOMAIN w)
                                           /\ w[p].throws \in BOOLEAN

VARIABLES
    providers,  \* what a port is built by
    instances,  \* the ports that have an instance
    resolving,  \* the ports on the way to one
    calls,      \* the providers under way, the innermost last, and what each asks next
    throwing,   \* whether an error is on its way out of them
    runs,       \* how often each provider was run
    asked,      \* the ports that were asked for from outside,
    requests    \* and how often one was
containerVars == <<providers, instances, resolving, calls, throwing, runs, asked, requests>>

PortNames == {"detectionIngestion", "availabilityQuery", "taskPerformanceQuery", "reporting",
              "auditExport", "eslActuation", "facingRepository", "ingestionLedger",
              "eventStream", "deadLetterSink"}

\* The three read ports share one adapter.
StandardProviders ==
    [p \in PortNames |->
       [throws |-> FALSE,
        asks   |-> CASE p = "detectionIngestion" -> <<"facingRepository", "ingestionLedger">>
                     [] p \in {"availabilityQuery", "taskPerformanceQuery", "auditExport"}
                          -> <<"reporting">>
                     [] OTHER -> <<>>]]

Untouched ==
    /\ instances = {} /\ resolving = {} /\ calls = <<>> /\ throwing = FALSE
    /\ runs = [p \in DOMAIN providers |-> 0]
    /\ asked = {} /\ requests = 0

ContainerInit == providers \in Wirings /\ Untouched

----------------------------------------------------------------------------
\* resolve(name), called with some providers under way: the instance there is, an error
\* for a port that is already on its way to one, and otherwise a run of its provider.
Resolve(name, under) ==
    \/ /\ name \in instances
       /\ calls' = under
       /\ UNCHANGED <<resolving, throwing, runs>>
    \/ /\ name \notin instances /\ name \in resolving
       /\ throwing' = TRUE /\ calls' = under
       /\ UNCHANGED <<resolving, runs>>
    \/ /\ name \notin instances /\ name \notin resolving
       /\ resolving' = resolving \cup {name}
       /\ calls' = Append(under, [port |-> name, next |-> 1])
       /\ runs' = [runs EXCEPT ![name] = @ + 1]
       /\ UNCHANGED throwing

\* From outside, any port may be asked for next, whatever came of the ones before.
Request ==
    /\ calls = <<>> /\ ~throwing /\ requests < MaxRequests
    /\ \E name \in DOMAIN providers :
          Resolve(name, calls) /\ asked' = asked \cup {name}
    /\ requests' = requests + 1
    /\ UNCHANGED <<providers, instances>>

Inner == calls[Len(calls)]
Asks  == providers[Inner.port].asks

\* A provider asks for its next port.
AskNext ==
    /\ calls # <<>> /\ ~throwing /\ Inner.next <= Len(Asks)
    /\ Resolve(Asks[Inner.next], [calls EXCEPT ![Len(calls)].next = @ + 1])
    /\ UNCHANGED <<providers, instances, asked, requests>>

\* A provider throws, before or after it has asked for what it needs.
Break ==
    /\ calls # <<>> /\ ~throwing /\ providers[Inner.port].throws
    /\ throwing' = TRUE
    /\ UNCHANGED <<providers, instances, resolving, calls, runs, asked, requests>>

\* Mutant: what a provider built is not kept.
MutantForgetful(built, port) == built

Keep(built, port) == built \cup {port}

\* A provider returns: its port has an instance and is no longer being resolved.
Return ==
    /\ calls # <<>> /\ ~throwing /\ Inner.next > Len(Asks) /\ ~providers[Inner.port].throws
    /\ instances' = Keep(instances, Inner.port)
    /\ resolving' = resolving \ {Inner.port}
    /\ calls' = Front(calls)
    /\ UNCHANGED <<providers, throwing, runs, asked, requests>>

\* An error passes through a provider, which does not catch it; its port is no longer
\* being resolved.
Unwind ==
    /\ calls # <<>> /\ throwing
    /\ resolving' = resolving \ {Inner.port}
    /\ calls' = Front(calls)
    /\ UNCHANGED <<providers, instances, throwing, runs, asked, requests>>

\* Who asked from outside may go on.
Catch ==
    /\ calls = <<>> /\ throwing
    /\ throwing' = FALSE
    /\ UNCHANGED <<providers, instances, resolving, calls, runs, asked, requests>>

Rest ==
    /\ calls = <<>> /\ ~throwing /\ requests = MaxRequests
    /\ UNCHANGED containerVars

ContainerNext == Request \/ AskNext \/ Break \/ Return \/ Unwind \/ Catch \/ Rest
ContainerSpec == ContainerInit /\ [][ContainerNext]_containerVars

----------------------------------------------------------------------------
\* What no order of resolving can build: sets of ports each of which throws or needs
\* another of the set.
Unbuildable ==
    UNION {U \in SUBSET DOMAIN providers :
             \A p \in U : providers[p].throws \/ ToSet(providers[p].asks) \cap U # {}}

\* Whatever is asked for in whatever order, and whatever failed before: a port is built
\* exactly when it can be, and once, however many ask for it; and between requests
\* nothing is held to be under way, so that one failed port takes no other with it
\* (container.ts).
BuildsOnceOrRefuses ==
    /\ instances \cap Unbuildable = {}
    /\ \A p \in DOMAIN providers \ Unbuildable :
          runs[p] = IF p \in instances \cup resolving THEN 1 ELSE 0
    /\ calls = <<>> => resolving = {} /\ asked \ Unbuildable \subseteq instances
=============================================================================
