--------------------------- MODULE MetricsDiscovery ---------------------------
(***************************************************************************)
(* How the metrics of servers are found: the metrics server with its port  *)
(* file (src/observability/metrics-server.ts, src/server/metrics-port.ts,  *)
(* src/server/index.ts), the heartbeats to the aggregator                  *)
(* (src/observability/registration-client.ts), and the aggregator with its *)
(* health checks (aggregator.ts and cli.ts of packages/dashboard).         *)
(*                                                                         *)
(* Each server is of a project of its own, not in package mode, and has a  *)
(* storage directory.  A port goes to the next server that asks for it.    *)
(* Posts and health checks take time; either may fail by its timeout.  The *)
(* port file is taken to be writable.  MaxStarts bounds the starts of      *)
(* servers, MaxAggregators those of the aggregator, MaxTimeouts the        *)
(* timeouts.                                                               *)
(***************************************************************************)
EXTENDS Naturals, FiniteSets

CONSTANTS Servers, Ports, NoPort, NoServer,
          Preferred,       \* NEXUS_METRICS_PORT of each server, NoPort for any
          MaxStarts, MaxAggregators, MaxTimeouts

ASSUME MetricsAssumption ==
  /\ NoPort \notin Ports /\ NoServer \notin Servers
  /\ Preferred \in [Servers -> Ports \union {NoPort}]
  /\ MaxStarts \in Nat /\ MaxAggregators \in Nat /\ MaxTimeouts \in Nat

VARIABLES
  stage,       \* of each server: "down", "bound", "up", "unbound", "unfiled"
  port,        \* the port it listens at, or did before close(); or NoPort
  portFile,    \* metrics.port in its storage directory, or NoPort
  beats,       \* the servers whose heartbeat timer runs
  posts,       \* registrations on their way
  aggregator,  \* whether an aggregator listens
  registered,  \* its node at each port, or NoServer
  checks,      \* of each port: "none", "asked", or "failed" before the deletion
  starts, aggregators, timeouts

metricsVars == <<stage, port, portFile, beats, posts, aggregator, registered, checks,
                 starts, aggregators, timeouts>>

serverVars == <<stage, port, portFile, beats, starts>>
aggregatorVars == <<aggregator, registered, checks, aggregators>>

Listens(s, p) == stage[s] \in {"bound", "up"} /\ port[s] = p
Taken(p) == \E s \in Servers : Listens(s, p)

NoNodes == [p \in Ports |-> NoServer]
NoChecks == [p \in Ports |-> "none"]

MetricsInit ==
  /\ stage = [s \in Servers |-> "down"]
  /\ port = [s \in Servers |-> NoPort]
  /\ portFile = [s \in Servers |-> NoPort]
  /\ beats = {}
  /\ posts = {}
  /\ aggregator = FALSE
  /\ registered = NoNodes
  /\ checks = NoChecks
  /\ starts = 0 /\ aggregators = 0 /\ timeouts = 0

\* MetricsHttpServer.start(): any free port, or the one that is asked for; if
\* that is taken the server goes on without metrics.
StartsServer(s) ==
  /\ stage[s] = "down"
  /\ starts < MaxStarts
  /\ \E p \in Ports :
        /\ Preferred[s] \in {p, NoPort}
        /\ Preferred[s] = NoPort => ~Taken(p)
        /\ port' = [port EXCEPT ![s] = IF Taken(p) THEN NoPort ELSE p]
  /\ stage' = [stage EXCEPT ![s] = "bound"]
  /\ starts' = starts + 1
  /\ UNCHANGED <<portFile, beats, posts, timeouts, aggregatorVars>>

\* syncMetricsPortFile() writes the file or removes a stale one; then the first
\* registration is sent, and the timer runs.
Announces(s) ==
  /\ stage[s] = "bound"
  /\ stage' = [stage EXCEPT ![s] = "up"]
  /\ portFile' = [portFile EXCEPT ![s] = port[s]]
  /\ IF port[s] = NoPort
       THEN UNCHANGED <<beats, posts>>
       ELSE /\ beats' = beats \union {s}
            /\ posts' = posts \union {[server |-> s, port |-> port[s]]}
  /\ UNCHANGED <<port, starts, timeouts, aggregatorVars>>

Beats(s) ==
  /\ s \in beats
  /\ posts' = posts \union {[server |-> s, port |-> port[s]]}
  /\ UNCHANGED <<timeouts, serverVars, aggregatorVars>>

(***************************************************************************)
(* close(): the metrics server ends, the file is removed, and only then is *)
(* the timer of the heartbeats cleared.                                    *)
(***************************************************************************)
StopsMetrics(s) ==
  /\ stage[s] = "up"
  /\ stage' = [stage EXCEPT ![s] = "unbound"]
  /\ UNCHANGED <<port, portFile, beats, starts, posts, timeouts, aggregatorVars>>

RemovesPortFile(s) ==
  /\ stage[s] = "unbound"
  /\ stage' = [stage EXCEPT ![s] = "unfiled"]
  /\ portFile' = [portFile EXCEPT ![s] = NoPort]
  /\ UNCHANGED <<port, beats, starts, posts, timeouts, aggregatorVars>>

\* The timer of the heartbeats is left running.
MutantStopsBeats(s) ==
  /\ stage[s] = "unfiled"
  /\ stage' = [stage EXCEPT ![s] = "down"]
  /\ UNCHANGED <<port, portFile, beats, starts, posts, timeouts, aggregatorVars>>

StopsBeats(s) ==
  /\ stage[s] = "unfiled"
  /\ stage' = [stage EXCEPT ![s] = "down"]
  /\ beats' = beats \ {s}
  /\ UNCHANGED <<port, portFile, starts, posts, timeouts, aggregatorVars>>

Dies(s) ==
  /\ stage[s] # "down"
  /\ stage' = [stage EXCEPT ![s] = "down"]
  /\ beats' = beats \ {s}
  /\ UNCHANGED <<port, portFile, starts, posts, timeouts, aggregatorVars>>

(***************************************************************************)
(* The aggregator.  A registration replaces the node at its port.          *)
(***************************************************************************)
StartsAggregator ==
  /\ ~aggregator
  /\ aggregators < MaxAggregators
  /\ aggregator' = TRUE
  /\ registered' = NoNodes
  /\ checks' = NoChecks
  /\ aggregators' = aggregators + 1
  /\ UNCHANGED <<posts, timeouts, serverVars>>

\* stop(), after which the checks under way are about nodes nobody reads.
StopsAggregator ==
  /\ aggregator
  /\ aggregator' = FALSE
  /\ registered' = NoNodes
  /\ checks' = NoChecks
  /\ UNCHANGED <<posts, timeouts, serverVars, aggregators>>

Registers(m) ==
  /\ aggregator
  /\ m \in posts
  /\ posts' = posts \ {m}
  /\ registered' = [registered EXCEPT ![m.port] = m.server]
  /\ UNCHANGED <<timeouts, serverVars, aggregator, checks, aggregators>>

\* A registration nobody listens to, or that is aborted by its timeout, is over.
RegistrationFails(m) ==
  /\ m \in posts
  /\ posts' = posts \ {m}
  /\ IF aggregator THEN timeouts < MaxTimeouts /\ timeouts' = timeouts + 1
                   ELSE UNCHANGED timeouts
  /\ UNCHANGED <<serverVars, aggregatorVars>>

\* HealthChecker.checkAll() asks every node; the checks of the round before are
\* long over by then.
ChecksAll ==
  /\ aggregator
  /\ checks = NoChecks
  /\ registered # NoNodes
  /\ checks' = [p \in Ports |-> IF registered[p] = NoServer THEN "none" ELSE "asked"]
  /\ UNCHANGED <<posts, timeouts, serverVars, aggregator, registered, aggregators>>

\* Whoever listens at the port answers, and nothing is changed.
NodeAnswers(p) ==
  /\ checks[p] = "asked"
  /\ Taken(p)
  /\ checks' = [checks EXCEPT ![p] = "none"]
  /\ UNCHANGED <<posts, timeouts, serverVars, aggregator, registered, aggregators>>

\* No one listens, or the answer takes too long.
CheckFails(p) ==
  /\ checks[p] = "asked"
  /\ IF Taken(p) THEN timeouts < MaxTimeouts /\ timeouts' = timeouts + 1
                 ELSE UNCHANGED timeouts
  /\ checks' = [checks EXCEPT ![p] = "failed"]
  /\ UNCHANGED <<posts, serverVars, aggregator, registered, aggregators>>

\* The node at the port by now is deleted, which may have registered meanwhile.
Evicts(p) ==
  /\ checks[p] = "failed"
  /\ checks' = [checks EXCEPT ![p] = "none"]
  /\ registered' = [registered EXCEPT ![p] = NoServer]
  /\ UNCHANGED <<posts, timeouts, serverVars, aggregator, aggregators>>

Registrations == [server : Servers, port : Ports]

ServerStep(s) == Announces(s) \/ RemovesPortFile(s) \/ StopsBeats(s)
CheckStep(p) == NodeAnswers(p) \/ CheckFails(p) \/ Evicts(p)

MetricsNext ==
  \/ \E s \in Servers : \/ StartsServer(s)
                        \/ ServerStep(s)
                        \/ Beats(s)
                        \/ StopsMetrics(s)
                        \/ Dies(s)
  \/ \E m \in Registrations : Registers(m) \/ RegistrationFails(m)
  \/ StartsAggregator
  \/ StopsAggregator
  \/ ChecksAll
  \/ \E p \in Ports : CheckStep(p)

\* The timers of servers and of the aggregator run, calls end, and a closing
\* server goes on.  Nobody has to start or to stop.
MetricsFairness ==
  /\ \A s \in Servers : WF_metricsVars(ServerStep(s)) /\ WF_metricsVars(Beats(s))
  /\ \A m \in Registrations : WF_metricsVars(Registers(m) \/ RegistrationFails(m))
  /\ WF_metricsVars(ChecksAll)
  /\ \A p \in Ports : WF_metricsVars(CheckStep(p))

MetricsSpec == MetricsInit /\ [][MetricsNext]_metricsVars /\ MetricsFairness

MetricsTypeOK ==
  /\ stage \in [Servers -> {"down", "bound", "up", "unbound", "unfiled"}]
  /\ port \in [Servers -> Ports \union {NoPort}]
  /\ portFile \in [Servers -> Ports \union {NoPort}]
  /\ beats \subseteq Servers
  /\ posts \subseteq Registrations
  /\ aggregator \in BOOLEAN
  /\ registered \in [Ports -> Servers \union {NoServer}]
  /\ checks \in [Ports -> {"none", "asked", "failed"}]
  /\ starts \in 0 .. MaxStarts
  /\ aggregators \in 0 .. MaxAggregators
  /\ timeouts \in 0 .. MaxTimeouts

\* A server with metrics that is up: its file says its port, and the aggregator
\* has it there.
Found(s) == \E p \in Ports : p = port[s] /\ p = portFile[s] /\ registered[p] = s

(***************************************************************************)
(* While the aggregator stays, a server that stays up is found for good,   *)
(* and a port nobody listens at is no longer asked for metrics, whatever   *)
(* came before: deaths, late registrations of servers that had the port,   *)
(* checks that failed before the port had a new owner.  It is the          *)
(* heartbeats that mend what a check has deleted by mistake                *)
(* (src/observability/registration-client.ts:26, HealthChecker.checkAll).  *)
(***************************************************************************)
DiscoverySettles ==
  /\ \A s \in Servers :
        <>[](aggregator /\ stage[s] = "up" /\ port[s] # NoPort) => <>[]Found(s)
  /\ \A p \in Ports :
        <>[](aggregator /\ ~Taken(p)) => <>[](registered[p] = NoServer)
=============================================================================
