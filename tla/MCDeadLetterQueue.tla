--------------------------- MODULE MCDeadLetterQueue ---------------------------
(***************************************************************************)
(* The dead-letter queue, and the discovery of metrics, which never meets  *)
(* it, in one run: the first state says which of them works, and the other *)
(* stays as it is.                                                         *)
(***************************************************************************)
EXTENDS DeadLetterQueue, MetricsDiscovery

CONSTANTS m1, m2, p1, p2

VARIABLE part  \* the part that works

partVars == <<part, dlqVars, metricsVars>>

Queues == part = "queue" /\ UNCHANGED <<part, metricsVars>>
Discovery == part = "discovery" /\ UNCHANGED <<part, dlqVars>>

PartsInit ==
  /\ part \in {"queue", "discovery"}
  /\ DlqInit
  /\ MetricsInit

PartsNext ==
  \/ Queues /\ Load
  \/ Queues /\ FileChanges
  \/ Queues /\ HandlerSucceeds
  \/ Queues /\ HandlerGivesUp
  \/ Queues /\ RemovalsEnd
  \/ Queues /\ CompletionStarts
  \/ Queues /\ CompletionEnds
  \/ Queues /\ SweepSteps
  \/ Queues /\ ProviderDown
  \/ Queues /\ Restarted
  \/ \E s \in Servers : \/ Discovery /\ StartsServer(s)
                        \/ Discovery /\ Announces(s)
                        \/ Discovery /\ Beats(s)
                        \/ Discovery /\ StopsMetrics(s)
                        \/ Discovery /\ RemovesPortFile(s)
                        \/ Discovery /\ StopsBeats(s)
                        \/ Discovery /\ Dies(s)
  \/ \E m \in Registrations : \/ Discovery /\ Registers(m)
                              \/ Discovery /\ RegistrationFails(m)
  \/ Discovery /\ StartsAggregator
  \/ Discovery /\ StopsAggregator
  \/ Discovery /\ ChecksAll
  \/ \E p \in Ports : \/ Discovery /\ NodeAnswers(p)
                      \/ Discovery /\ CheckFails(p)
                      \/ Discovery /\ Evicts(p)

\* DlqFairness and MetricsFairness, of the part that works.
PartsFairness ==
  /\ WF_partVars(Queues /\ Load)
  /\ WF_partVars(Queues /\ CompletionEnds)
  /\ SF_partVars(Queues /\ SweepSteps)
  /\ SF_partVars(Queues /\ ProviderHealthy)
  /\ \A s \in Servers : /\ WF_partVars(Discovery /\ ServerStep(s))
                        /\ WF_partVars(Discovery /\ Beats(s))
  /\ \A m \in Registrations : WF_partVars(Discovery /\ (Registers(m) \/ RegistrationFails(m)))
  /\ WF_partVars(Discovery /\ ChecksAll)
  /\ \A p \in Ports : WF_partVars(Discovery /\ CheckStep(p))

PartsSpec == PartsInit /\ [][PartsNext]_partVars /\ PartsFairness

\* One server asks for a port that another one may have got.
PreferredPorts == [s \in {m1, m2} |-> IF s = m1 THEN p1 ELSE NoPort]
=============================================================================
