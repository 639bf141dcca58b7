----------------------------- MODULE MCServices -----------------------------
(* A small instance of Services for TLC. *)
EXTENDS Services, TLC

\* Someone who may do everything in one tenant, a worker in the other, and
\* somebody who may do next to nothing.
MCPrincipal == {[tenant |-> "a", role |-> "supervisor"],
                [tenant |-> "b", role |-> "operator"], [tenant |-> "a", role |-> "guest"]}

MCLocal == {p \in MCPrincipal : p.tenant = "a"}

\* A weight that is refused, and two that split lots.
MCGrams == {0, 1, 3}

MCHazard == {1, 90}

\* Batches with a code twice, with more items than slots, and without items.
Entry(code, hazard) == [code |-> code, hazard |-> hazard]
MCBatches == {<<>>, <<Entry("x", 90), Entry("x", 1), Entry("y", 90)>>}

\* Vehicles that are refused and one that is not.
MCOffer == {[id |-> "v", capacity |-> 0, approved |-> TRUE],
            [id |-> "v", capacity |-> 5, approved |-> FALSE],
            [id |-> "v", capacity |-> 5, approved |-> TRUE]}

\* Stops of two ids and sequences, and sequences that are refused.
MCStop == [id : {"s", "t"}, sequence : {0, 1, 2}]
MCPreset == {<<>>, <<[id |-> "s", sequence |-> 0], [id |-> "s", sequence |-> 0]>>}

\* Readings of each level, at the edges, and one that is refused.
MCReading == {[measured |-> m, limit |-> 10] : m \in {10, 12, 13}}
               \cup {[measured |-> 1, limit |-> 0]}
=============================================================================
