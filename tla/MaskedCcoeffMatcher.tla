---- MODULE MaskedCcoeffMatcher ----
(* MaskedCcoeffMatcher: the plans made of masked templates, kept for the next    *)
(* match and evicted, the least recently used first, when they grow too large.   *)
(*   cache.plans     key -> plan, m_template_plan_cache                          *)
(*   cache.lru       m_lru_list, the one used last in front                      *)
(*   cache.total     m_cache_total_bytes                                         *)
(*   cache.revision  m_cache_revision                                            *)
(* A plan is [image, ...]; a key is <<revision, name>>, what of a cache_key       *)
(* tells one resource template from another.                                     *)
EXTENDS Naturals, Sequences, SequencesExt, TLC

CONSTANTS MaxBytes,      \* k_max_cache_bytes
          PlanBytes(_)   \* what a plan made of an image takes

ASSUME MaxBytesAssumption == MaxBytes \in Nat

EmptyCache == [plans |-> <<>>, lru |-> <<>>, total |-> 0, revision |-> 0]

\* A mutant: the bytes are not set to 0.
SyncCacheRevision_keepsTotal(cache, revision) ==
  IF cache.revision = revision THEN cache
  ELSE [EmptyCache EXCEPT !.revision = revision, !.total = cache.total]
SyncCacheRevision(cache, revision) ==
  IF cache.revision = revision THEN cache ELSE [EmptyCache EXCEPT !.revision = revision]

Cached(cache, key) == key \in DOMAIN cache.plans
\* splice(): the entry's place in the list becomes the first.
Touched(cache, key) ==
  LET i == CHOOSE i \in DOMAIN cache.lru : cache.lru[i] = key
  IN [cache EXCEPT !.lru = <<key>> \o SubSeq(@, 1, i - 1) \o SubSeq(@, i + 1, Len(@))]

\* The one at the tail goes.
WithoutVictim(cache) ==
  LET n == Len(cache.lru)
      victim == cache.lru[n]
  IN [cache EXCEPT !.plans = [k \in DOMAIN @ \ {victim} |-> @[k]],
                   !.lru = SubSeq(@, 1, n - 1),
                   !.total = @ - PlanBytes(cache.plans[victim].image)]

\* From the tail, until bytes more fit or none is left: after[n] is the cache after
\* n rounds of the loop, or after all of them when there are fewer.
Evicted(cache, bytes) ==
  LET after[n \in Nat] ==
        IF n = 0 THEN cache
        ELSE IF after[n - 1].total + bytes <= MaxBytes \/ after[n - 1].lru = <<>> THEN after[n - 1]
        ELSE WithoutVictim(after[n - 1])
  IN after[Len(cache.lru)]

Inserted(cache, key, plan) ==
  LET bytes == PlanBytes(plan.image)
      room == Evicted(cache, bytes)
  IN [room EXCEPT !.plans = [k \in {key} \cup DOMAIN @ |-> IF k = key THEN plan ELSE @[k]],
                  !.lru = <<key>> \o @, !.total = @ + bytes]

\* The end of get_or_build_template_plan: another thread may have been faster, and
\* a plan that was begun before the cache was cleared is not kept.
Kept(cache, key, plan, revision_at_miss) ==
  CASE Cached(cache, key) -> [cache |-> Touched(cache, key), plan |-> cache.plans[key]]
    [] ~Cached(cache, key) /\ cache.revision # revision_at_miss -> [cache |-> cache, plan |-> plan]
    [] ~Cached(cache, key) /\ cache.revision = revision_at_miss ->
         [cache |-> Inserted(cache, key, plan), plan |-> plan]

\* The bytes of the plans the list names.
BytesOf(cache) ==
  LET sum[i \in 0 .. Len(cache.lru)] ==
        IF i = 0 THEN 0 ELSE sum[i - 1] + PlanBytes(cache.plans[cache.lru[i]].image)
  IN sum[Len(cache.lru)]
====
