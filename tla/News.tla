-------------------------------- MODULE News --------------------------------
(* Articles of several feeds (commands/news.rs, news/launcher.rs) and the   *)
(* page that shows them (features/news/useNews.ts).  A refresh fetches the  *)
(* feeds in parallel; a feed that cannot be had is replaced by its cache on *)
(* disk.  A refresh may begin before an earlier one has answered, and the   *)
(* threads of both share the caches.                                        *)
EXTENDS Naturals, FiniteSets

CONSTANTS
    Feeds,         \* Source
    MaxRefreshes   \* bound of the model: refreshes of the page

ASSUME NewsAssumption == MaxRefreshes \in Nat /\ Feeds # {}

VARIABLES
    cacheOf,   \* the refresh that wrote a feed's cache: Earlier, or Absent
    stage,     \* how far each refresh is
    result,    \* what each thread of a refresh has returned
    current,   \* the number of the latest refresh
    feed,      \* what the page shows of each feed: the refresh that fetched it
    cached, loading, error

newsVars == <<cacheOf, stage, result, current, feed, cached, loading, error>>

Refreshes == 1..MaxRefreshes
Earlier == 0                      \* a fetch of an earlier session
Absent == MaxRefreshes + 1
Fetches == Earlier..Absent

NoAnswer == [kind |-> "none", from |-> Absent]

NewsTypeOK ==
    /\ cacheOf \in [Feeds -> Fetches]
    /\ stage \in [Refreshes -> {"new", "saved", "fetching", "answered", "done"}]
    /\ result \in [Refreshes -> [Feeds -> [kind : {"none", "fresh", "cached", "failed"},
                                           from : Fetches]]]
    /\ current \in 0..MaxRefreshes
    /\ feed \in [Feeds -> Fetches]
    /\ cached \in BOOLEAN /\ loading \in BOOLEAN /\ error \in BOOLEAN

NewsInit ==
    /\ cacheOf \in [Feeds -> {Earlier, Absent}]
    /\ stage = [i \in Refreshes |-> "new"]
    /\ result = [i \in Refreshes |-> [s \in Feeds |-> NoAnswer]]
    /\ current = 0
    /\ feed = [s \in Feeds |-> Absent]
    /\ cached = FALSE /\ loading = TRUE /\ error = FALSE

Page == <<current, feed, cached, loading, error>>

-----------------------------------------------------------------------------
(* The commands.                                                            *)

\* A feed that is refused, by the network, by its size or form, or because no
\* article of it can be shown, leaves the cache alone and is replaced by it.
AcceptFetched(i, s, usable, saved) ==
    /\ stage[i] = "fetching" /\ result[i][s] = NoAnswer
    /\ result' = [result EXCEPT ![i][s] =
                    IF usable THEN [kind |-> "fresh", from |-> i]
                    ELSE IF cacheOf[s] # Absent THEN [kind |-> "cached", from |-> cacheOf[s]]
                    ELSE [kind |-> "failed", from |-> Absent]]
    /\ cacheOf' = IF usable /\ saved THEN [cacheOf EXCEPT ![s] = i] ELSE cacheOf
    /\ UNCHANGED <<stage, Page>>

\* Faulty: the page is told of a cache only when everything came from one.
CombinedCachedIfAll(answers) == \A s \in Feeds : answers[s].kind # "fresh"

CombinedCached(answers) == \E s \in Feeds : answers[s].kind = "cached"

AllFailed(answers) == \A s \in Feeds : answers[s].kind = "failed"

Combined(answers) == [s \in Feeds |-> answers[s].from]

-----------------------------------------------------------------------------
(* The page.                                                                *)

\* The first refresh of a page reads the caches before it fetches.
Refresh(i) ==
    /\ stage[i] = "new" /\ current = i - 1
    /\ current' = i
    /\ loading' = TRUE /\ error' = FALSE
    /\ stage' = [stage EXCEPT ![i] = IF i = 1 THEN "saved" ELSE "fetching"]
    /\ UNCHANGED <<cacheOf, result, feed, cached>>

\* A page that has been refreshed meanwhile gives this refresh up.
CachedNews(i) ==
    /\ stage[i] = "saved"
    /\ IF current # i
       THEN stage' = [stage EXCEPT ![i] = "done"] /\ UNCHANGED <<feed, cached>>
       ELSE /\ stage' = [stage EXCEPT ![i] = "fetching"]
            /\ IF \A s \in Feeds : cacheOf[s] = Absent
               THEN UNCHANGED <<feed, cached>>
               ELSE feed' = cacheOf /\ cached' = TRUE
    /\ UNCHANGED <<cacheOf, result, current, loading, error>>

\* The command answers when its last thread has.
AllFetched(i) ==
    /\ stage[i] = "fetching" /\ \A s \in Feeds : result[i][s] # NoAnswer
    /\ stage' = [stage EXCEPT ![i] = "answered"]
    /\ UNCHANGED <<cacheOf, result, Page>>

\* Only the latest refresh changes the page; a failed one keeps its articles.
ShowFetched(i) ==
    /\ stage[i] = "answered"
    /\ stage' = [stage EXCEPT ![i] = "done"]
    /\ IF current # i
       THEN UNCHANGED <<feed, cached, error, loading>>
       ELSE /\ loading' = FALSE
            /\ IF AllFailed(result[i])
               THEN error' = TRUE /\ cached' = TRUE /\ feed' = feed
               ELSE /\ feed' = Combined(result[i])
                    /\ cached' = CombinedCached(result[i])
                    /\ error' = error
    /\ UNCHANGED <<cacheOf, result, current>>

NewsNext ==
    \E i \in Refreshes :
        \/ Refresh(i) \/ CachedNews(i) \/ AllFetched(i) \/ ShowFetched(i)
        \/ \E s \in Feeds, usable, saved \in BOOLEAN : AcceptFetched(i, s, usable, saved)

NewsSpec == NewsInit /\ [][NewsNext]_newsVars

-----------------------------------------------------------------------------
(* Properties.                                                              *)

\* When the page is not loading, articles it does not call saved ones were all
\* fetched by its latest refresh, and every feed that refresh could fetch is
\* shown: neither an earlier refresh that answers late nor a feed that cannot
\* be had changes that.
FreshMeansFetched ==
    (~loading /\ ~error) =>
        \A s \in Feeds :
            /\ ~cached => feed[s] \in {current, Absent}
            /\ result[current][s].kind = "fresh" => feed[s] = current
=============================================================================
