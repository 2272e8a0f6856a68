------------------------------- MODULE MCFeeds ------------------------------
(***************************************************************************)
(* The three caches of remote observations share no state.  One run        *)
(* explores all of them, each by itself: `part' says which, from the start. *)
(***************************************************************************)
EXTENDS MetadataCache, FeedReads, RssObservations, TLC

VARIABLE part
allVars == <<metaVars, feedVars, rssVars, part>>

CONSTANTS h1, h2
Torrents == 1 :> {[hash |-> h1, size |-> 2], [hash |-> Nothing, size |-> 1]}
         @@ 2 :> {[hash |-> h1, size |-> 2], [hash |-> h2, size |-> 1]}
         @@ 3 :> {[hash |-> h2, size |-> 1], [hash |-> h2, size |-> 4]}
OneEach == [f \in Feed |-> f]

Init == /\ MetadataInit /\ FeedInit /\ RssInit
        /\ part \in {"metadata", "feeds", "rss"}
        /\ part = "rss" \/ conf = [s \in Src |-> None]
Metadata == part = "metadata" /\ MetadataNext /\ UNCHANGED <<feedVars, rssVars, part>>
Feeding == part = "feeds" /\ FeedNext /\ UNCHANGED <<metaVars, rssVars, part>>
Observing == part = "rss" /\ RssNext /\ UNCHANGED <<metaVars, feedVars, part>>
Next == Metadata \/ Feeding \/ Observing

Runs(A) == part = "metadata" /\ A /\ UNCHANGED <<feedVars, rssVars, part>>
Fairness == \A r \in Reader : WF_allVars(Runs(Land(r))) /\ WF_allVars(Runs(Return(r)))

Spec == Init /\ [][Next]_allVars /\ Fairness
=============================================================================
