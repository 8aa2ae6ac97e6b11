------------------------------- MODULE TagScan -------------------------------
(***************************************************************************)
(* One container over two scans with the update in between: what the scan  *)
(* of a node concludes from what a registry answers, for every small       *)
(* listing, every digest and every failed probe.                           *)
(***************************************************************************)
EXTENDS ImageTags

CONSTANTS Tags,      \* tags a repository may have
          MaxTags    \* bound: length of a listing

ASSUME TagConstants == Tags \subseteq Tag /\ MaxTags \in Nat

VARIABLES cur, tags, listed, dig, local, verdict, stage

tagVars == <<cur, tags, listed, dig, local, verdict, stage>>

TagInit ==
    /\ cur \in Tags
    /\ tags \in {s \in UNION {[1 .. n -> Tags] : n \in 0 .. MaxTags} : IsInjective(s)}
    /\ listed \in BOOLEAN
    /\ \E moved \in SUBSET (ToSet(tags) \union {cur}), down \in ToSet(tags) \union {cur, NoTag} :
        dig = [t \in Tags |-> IF t = down THEN 0 ELSE IF t \in moved THEN 2 ELSE 1]
    /\ local \in 0 .. 1
    /\ verdict = Unknown /\ stage = "scan"

Scan ==
    /\ stage \in {"scan", "rescan"}
    /\ verdict' = Verdict(cur, tags, listed, dig, local)
    /\ stage' = IF stage = "scan" THEN "scanned" ELSE "settled"
    /\ UNCHANGED <<cur, tags, listed, dig, local>>

\* The container is recreated from what the registry has; the next scan can list.
Apply ==
    /\ stage = "scanned" /\ Candidate(verdict, cur, TRUE)
    /\ cur' = IF verdict.suggest # NoTag THEN verdict.suggest ELSE cur
    /\ local' = dig[cur']
    /\ listed' = TRUE /\ stage' = "rescan"
    /\ UNCHANGED <<tags, dig, verdict>>

TagNext == Scan \/ Apply

TagSpec == TagInit /\ [][TagNext]_tagVars

-----------------------------------------------------------------------------
(* Properties.                                                             *)

\* "Versioned tags may move only to a newer compatible tag in the same
\* major/flavour": what a scan suggests is listed, newer, of the same major and
\* flavour, and no pre-release unless the container already runs one.
SuggestionSound ==
    verdict.suggest # NoTag /\ stage = "scanned" =>
        /\ \E i \in DOMAIN tags : tags[i] = verdict.suggest
        /\ Less(cur, verdict.suggest)
        /\ cur.major = verdict.suggest.major /\ SameVariant(cur, verdict.suggest)
        /\ ~IsPrerelease(cur) => ~IsPrerelease(verdict.suggest)

\* No false "up to date" for a versioned tag that is still published: nothing
\* newer that fits is listed, unless what runs is the content of the newest.
NoFalseCurrent ==
    stage = "scanned" /\ verdict.has = 0 /\ ~Floating(cur) =>
        /\ listed
        /\ \A i \in DOMAIN tags :
            Semver(cur) /\ Compatible(cur, tags[i]) /\ Less(cur, tags[i]) =>
                \E j \in DOMAIN tags : /\ Compatible(cur, tags[j]) /\ ~Less(tags[j], tags[i])
                                       /\ dig[tags[j]] = local

\* What a scan says, either way: what it suggests is right, and so is its "up to
\* date".
VerdictSound == SuggestionSound /\ NoFalseCurrent

\* Updating settles: once what a scan asked for is done, the next scan of the same
\* registry asks for nothing, so that a schedule does not recreate for ever.
UpdateSettles == stage = "settled" => verdict.has = 0
=============================================================================
