----------------------------- MODULE ReleaseScreen -----------------------------
(* What a release may be to be offered (jackett.rs). Jackett's hits go through  *)
(* transform_results and, for an episode, filter_episode; what the add-ons find *)
(* goes through screen_release. Both read the name: a title here is what the    *)
(* expressions look for in it, the marks of seasons and episodes in their       *)
(* order.                                                                       *)
EXTENDS Integers, Sequences, FiniteSets

CONSTANTS
  Wants,    \* what is searched for: [kind, season, episode, languages]; no season is 0
  Offered   \* the releases there are

WantsAssumption ==
  \A w \in Wants : w.kind \in {"movie", "series", "anime"} /\ w.season \in Nat /\ w.episode \in Nat

\* S01E02, S01.E02, 1x02, Season 1 Episode 2; S01, Season 1.
EpisodeForms == {"joined", "apart", "cross", "spoken"}
SeasonForms == {"bare", "season"}
Marks == [form : EpisodeForms, s : 1..2, e : 1..2] \cup [form : SeasonForms, s : 1..2, e : {0}]

Words == {"complete", "pack", "sample", "cam", "sign", "nsfw"}
Codes == {"en", "fr", "multi"}

\* Sizes, by the bounds that tell them apart: not said, below 60 MB, below 150 MB, below 250 MB,
\* up to 10 GB, 50 GB, 120 GB, more.
Sizes == 0..7

Groups == {"movies", "tv", "other", "xxx"}   \* of Newznab's categories

\* A name with an episode in it is about one season.
Agree(ms) == \A i, j \in DOMAIN ms : ms[i].form \in EpisodeForms => ms[j].s = ms[i].s

Releases ==
  [marks : {ms \in {<< >>} \cup [1..1 -> Marks] \cup [1..2 -> Marks] : Agree(ms)}, year : BOOLEAN,
   words : {W \in SUBSET Words : Cardinality(W) <= 1}, langs : {L \in SUBSET Codes : Cardinality(L) <= 1},
   size : Sizes, cats : {G \in SUBSET Groups : Cardinality(G) <= 1}]

OfferedAssumption == Offered \subseteq Releases

VARIABLES
  want,     \* the search
  hit,      \* the release the sources come upon
  jackett,  \* what became of it as a hit of Jackett
  addon     \* and as one of an add-on

vars == <<want, hit, jackett, addon>>

Nothing == [marks |-> << >>, year |-> FALSE, words |-> {}, langs |-> {}, size |-> 0, cats |-> {}]

TypeOK == want \in Wants /\ hit \in Releases /\ {jackett, addon} \subseteq {"none", "kept", "dropped"}

--------------------------------------------------------------------------------
Forms(h) == {h.marks[i].form : i \in DOMAIN h.marks}
MarkedAs(h, forms) == \E i \in DOMAIN h.marks : h.marks[i].form \in forms

\* torrent_matches_episode.
MatchesEpisode(h, s, e) ==
  \E i \in DOMAIN h.marks : h.marks[i].form \in EpisodeForms /\ h.marks[i].s = s /\ h.marks[i].e = e

\* Mutant of HasOtherEpisode: only other seasons count.
HasOtherSeason(h, s, e) ==
  \E i \in DOMAIN h.marks : h.marks[i].form \in {"joined", "cross"} /\ h.marks[i].s # s

\* torrent_has_other_episode knows two of the four forms.
HasOtherEpisode(h, s, e) ==
  \E i \in DOMAIN h.marks :
    h.marks[i].form \in {"joined", "cross"} /\ (h.marks[i].s # s \/ h.marks[i].e # e)

\* torrent_named_seasons. A match takes the space behind it, so that the second of two bare
\* seasons, or of two spelt out, is not seen.
Named(h) ==
  LET hides == [f \in EpisodeForms \cup SeasonForms |->
                  IF f = "bare" THEN {"bare", "apart"}
                  ELSE IF f = "season" THEN {"season", "spoken"} ELSE {}]
      seen == [i \in DOMAIN h.marks |->
                 /\ h.marks[i].form \in {"bare", "apart", "season", "spoken"}
                 /\ i = 1 \/ h.marks[i].form \notin hides[h.marks[i - 1].form]]
  IN {h.marks[i].s : i \in {j \in DOMAIN h.marks : seen[j]}}

IsSeasonPack(h, s) ==
  s \in Named(h) \/ (Named(h) = {} /\ s = 1 /\ h.words \cap {"complete", "pack"} # {})

\* torrent_usable_for_episode.
Usable(h, s, e) ==
  MatchesEpisode(h, s, e) \/ (~HasOtherEpisode(h, s, e) /\ IsSeasonPack(h, s))

\* looks_like_junk_release: no form of "S01" alone or of "S01.E02" is looked for.
LooksLikeSeries(h) == MarkedAs(h, {"joined", "cross", "season", "spoken"})

Junk(h, kind) ==
  \/ "nsfw" \in h.words
  \/ kind = "movie" /\ LooksLikeSeries(h)
  \/ kind = "series" /\ h.year /\ ~LooksLikeSeries(h) /\ h.words \cap {"complete", "pack"} = {}

\* size_plausible. The expression for "S01" has a look-ahead, which the library refuses.
LooksLikePack(h) == h.words \cap {"complete", "pack"} # {} \/ MarkedAs(h, {"season", "spoken"})

SizePlausible(h, kind) ==
  \/ h.size = 0
  \/ kind = "movie" /\ h.size \in 4..5
  \/ kind # "movie" /\ h.size \in (IF LooksLikePack(h) THEN 3..6 ELSE 2..4)

\* hit_category_allowed: the categories a kind of title is searched in, or none.
CategoryAllowed(h, kind) ==
  "xxx" \notin h.cats /\ (h.cats = {} \/ (IF kind = "movie" THEN "movies" ELSE "tv") \in h.cats)

\* language_matches: no language in the name is English.
LanguageMatches(h, wanted) ==
  \/ wanted = {} \/ "multi" \in h.langs \/ h.langs \cap wanted # {}
  \/ h.langs = {} /\ "en" \in wanted

LooksLikeSample(h) == "sample" \in h.words
LooksLikeCam(h) == "cam" \in h.words
LooksLikeSign(h) == "sign" \in h.words

\* transform_results.
Transforms(h, w) ==
  /\ ~LooksLikeSample(h) /\ ~LooksLikeCam(h) /\ ~LooksLikeSign(h) /\ ~Junk(h, w.kind)
  /\ CategoryAllowed(h, w.kind) /\ SizePlausible(h, w.kind) /\ LanguageMatches(h, w.languages)

FitsEpisode(h, w) == w.season > 0 => Usable(h, w.season, w.episode)

\* screen_release.
Screens(h, w) ==
  /\ ~LooksLikeSample(h) /\ ~LooksLikeCam(h) /\ ~LooksLikeSign(h) /\ ~Junk(h, w.kind)
  /\ SizePlausible(h, w.kind) /\ LanguageMatches(h, w.languages)

--------------------------------------------------------------------------------
Init == want \in Wants /\ hit = Nothing /\ jackett = "none" /\ addon = "none"

\* A source comes upon a release, and the other one may have it too.
Find ==
  /\ jackett = "none" /\ addon = "none" /\ hit = Nothing
  /\ hit' \in Offered
  /\ UNCHANGED <<want, jackett, addon>>

JackettHit ==
  /\ jackett = "none"
  /\ jackett' = IF Transforms(hit, want) /\ FitsEpisode(hit, want) THEN "kept" ELSE "dropped"
  /\ UNCHANGED <<want, hit, addon>>

\* An add-on is asked for the episode and is believed.
AddonHit ==
  /\ addon = "none"
  /\ addon' = IF Screens(hit, want) THEN "kept" ELSE "dropped"
  /\ UNCHANGED <<want, hit, jackett>>

Next == Find \/ JackettHit \/ AddonHit

Spec == Init /\ [][Next]_vars

--------------------------------------------------------------------------------
(* What a name says, however it is written. *)

Episodes(h) == {<<h.marks[i].s, h.marks[i].e>> :
                  i \in {j \in DOMAIN h.marks : h.marks[j].form \in EpisodeForms}}
Seasons(h) == {h.marks[i].s : i \in DOMAIN h.marks}

\* The episode itself, or a pack that can contain it.
Holds(h, s, e) ==
  IF Episodes(h) # {} THEN <<s, e>> \in Episodes(h)
  ELSE s \in Seasons(h) \/ (Seasons(h) = {} /\ h.words \cap {"complete", "pack"} # {})

\* Forms in which another episode of the season is not told from a pack.
TakenForPack(h, s) == \E i \in DOMAIN h.marks :
                        h.marks[i].form \in {"apart", "spoken"} /\ h.marks[i].s = s

\* What Jackett's hits are kept for is in them, but for other episodes whose name writes season
\* and episode apart (torrent_usable_for_episode).
KeptHoldsEpisode ==
  jackett = "kept" /\ want.season > 0
    => Holds(hit, want.season, want.episode) \/ TakenForPack(hit, want.season)

\* Nobody can tell from a list where a release came from: the rules of the two ways differ in
\* Jackett's categories and in the filter for episodes alone (screen_release).
ScreenedAlike ==
  /\ jackett = "kept" => addon # "dropped"
  /\ addon = "kept" /\ jackett = "dropped"
       => ~CategoryAllowed(hit, want.kind) \/ ~FitsEpisode(hit, want)

IsPackOf(h, s) == Episodes(h) = {} /\ Seasons(h) = {s}

\* A pack of the season asked for is not lost to the rules made for single episodes and films,
\* unless "S01" is all that says it is one (looks_like_junk_release, size_plausible).
PacksAreKept ==
  /\ jackett = "dropped" /\ want.kind # "movie" /\ want.season > 0 /\ IsPackOf(hit, want.season)
  /\ hit.words \subseteq {"complete", "pack"} /\ hit.size \in {0} \cup 3..6
  /\ CategoryAllowed(hit, want.kind) /\ LanguageMatches(hit, want.languages)
  => Forms(hit) = {"bare"} /\ hit.words = {} /\ (hit.year \/ hit.size > 4)

\* What is asked for is what is kept, wherever it was found (filter_episode, transform_results,
\* screen_release).
RightReleases == KeptHoldsEpisode /\ PacksAreKept /\ ScreenedAlike
=============================================================================
