---------------------------- MODULE MCStreamSearch ----------------------------
(* What is found to play something, for TLC, in parts that share nothing: the   *)
(* search of releases ("search": StreamSearch, Jackett's search and the         *)
(* add-ons' answers together), the rules a release is kept by ("screen",        *)
(* ReleaseScreen) and subtitles ("subtitles", Subtitles).                       *)
EXTENDS StreamSearch, Sequences

CONSTANTS Wants, Offered, Viewers, English, Languages, MaxAsked, MaxTroubles

VARIABLES part, want, hit, jackett, addon,
          movie, parsed, sidecar, there, keys, subtitles, title_subtitles, viewer, fetched, asked,
          troubles

Screen == INSTANCE ReleaseScreen
Subs == INSTANCE Subtitles

ASSUME ScreenAssumption == Screen!WantsAssumption /\ Screen!OfferedAssumption
ASSUME SubsAssumption == Subs!SubtitleAssumption

screenVars == <<want, hit, jackett, addon>>
subtitleVars == <<movie, parsed, sidecar, there, keys, subtitles, title_subtitles, viewer, fetched,
                  asked, troubles>>
mcVars == <<part, vars, screenVars, subtitleVars>>

\* Its releases do not depend on which are offered.
Names == INSTANCE ReleaseScreen WITH Offered <- {}

\* A film, an episode of a series, one of an anime in any language; releases that are unusual in
\* few ways.
SomeWants ==
  {[kind |-> "movie", season |-> 0, episode |-> 0, languages |-> {"en"}],
   [kind |-> "series", season |-> 1, episode |-> 2, languages |-> {"en"}],
   [kind |-> "anime", season |-> 2, episode |-> 1, languages |-> {}]}

Unusual(h) == Cardinality(h.words) + Cardinality(h.langs) + Cardinality(h.cats)
              + Cardinality({x \in {h.year, h.size # 4} : x})
SomeReleases == {h \in Names!Releases : Len(h.marks) + Unusual(h) <= 3}

\* Jackett's search reads nothing of what is around it, so that not all of that has to be
\* combined: while it is at work a source was switched, or there is a list of before, not both.
Apart ==
  \A s \in Searches :
    jack[s].pass = "idle" \/ offs = 0 \/ (~search[s].fallback /\ \A k \in Keys : cache[k] = None)

\* The other parts stand still where they are at first. Subtitles start with both providers set
\* up, and what is beside a video is in another language than English.
MCInit ==
  /\ part \in {"search", "screen", "subtitles"}
  /\ Init /\ Screen!Init /\ Subs!Init
  /\ part # "screen" => want = CHOOSE w \in Wants : TRUE
  /\ keys = {"opensubtitles", "wyzie"} /\ sidecar # English
  /\ part # "subtitles" => ~movie /\ parsed = 0 /\ sidecar = None

In(p, A) == part = p /\ A /\ UNCHANGED part

\* Releases and requests are used up; what is searched may always be searched again.
Over == UNCHANGED <<screenVars, subtitleVars>>

MCNext ==
  \/ In("search", Next /\ UNCHANGED <<screenVars, subtitleVars>>)
  \/ In("screen", (Screen!Next \/ Over) /\ UNCHANGED <<vars, subtitleVars>>)
  \/ In("subtitles", (Subs!Next \/ Over) /\ UNCHANGED <<vars, screenVars>>)

MCSpec == MCInit /\ [][MCNext]_mcVars

\* Releases are kept for what is in them (ReleaseScreen, filter_episode, screen_release).
RightReleases == Screen!RightReleases

\* What was fetched is answered, and not fetched again (Subtitles, ensure_for_file).
SubtitlesAreKept == Subs!SubtitlesAreKept
=============================================================================
