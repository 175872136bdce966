-------------------------- MODULE ChoiceThumbnails --------------------------
(***************************************************************************)
(* The thumbnails of a choice field's drop-down list, made by module       *)
(* ThumbnailThread: which of them does the style believe to be up to date? *)
(* (src/src/gui/value/choice.cpp, ChoiceStyle::invalidate.)                *)
(*                                                                         *)
(* A choice image comes from a script.  "scripted" is what the script would*)
(* give now, "content" (of ThumbnailThread) what the ScriptableImage was   *)
(* last updated to, "stored" what is in the style's image list.  Owners    *)
(* are the editors of the field: they come and go, the style stays.        *)
(*                                                                         *)
(* Three things the user may do are switched by constants:                 *)
(*   ChangeWhilePending  the script's result changes while a request for   *)
(*                       the name is in progress;                          *)
(*   CloseWhilePending   an editor goes away while it has requests;        *)
(*   FastChanges         two changes within one tick of the clock.         *)
(*                                                                         *)
(* A choice image has a script here.  Those that a style without choice    *)
(* images makes of its one image script (choice.cpp:183) have none: they   *)
(* are made once and nothing makes them again.                             *)
(***************************************************************************)
EXTENDS ThumbnailThread

CONSTANTS ChangeWhilePending, CloseWhilePending, FastChanges,
          LocalVersions     \* results of the script that are images of the set

ASSUME ScenarioAssumption ==
  {ChangeWhilePending, CloseWhilePending, FastChanges} \subseteq BOOLEAN

VARIABLES scripted, status,
          accepted          \* history: the result of the script for which the
                            \* first request of a name was given a file

styleVars == <<scripted, status, accepted>>
choiceVars == <<vars, styleVars>>

Pending(n) == \E o \in Owners : <<o, n>> \in request_names
OwnerPending(o) == \E n \in Names : <<o, n>> \in request_names

-----------------------------------------------------------------------------
\* ChoiceStyle::invalidate, when something the image script uses changes
InvalidatedNever(s) == s
Invalidated(s) == IF s = "ok" THEN "changed" ELSE s

scriptChanges(n) ==
  /\ mpc = "idle"
  /\ scripted[n] < MaxVersion
  /\ ~ChangeWhilePending => ~Pending(n)
  /\ IF FastChanges THEN clock' = clock
     ELSE clock < MaxClock /\ clock' = clock + 1
  /\ scripted' = [scripted EXCEPT ![n] = @ + 1]
  /\ status' = [status EXCEPT ![n] = Invalidated(@)]
  /\ UNCHANGED <<alive, content, cache, open_requests, closed_requests,
                 request_names, worker, stop, workerVars, mainVars, stored, accepted>>

\* ScriptableImage::update
UpdateChanges(n) == scripted[n] # content[n]

\* generateThumbnailImages, for one choice of the list: the image list has an
\* entry once something was stored.  The first time any file since the package
\* is good enough, unless the image is one of the set; later, only one made
\* for this very moment.
Wanted(n) == stored[n] = Failed \/ status[n] # "ok"
FromDiskLocalForgotten(n) == status[n] = "not made"
FromDisk(n) == status[n] = "not made" /\ scripted[n] \notin LocalVersions
RequestTimeFromDisk(n) == 0
RequestTime(n) == IF FromDisk(n) THEN 0 ELSE clock

NeedNotRebuild(n) == ~UpdateChanges(n) /\ status[n] = "changed"

showUpToDate(o, n) ==
  /\ mpc = "idle" /\ o \in alive
  /\ Wanted(n) /\ NeedNotRebuild(n)
  /\ status' = [status EXCEPT ![n] = "ok"]
  /\ UNCHANGED <<vars, scripted, accepted>>

\* store() of a good image sets the status, from request as well as from done
showRequest(o, n) ==
  /\ Wanted(n) /\ ~NeedNotRebuild(n)
  /\ content' = [content EXCEPT ![n] = scripted[n]]
  /\ requestVersion(o, n, RequestTime(n), scripted[n])
  /\ IF <<o, n>> \notin request_names /\ CacheHit(n, RequestTime(n))
     THEN /\ status' = [status EXCEPT ![n] = "ok"]
          /\ accepted' = IF FromDisk(n) THEN [accepted EXCEPT ![n] = scripted[n]] ELSE accepted
     ELSE UNCHANGED <<status, accepted>>
  /\ UNCHANGED <<alive, clock, scripted>>

storeDone(o) ==
  /\ done(o)
  /\ status' = [n \in Names |-> IF Images(n, Finished(o)) = <<>> THEN status[n] ELSE "ok"]
  /\ UNCHANGED <<scripted, accepted>>

closeEditor(o) ==
  /\ CloseWhilePending \/ ~OwnerPending(o)
  /\ abort(o)
  /\ UNCHANGED styleVars

-----------------------------------------------------------------------------
ChoiceInit == /\ Init
              /\ scripted = content
              /\ status = [n \in Names |-> "not made"]
              /\ accepted = [n \in Names |-> 0]

ChoiceNext == \/ \E n \in Names : scriptChanges(n)
              \/ \E o \in Owners, n \in Names : showUpToDate(o, n) \/ showRequest(o, n)
              \/ \E o \in Owners : storeDone(o) \/ closeEditor(o)
              \/ /\ Worker \/ Main \/ (\E o \in Owners : create(o))
                 /\ UNCHANGED styleVars

ChoiceSpec == ChoiceInit /\ [][ChoiceNext]_choiceVars

-----------------------------------------------------------------------------
\* "Which thumbnails are up to date?" (choice.hpp:148): those whose status is
\* THUMB_OK, but for one exception, which the code makes (choice.cpp:208): for
\* an image that is not one of the set the first request takes a file that an
\* earlier session left, whatever that was made from, and it is shown until
\* the script gives something else.  So an "ok" thumbnail shows what the
\* script gives now or is such a file, unless a newer one is on its way.
FromEarlierSession(n) ==
  stored[n] \in EarlierImages /\ scripted[n] \notin LocalVersions /\ accepted[n] = scripted[n]
OkMeansUpToDate ==
  \A n \in Names : status[n] = "ok" /\ ~Pending(n) =>
    stored[n] = scripted[n] \/ FromEarlierSession(n)

\* Without the exception, which is more than the code does: it is the cache of
\* this session alone that is right.
OkMeansPresent ==
  \A n \in Names : status[n] = "ok" /\ ~Pending(n) => stored[n] = scripted[n]
=============================================================================
