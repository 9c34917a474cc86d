------------------------------ MODULE Profiler ------------------------------
(***************************************************************************)
(* maidsafe::profile::Profiler (profiler.h, profiler.cc): durations are    *)
(* added up by the thread of an Active that two pointers own while the     *)
(* destructor runs; the last one to be reset joins the thread.             *)
(***************************************************************************)
EXTENDS Integers, SequencesExt

CONSTANTS
  Locations, Durations,
  MaxEntries \* bound: scopes profiled

Owners == {"member", "future"}

\* entries: entries_, by location; queue: functors not yet run by background_;
\* owners: the pointers to it; ended: its thread is joined; added: history.
VARIABLE profiler

Init ==
  profiler = [entries |-> <<>>, queue |-> <<>>, owners |-> {"member"}, ended |-> FALSE,
              stage |-> "profiling", printed |-> <<>>, added |-> <<>>]

\* A ProfileEntry goes out of scope.
AddEntry(location, duration) ==
  /\ profiler.stage = "profiling" /\ Len(profiler.added) < MaxEntries
  /\ LET entry == [location |-> location, duration |-> duration]
     IN profiler' = [profiler EXCEPT !.queue = Append(@, entry), !.added = Append(@, entry)]

Added(entries, e) ==
  LET old == IF e.location \in DOMAIN entries THEN entries[e.location]
             ELSE [count |-> 0, total |-> 0]
  IN (e.location :> [count |-> old.count + 1, total |-> old.total + e.duration]) @@ entries

RunFunctor ==
  /\ profiler.queue # <<>>
  /\ profiler' = [profiler EXCEPT !.queue = Tail(@), !.entries = Added(@, Head(profiler.queue))]

Destroy ==
  /\ profiler.stage = "profiling"
  /\ profiler' = [profiler EXCEPT !.stage = "resetting", !.owners = Owners]

\* Faulty: the pointer is let go without waiting for the thread.
LetGo(owner) == owner \in profiler.owners
\* The last owner destroys the Active, which waits for all that was queued.
MayReset(owner) == profiler.owners # {owner} \/ profiler.queue = <<>>
Reset(owner) ==
  /\ profiler.stage = "resetting" /\ owner \in profiler.owners
  /\ MayReset(owner)
  /\ profiler' = [profiler EXCEPT !.owners = @ \ {owner},
                                  !.ended = profiler.owners = {owner}]

\* The destructor prints when its own pointer and the future's are both done with.
PrintAll ==
  /\ profiler.stage = "resetting" /\ profiler.owners = {}
  /\ profiler' = [profiler EXCEPT !.stage = "printed", !.printed = @ @@ profiler.entries,
                                  !.entries = <<>>]

Next ==
  \/ \E location \in Locations, duration \in Durations : AddEntry(location, duration)
  \/ RunFunctor
  \/ Destroy
  \/ \E owner \in Owners : Reset(owner)
  \/ PrintAll

Spec == Init /\ [][Next]_profiler

-----------------------------------------------------------------------------
\* What is printed is every scope that was profiled, counted and added up under its
\* location, whichever pointer was reset last (~Profiler, AddEntry).
EverythingIsPrinted ==
  profiler.stage = "printed" =>
    \A l \in Locations :
      LET here == SelectSeq(profiler.added, LAMBDA e : e.location = l)
      IN IF here = <<>> THEN l \notin DOMAIN profiler.printed
         ELSE l \in DOMAIN profiler.printed /\ profiler.printed[l] =
                [count |-> Len(here), total |-> FoldSeq(LAMBDA e, sum : sum + e.duration, 0, here)]
=============================================================================
