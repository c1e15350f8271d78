----------------------------- MODULE MCShutdown ------------------------------
(* Small instances of Startup and Shutdown for TLC.  Most runs check temporal
   properties, for which TLC's symmetry reduction is unsound, so none is
   declared. *)
EXTENDS Startup

\* The guards that OnlyWatchersBlock reads are those of the steps.
GuardsAreEnabled ==
  /\ cancelled /\ main # "boot" => (MainCanGo <=> ENABLED BootMain)
  /\ Alive => \A w \in Worker : WorkerCanGo(w) <=> ENABLED Pool(w)
==============================================================================
