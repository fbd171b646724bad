-------------------------- MODULE MCMobileInstall --------------------------
(***************************************************************************)
(* A small instance of MobileInstall: a desktop kit, a kit for one Android *)
(* ABI and one for another that some other tool linked to a desktop Qt of  *)
(* its own, and two directories that others may put beside them: a desktop *)
(* Qt for this host, and one for another.                                  *)
(***************************************************************************)
EXTENDS MobileInstall, TLC

CONSTANTS p1, p2, desktop, mobile, legacy, native, foreign, base, charts, Charts,
          qtbase, qtsvg, qtcharts

MCArchivesOf == (base :> <<qtbase, qtsvg>>) @@ (charts :> <<qtcharts>>)

MCShape ==
  [d \in Kits \cup Others |->
     [marker  |-> d \in {mobile, legacy},
      tools   |-> CASE d \in {mobile, legacy} -> "wrapper"
                    [] d = foreign -> "foreign"
                    [] OTHER -> "native",
      version |-> "requested"]]

OfBase   == <<[name |-> base, module |-> Base]>>
OfCharts == OfBase \o <<[name |-> charts, module |-> Charts]>>

Ask(mode, kits, sels) ==
  [mode |-> mode, kits |-> kits,
   select |-> [k \in Kits |-> IF k \in ToSet(kits) THEN sels ELSE <<>>]]

MCRequests ==
  {Ask("install", <<desktop>>, OfBase), Ask("install", <<mobile, legacy>>, OfBase),
   Ask("install", <<mobile>>, OfCharts),
   Ask("extract-only", <<desktop>>, OfBase), Ask("extract-only", <<mobile>>, OfBase),
   Ask("extract-only", <<legacy>>, OfBase)}

AnyProcess == Permutations(Procs)
=============================================================================
