---------------------------- MODULE MCInstaller ----------------------------
(***************************************************************************)
(* Small instances of Installer for TLC.  The base package has a key       *)
(* archive (qtbase) and a second one (qtsvg); the module has one archive   *)
(* and is called "charts" in one layout of the repository and              *)
(* "addons.charts" in another.                                             *)
(***************************************************************************)
EXTENDS Installer, TLC

CONSTANTS p1, p2, p3, k1, k2, base, base2, charts, charts2, Charts,
          qtbase, qtsvg, qtcharts

MCArchivesOf ==
  (base :> <<qtbase, qtsvg>>) @@ (base2 :> <<qtbase, qtsvg>>)
    @@ (charts :> <<qtcharts>>) @@ (charts2 :> <<qtcharts>>)

OfBase(n)   == [name |-> n, module |-> Base]
OfCharts(n) == [name |-> n, module |-> Charts]
Ask(mode, kits, sels) ==
  [mode |-> mode, kits |-> kits,
   select |-> [k \in Kits |-> IF k \in ToSet(kits) THEN sels ELSE <<>>]]

InstallBase1     == Ask("install", <<k1>>, <<OfBase(base)>>)
InstallCharts1   == Ask("install", <<k1>>, <<OfBase(base), OfCharts(charts)>>)
InstallRenamed1  == Ask("install", <<k1>>, <<OfBase(base2), OfCharts(charts2)>>)
InstallBaseBoth  == Ask("install", <<k1, k2>>, <<OfBase(base)>>)
InstallCharts2   == Ask("install", <<k2>>, <<OfBase(base), OfCharts(charts)>>)
DownloadCharts2  == Ask("download-only", <<k2>>, <<OfBase(base), OfCharts(charts)>>)
ExtractBase1     == Ask("extract-only", <<k1>>, <<OfBase(base)>>)
Doubled2         == Ask("install", <<k2>>, <<OfBase(base), OfBase(base)>>)

\* One kit, packages under the names of two repository layouts.
MCNamesRequests == {InstallBase1, InstallCharts1, InstallRenamed1}
\* Two kits that overlapping requests share, and every mode.
MCKitsRequests  == {InstallBaseBoth, InstallCharts2, DownloadCharts2, ExtractBase1, Doubled2}
MCOneRequest    == {InstallBase1}
MCExtractFirst  == {InstallBase1, ExtractBase1}

MCSymmetry == Permutations(Procs)
=============================================================================
