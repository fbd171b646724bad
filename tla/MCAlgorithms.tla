---------------------------- MODULE MCAlgorithms ----------------------------
(***************************************************************************)
(* The pure parts of the program over every small input: requests applied  *)
(* to manifests one after another (Reconcile), the rewriting of texts and  *)
(* settings, applied again and again (RelocationText), and what is listed  *)
(* and planned from a growing server (Planning).  A state has an input of  *)
(* one of the four kinds.                                                  *)
(***************************************************************************)
EXTENDS Planning, RelocationText

CONSTANTS
  MaxSelections,   \* length of the longest request
  MaxTokens,       \* length of the longest text
  MaxLines         \* length of the longest settings file

ASSUME BoundsAssumption == MaxSelections \in Nat /\ MaxTokens \in Nat /\ MaxLines \in Nat

VARIABLES packages, text, lines

Requested == BoundedSeq(Selections, MaxSelections)

MetadataTokens == {"c:", "/Users", "/home", "\\Users", "/lib", "\\lib", "x"}

ScriptTokens == {"tool", "dq", "host", "x"}

BuiltTexts ==
  BoundedSeq(MetadataTokens, MaxTokens) \cup BoundedSeq(ScriptTokens, MaxTokens)

KitDir == <<"/kit">>

HostTool == <<"host">>

Values == [k \in {"HostPrefix", "HostData"} |-> "own"]

BuiltLines ==
  BoundedSeq([kind : {"section"}, name : {"Paths", "DevicePaths"}, value : {""}]
               \cup [kind : {"entry"}, name : {"HostPrefix", "HostData", "Prefix"}, value : {"stock"}],
             MaxLines)

(* The server: a desktop release whose documents are of every kind, and    *)
(* variants of others in the directories that the hosts and targets have.  *)

v680  == Version(6, 8, 0)
v6101 == Version(6, 10, 1)
v6110 == Version(6, 11, 0)

MCKnownVersions == {Version(6, 7, 3), v680, v6101, v6110, Version(6, 8, 10), Version(6, 10, 12)}

MCSpelling == [Charts |-> "charts", ARM64 |-> "arm64-v8a"]

Op(archive, to)             == [archive |-> archive, to |-> to]
Update(archives, extract)   == [version |-> 1, archives |-> archives, extract |-> extract]
In(directory)               == <<VersionDirectory, directory>>
Whole(directory)            == Update(<<"icu", "qtbase">>,
                                      <<Op("icu", In(directory) \o <<"lib">>), Op("qtbase", In(directory))>>)
Bare == Update(<<"qtbase">>, <<>>)
Half == Update(<<"icu", "qtbase">>, <<Op("icu", In("gcc_64"))>>)

BaseUpdates ==
  {Whole("gcc_64"), Bare, Half, Update(<<>>, <<>>),
   Update(<<"icu", "qtbase">>, <<Op("qtbase", In("gcc_64")), Op("icu", In("icu"))>>),
   Update(<<"icu">>, <<Op("icu", <<"..">>)>>),
   Update(<<"qtbase">>, <<Op("qtbase", <<>>)>>),
   Update(<<"qtbase">>, <<Op("qtbase", In("gcc_64")), Op("qtbase", <<"docs">>)>>)}

At(segment, target, version, extension, child) ==
  [segment |-> segment, target |-> target, version |-> Compact(version),
   extension |-> extension, child |-> child]

Offer(address, family, version, parts, update) ==
  [address |-> address, update |-> update,
   name |-> [prefix |-> [family |-> family, version |-> Compact(version)], parts |-> parts]]

Linux == At("linux_x64", "desktop", v680, "", "")

DesktopOffers ==
  {Offer(Linux, "qt", v680, <<"linux_gcc_64">>, u) : u \in BaseUpdates}
  \cup {Offer(Linux, "qt", v680, name \o <<"linux_gcc_64">>, u) :
          name \in {<<"charts">>, <<"addons", "charts">>, <<"x", "charts">>},
          u \in {Whole("gcc_64"), Half}}
  \cup {Offer(Linux, "qt", v680, <<"addons", "linux_gcc_64">>, Bare)}
  \cup {Offer(At("linux_x64", "qtpdf", v680, "", "x86_64"), "qtpdf", v680, <<"linux_gcc_64">>, u) :
          u \in {Whole("gcc_64"), Half}}

WindowsOffers ==
  {Offer(At("windows_x86", "desktop", v, "", child), "qt", v, <<"win64_msvc2022_64">>, Whole("msvc2022_64")) :
     v \in {v6101, v6110}, child \in {"", "msvc2022_64", "preview"}}

OtherOffers ==
  {Offer(At("all_os", "android", v6101, "", AndroidABIs[abi].child), "qt", v6101,
         name \o <<AndroidABIs[abi].architecture>>, Whole(AndroidABIs[abi].architecture)) :
     abi \in {"arm64-v8a", "armeabi-v7a"}, name \in {<<>>, <<"charts">>}}
  \cup {Offer(At("mac_x64", "ios", v, "", ""), "qt", v, <<"ios">>, Whole("ios")) :
          v \in {Version(6, 8, 10), Version(6, 10, 12), Version(6, 7, 3)}}
  \cup {Offer(At("all_os", "qt", v6101, extension, ""), "qt", v6101, <<"src">>, Bare) :
          extension \in {"", "src_doc_examples"}}
  \cup {Offer(At("mac_x64", "ios", v6101, "preview", ""), "qt", v6101, <<"ios">>, Whole("ios"))}

MCOffers == DesktopOffers \cup WindowsOffers \cup OtherOffers

Ask(host, target, version, arch, abis, mods, flags) ==
  [host |-> host, target |-> target, version |-> version, arch |-> arch,
   abis |-> abis, modules |-> mods, flags |-> flags]

MCCommands ==
  {Ask("linux", "desktop", v680, arch, <<>>, mods, flags) :
     arch \in {"", "linux_gcc_64"}, mods \in {<<>>, <<"charts", "Charts">>, <<"addons">>},
     flags \in {{}, {"extract-only"}}}
  \cup {Ask("windows", "desktop", v, "", <<>>, <<>>, {"download-only"}) : v \in {v6101, v6110}}
  \cup {Ask("linux", "android", v6101, "", abis, mods, {}) :
          abis \in {<<"arm64-v8a">>, <<"ARM64", "armeabi-v7a", "arm64-v8a">>}, mods \in {<<>>, <<"charts">>}}
  \cup {Ask("mac", "ios", v, "", <<>>, <<>>, {"download-only"}) :
          v \in {Version(6, 7, 3), Version(6, 8, 10), Version(6, 10, 12)}}
  \cup {Ask("linux", "desktop", v680, "", <<>>, <<>>, {"extract-only", "download-only"}),
         Ask("windows", "desktop", v6110, "", <<>>, <<>>, {}),
         Ask("linux", "desktop", v680, "clang_64", <<>>, <<>>, {"extract-only"})}

-----------------------------------------------------------------------------

NoInput == packages = NoPackages /\ text = <<>> /\ lines = <<>>

Init ==
  /\ site = Empty
  /\ \/ packages \in Packages /\ text = <<>> /\ lines = <<>>
     \/ packages = NoPackages /\ text \in BuiltTexts /\ lines = <<>>
     \/ packages = NoPackages /\ text = <<>> /\ lines \in BuiltLines

Install ==
  /\ text = <<>> /\ lines = <<>> /\ site = Empty
  /\ \E sels \in Requested : packages' = RecordLoop(packages, sels)
  /\ UNCHANGED <<text, lines, site>>

Scripted == {RewriteScript(text, HostTool, windows) : windows \in BOOLEAN}

RelocateText ==
  /\ text # <<>>
  /\ text' \in (Scripted \ {Refused}) \cup {ReplaceBuildPrefixes(text, KitDir), RewritePRL(text)}
  /\ UNCHANGED <<packages, lines, site>>

RelocateLines ==
  /\ lines # <<>>
  /\ lines' = RewriteINI(lines, "Paths", Values)
  /\ lines' # RefusedLines
  /\ UNCHANGED <<packages, text, site>>

PublishOne ==
  /\ NoInput
  /\ \E offer \in Offers : Publish(offer)
  /\ UNCHANGED <<packages, text, lines>>

Next == Install \/ RelocateText \/ RelocateLines \/ PublishOne

Spec == Init /\ [][Next]_<<packages, text, lines, site>>

-----------------------------------------------------------------------------
\* The manifest that Installer records at once is the one reconcileKit builds
\* by replacing records one selection at a time in the map it reads from.
LoopIsRecorded ==
  text = <<>> /\ lines = <<>> =>
    \A sels \in Requested : RecordLoop(packages, sels) = Recorded(packages, sels)

\* No path of the build machine is left in a .pc or .la file, nor a library
\* path of it in a .prl file, whatever stands around it (desktop_relocator.go:259).
NoBuildPathSurvives ==
  LET rewritten == ReplaceBuildPrefixes(text, KitDir)
      prl       == RewritePRL(text)
  IN  /\ \A i \in DOMAIN rewritten : rewritten[i] \notin {"/Users", "/home", "\\Users", "\\home"}
      /\ \A i \in 1..Len(prl) - 1 :
           /\ prl[i] \in {"/Users", "/home"} => prl[i + 1] # "/lib"
           /\ prl[i] = "\\Users" => prl[i + 1] # "\\lib"

\* Rewriting what was rewritten changes nothing and refuses nothing, which is
\* what Relocation assumes of its transforms; a relocation that was cut short is
\* repeated over the files that it replaced (mobile_relocator.go:331).
RewritingTwiceChangesNothing ==
  /\ \A t \in {ReplaceBuildPrefixes(text, KitDir)} : ReplaceBuildPrefixes(t, KitDir) = t
  /\ \A t \in {RewritePRL(text)} : RewritePRL(t) = t
  /\ \A windows \in BOOLEAN : \A t \in {RewriteScript(text, HostTool, windows)} :
       t # Refused => RewriteScript(t, HostTool, windows) = t
  /\ \A l \in {RewriteINI(lines, "Paths", Values)} :
       l # RefusedLines => RewriteINI(l, "Paths", Values) = l

SectionOf(i) ==
  LET heads == {j \in 1..i - 1 : IsSection(lines[j])}
  IN  IF heads = {} THEN "" ELSE lines[Max(heads)].name

Entries(key) ==
  {i \in DOMAIN lines : lines[i].kind = "entry" /\ lines[i].name = key /\ SectionOf(i) = "Paths"}

\* Of a settings file that has each key once in its section, those entries are
\* replaced and no other line is; any other file is refused (mobile_relocator.go:366).
SettingsAreReplaced ==
  RewriteINI(lines, "Paths", Values) =
    IF \E key \in DOMAIN Values : Cardinality(Entries(key)) # 1 THEN RefusedLines
    ELSE [i \in DOMAIN lines |->
           IF \E key \in DOMAIN Values : i \in Entries(key)
           THEN [lines[i] EXCEPT !.value = Values[lines[i].name]]
           ELSE lines[i]]

\* A build path is replaced together with its drive letter, as the drive paths
\* among the build prefixes say (desktop_relocator.go:290), so that the path
\* that takes its place is the kit's (README.md:113: package metadata is repaired).
DrivesAreReplaced ==
  ReplaceBuildPrefixes(text, KitDir) = ReplacePrefixes(text, Reverse(BuildPrefixes), KitDir)
=============================================================================
