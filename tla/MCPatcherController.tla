------------------------ MODULE MCPatcherController ------------------------
(* Instances of PatcherController for TLC.                                 *)
EXTENDS PatcherController

\* Silent Hill: Shattered Memories on the Wii: ui.arc, the embedded archive and
\* the main archive are rebuilt; the check adds the header in the executable.  Of
\* what is replaced only the main archive is written with the image's notifier
\* bound; the executable and ui.arc come before it, the header and the files after.
MemoriesWiiPhases == [s \in Steps |->
  CASE s = "rebuildArchives" -> <<"archive", "archive", "archive">>
    [] s = "checkArchives"   -> <<"check", "check", "check", "check">>
    [] s = "replaceArchives" -> <<"quiet", "wii", "quiet">>
    [] s = "checkImage"      -> <<"wii">>
    [] OTHER -> <<>>]

\* Silent Hill: Origins on the PS2 or PSP: no ui.arc and no header, and the
\* image's notifier is bound but never polled.
OriginsIsoPhases == [s \in Steps |->
  CASE s = "rebuildArchives" -> <<"archive", "archive">>
    [] s = "checkArchives"   -> <<"check", "check">>
    [] s \in {"replaceArchives", "checkImage"} -> <<"iso">>
    [] OTHER -> <<>>]
=============================================================================
