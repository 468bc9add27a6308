------------------------------- MODULE MCSweep -------------------------------
(* A package with nested directories under one application root, a flat one *)
(* under the other, and a thumbnail directory.                              *)
EXTENDS Sweep

MCContents ==
  [d \in Dirs |->
    CASE d = "data" -> <<"dot", "pkg1">>
      [] d = "media" -> <<"pkg2", "dot">>
      [] d = "cache1" -> <<"dir1", "a">>
      [] d = "dir1" -> <<"deep", "b">>
      [] d = "deep" -> <<"c">>
      [] d = "cache2" -> <<"d">>
      [] d = "thumbs" -> <<"dot", "e">>
      [] OTHER -> <<>>]

MCDirs == {"data", "media", "pkg1", "pkg2", "cache1", "dir1", "deep", "cache2", "thumbs"}
MCCache == [p \in {"pkg1", "pkg2"} |-> IF p = "pkg1" THEN "cache1" ELSE "cache2"]
MCAppRoots == <<"data", "media">>
MCThumbs == <<"thumbs">>
=============================================================================
