------------------------------ MODULE MCLocalFs ------------------------------
(* LocalFs on three disks: one with links, one whose names are looked up in  *)
(* any case, and two set up for macOS: one directory that is listed while    *)
(* its "._" files come and go, and one inside it that has a "._" name.       *)
EXTENDS LocalFs, TLC

CONSTANTS c1, c2, l1, l2

MCSymmetry == Permutations(Clients) \cup Permutations(Listings)

MCBase == <<"srv">>
MCDirs == {MCBase, MCBase \o <<"._y">>}
MCDotNames == {"._x", "._y"}

MCLower(n) == CASE n = "A" -> "a" [] n = "F" -> "f" [] n = "B" -> "b" [] OTHER -> n

At(p) == MCBase \o p

Plain   == [case_insensitive |-> FALSE, macos |-> FALSE, is_file |-> FALSE]
AnyCase == [Plain EXCEPT !.case_insensitive = TRUE]
MacOs   == [Plain EXCEPT !.macos = TRUE]
OneFile == [Plain EXCEPT !.is_file = TRUE]

Ask(op, p)       == [op |-> op, path |-> p]
Ask2(op, p, to)  == [op |-> op, path |-> p, to |-> to]
Store(p, new, v) == [op |-> "write", path |-> p, create |-> TRUE, create_new |-> new, val |-> v]

Root0 == (<<>> :> DirEntry) @@ (MCBase :> DirEntry)

\* l leads out of the share, k to a directory in it, n nowhere.
LinkDisk ==
    Root0 @@ (At(<<"a">>) :> DirEntry) @@ (At(<<"b">>) :> FileEntry("1"))
          @@ (At(<<"l">>) :> LinkTo(<<"out">>)) @@ (At(<<"k">>) :> LinkTo(At(<<"a">>)))
          @@ (<<"out">> :> DirEntry) @@ (<<"out", "x">> :> FileEntry("9"))

LinkCalls ==
    {Store(<<"l", "x">>, FALSE, "2"), Store(<<"l">>, FALSE, "2"), Store(<<"k", "x">>, TRUE, "2"),
     Store(<<"b">>, FALSE, "2"), Ask2("rename", <<"a">>, <<"b">>), Ask2("rename", <<"b">>, <<"a">>),
     Ask2("rename", <<"b">>, <<"l", "b">>), Ask2("rename", <<"a">>, <<"a", "x">>), Ask2("rename", <<"a">>, <<"b", "x">>),
     Ask2("rename", <<"b", "x", "y">>, <<"b">>), Ask2("copy", <<"l", "x">>, <<"c">>), Ask2("copy", <<"b">>, <<"k", "x">>),
     Ask2("copy", <<"b">>, <<"l", "x">>), Ask("remove_file", <<"b">>), Ask("remove_file", <<"l", "x">>),
     Ask("remove_dir", <<"a">>), Ask("create_dir", <<"b">>), Ask("create_dir", <<"l", "d">>),
     Ask("mark", <<"a">>), Ask("open", <<"l", "x">>), Ask("symlink_metadata", <<"l">>),
     Ask("metadata", <<"k", "x">>), Ask("set_modified", <<"l">>)}

CaseDisk == Root0 @@ (At(<<"A">>) :> DirEntry) @@ (At(<<"A", "F">>) :> FileEntry("1"))

CaseCalls ==
    {Ask("metadata", <<"a", "f">>), Ask("metadata", <<"A", "f">>), Ask("remove_file", <<"a", "f">>),
     Store(<<"a", "f">>, FALSE, "2"), Store(<<"b">>, FALSE, "2"), Ask("create_dir", <<"a">>),
     Ask("remove_dir", <<"a">>), Ask2("rename", <<"a">>, <<"B">>), Ask2("rename", <<"B">>, <<"a">>),
     Ask2("copy", <<"a", "F">>, <<"B">>), Ask("metadata", <<"b", "F">>)}

MacDisk == Root0 @@ (At(<<"._x">>) :> FileEntry("1"))

MacCalls ==
    {Ask("metadata", <<"._x">>), Ask("symlink_metadata", <<"._y">>), Ask("metadata", <<".localized">>),
     Ask("metadata", <<"._x", "._y">>),
     Ask("metadata", <<".ql_disablethumbnails">>), Ask2("rename", <<"._x">>, <<".localized">>),
     Ask("create_dir", <<".metadata_never_index">>), Store(<<"._y">>, FALSE, "1"),
     Ask("set_modified", <<>>)}

\* The directory ._y is an entry of the directory that is listed, and is listed itself.
NestedDisk == Root0 @@ (At(<<"._y">>) :> DirEntry) @@ (At(<<"._y", "._x">>) :> FileEntry("1"))

NestedCalls == {Ask("metadata", <<"._y">>), Ask("metadata", <<"._y", "._x">>)}

FileDisk == (<<>> :> DirEntry) @@ (MCBase :> FileEntry("1"))
FileCalls ==
    {Ask("metadata", <<"a">>), Store(<<"b">>, FALSE, "2"), Ask("create_dir", <<"a">>)}

Case(how, on, calls, bound, lists) ==
    [inner |-> how, disk |-> on, calls |-> calls, bound |-> bound, lists |-> lists]

MCSetups == {Case(Plain, LinkDisk, LinkCalls, 2, FALSE), Case(AnyCase, CaseDisk, CaseCalls, 2, FALSE),
             Case(OneFile, FileDisk, FileCalls, 2, FALSE), Case(MacOs, MacDisk, MacCalls, 1, TRUE),
             Case(MacOs, NestedDisk, NestedCalls, 1, TRUE)}

\* For the check that a denial is right: the file ._x is there all the time.
MCStaySetups == {Case(MacOs, MacDisk, {Ask("metadata", <<"._x">>)}, 1, TRUE)}
=============================================================================
