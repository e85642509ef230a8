----------------------------- MODULE Visibility ------------------------------
(* Which resources a client may see: the markers that say what kind of     *)
(* collection a directory is belong to the server, and a server may be     *)
(* told to hide dot-prefixed names and symbolic links. handle_gethead.rs   *)
(* has the rule for paths; each kind of listing applies its own to names.  *)
EXTENDS Naturals, Sequences

CONSTANTS
    DotNames,       \* the names that start with a dot
    Markers,        \* ".dav-calendar" and ".dav-addressbook", in any case
    Links           \* the paths that are symbolic links

\* DavOptionHide, and the hide_symlinks of the server.
HideOptions == [dots : {"Never", "InAutoIndexListings", "InListings", "ForDirectPaths", "Always"},
                links : BOOLEAN]

is_collection_marker(name) == name \in Markers

\* ensure_visible(): a path is hidden with anything above it.
HiddenPath(hide, path) ==
    \/ \E i \in DOMAIN path : is_collection_marker(path[i])
    \/ hide.dots \in {"ForDirectPaths", "Always"} /\ \E i \in DOMAIN path : path[i] \in DotNames
    \/ hide.links /\ \E n \in DOMAIN path : SubSeq(path, 1, n) \in Links

\* The dot-prefixed names each kind of listing leaves out.
HidesDots(hide, listing) ==
    hide.dots \in {"InListings", "Always"} \cup (IF listing = "autoindex" THEN {"InAutoIndexListings"} ELSE {})

\* A plausible mistake: the listing shows what only direct requests find.
HiddenEntryMarkerOnly(hide, listing, path) == is_collection_marker(path[Len(path)])

\* Entries of a directory that a listing skips: get_read_dir_meta() asks for
\* metadata that shows a link as a link when links are hidden.
HiddenEntry(hide, listing, path) ==
    LET name == path[Len(path)]
    IN  \/ is_collection_marker(name)
        \/ HidesDots(hide, listing) /\ name \in DotNames
        \/ hide.links /\ path \in Links
=============================================================================
