------------------------------ MODULE Allowlist ------------------------------
(* The path allowlist: the validation of its entries                           *)
(* (waf-core/src/allowlist_schema.rs) and the check of a request's URI         *)
(* (waf-core/src/allowlist_service.rs).                                        *)
(*                                                                             *)
(* A path is the sequence of the pieces it is made of, "/" among them, so that *)
(* one string begins with another exactly when its pieces do: "/api/users" is  *)
(* <<"/", "api", "/", "users">> and "/apis" is <<"/", "api", "s">>.            *)
(*                                                                             *)
(* BeginsWithEntry is a wrong version of EntryMatches.                         *)
EXTENDS Naturals, Sequences, SequencesExt

HasPiece(path, pieces) == \E i \in DOMAIN path : path[i] \in pieces

\* "control" stands for a control character, "long" for a piece of more than 512
\* bytes, and "%2e%2e" for the encoded dots in any case, once or twice encoded.
ValidatePathEntry(entry) ==
    /\ entry # <<>>
    /\ Head(entry) = "/"
    /\ ~HasPiece(entry, {"long", "control", "?", "#", "..", "%2e%2e"})

\* Entries are kept longest first, which decides only which of several matches
\* is found.
ValidateAllowedPaths(paths) == {entry \in ToSet(paths) : ValidatePathEntry(entry)}

UpTo(path, piece) ==
    IF HasPiece(path, {piece})
    THEN SubSeq(path, 1, SelectInSeq(path, LAMBDA p : p = piece) - 1)
    ELSE path

\* Cuts the query off, or else the fragment.
NormalizePathForMatching(uri) ==
    IF HasPiece(uri, {"?"}) THEN UpTo(uri, "?") ELSE UpTo(uri, "#")

\* starts_with, so "/administrator" too.
IsAutoWhitelisted(path) ==
    IsPrefix(<<"/", "admin">>, path) \/ IsPrefix(<<"/", "metrics">>, path)

\* starts_with without the slash.
BeginsWithEntry(entry, path) == IsPrefix(entry, path)
EntryMatches(entry, path) == path = entry \/ IsPrefix(entry \o <<"/">>, path)

CheckPath(enabled, entries, uri) ==
    LET path == NormalizePathForMatching(uri)
    IN  \/ ~enabled
        \/ IsAutoWhitelisted(path)
        \/ \E entry \in entries : EntryMatches(entry, path)
==============================================================================
