---------------------------- MODULE MCPackaging ----------------------------
EXTENDS Packaging, TLC

Source(entry, effect, mode, tag) == [entry |-> entry, effect |-> effect, mode |-> mode, tag |-> tag]

\* A tool whose effect is inferred, given and tagged; a tag that is no effect; a tool
\* on a resource, with and without parameters; a mode; a name with capitals.
ManySources ==
  {Source(<<"issues", "get">>, NoEffect, "", NoEffect),
   Source(<<"issues", "get">>, "reversible", "", "irreversible"),
   Source(<<"issues", "get">>, NoEffect, "", "destructive"),
   Source(<<"issues", "close">>, "readOnly", "", NoEffect),
   Source(<<"users", "events", "get">>, NoEffect, "", NoEffect),
   Source(<<"users", "events", "list">>, NoEffect, "member", NoEffect),
   Source(<<"issues", "GET">>, NoEffect, "", NoEffect)}

PackerSymmetry == Permutations(Packers)

=============================================================================
