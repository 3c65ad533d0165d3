------------------------ MODULE MCBrowserFileSource ------------------------
(* The File Source on a ring smaller than the selection, with two-byte items *)
(* so that pieces end inside one, and tags on both ends of the selection: a  *)
(* URL read once, and a file read again and again.                           *)
EXTENDS BrowserFileSource

EndsTagged == <<0, 1, Length - 1, Length - 1>>

RemoteOnce == [remote |-> TRUE, repeat |-> FALSE]
LocalRepeated == [remote |-> FALSE, repeat |-> TRUE]

OnceOrRepeated == {RemoteOnce, LocalRepeated}
Once == {RemoteOnce}
=============================================================================
