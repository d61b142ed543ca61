---------------------------- MODULE MCVersioning ----------------------------
(* Versioning with model values for keys and threads, both symmetric; PluginStack brings  *)
(* the other plugins, whose assumptions TLC evaluates here.                               *)
EXTENDS Versioning, PluginStack, Urls, TLC

CONSTANTS a, b, t1

OneKey == {a}
TwoKeys == {a, b}
OneThread == {t1}

\* No ETags at all, and ETags that sort against the order of the uploads.
NoETags == [d \in Data |-> 1]
Against == [d \in Data |-> MaxWrites + 1 - d]

OneNoETags == {[limit |-> 1, slug |-> NoETags]}
OneOrTwo == [limit : {1, 2}, slug : {NoETags, Against}]

Symmetry == Permutations(Keys) \cup Permutations(Threads)
=============================================================================
