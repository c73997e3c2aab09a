--------------------------- MODULE MCManifestGen ---------------------------
(***************************************************************************)
(* ManifestGen on small instances: a link and a signer plugin, two builds.  *)
(***************************************************************************)
EXTENDS ManifestGen, TLC

CONSTANTS link, signer, odd, build1, build2

\* The glob of a plugin directory, one without any file, and a path that
\* makes the manifest no JSON.
MCCalls == {<<>>, <<link, signer>>, <<odd>>}

MCSymmetry == Permutations({build1, build2})
=============================================================================
