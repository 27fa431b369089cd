---------------------------- MODULE MCNetServer ----------------------------
(* Small instances of NetServer. *)
EXTENDS NetServer, TLC

\* One frame, two of which the first has no payload, a long one, a GET, one and what is no
\* request, one that is never whole, and one that is cut off.
AllScripts ==
  {<<1, Payload>>, <<0, 1, Payload>>, <<3, Payload, Payload, Payload>>, <<Get>>,
   <<0, Bad>>, <<2, Payload, Payload>>, <<1>>}
=============================================================================
