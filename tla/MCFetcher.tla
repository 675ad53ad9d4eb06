------------------------------ MODULE MCFetcher ------------------------------
(***************************************************************************)
(* Fetcher for TLC: images of two gzip layers of one and two bytes, one    *)
(* byte more when unpacked, in three schemes, with and without a V1        *)
(* manifest; a zstd and an uncompressed layer; and a registry that may send*)
(* any of them, or a blob cut short or of the right size and wrong digest; *)
(* an image of a registry whose certificate is not trusted, an oci image   *)
(* with layers on such a server, and a registry that asks for a login; and *)
(* the configuration files and command lines below.                        *)
(***************************************************************************)
EXTENDS Fetcher, TLC

Content(b, d, c, u, f, t) == [blob |-> b, diff |-> d, csize |-> c, usize |-> u, form |-> f, cut |-> t]
C1 == Content("b1", "d1", 1, 2, "gzip", FALSE)
C2 == Content("b2", "d2", 2, 2, "zstd", FALSE)
C3 == Content("b3", "b3", 1, 1, "tar", FALSE)
MCContents ==
  {C1, C2, C3, Content("c1", "e1", 1, 1, "gzip", TRUE), Content("x", "y", 1, 3, "gzip", FALSE),
   Content("b0", "d0", 0, 1, "gzip", FALSE)}
Of(c, sized, media_) ==
  [blob |-> c.blob, diff |-> c.diff, size |-> IF sized THEN c.csize ELSE -1, media |-> media_]
Image1(scheme_, v1_, layers_) ==
  [scheme |-> scheme_, host |-> "", trusted |-> TRUE, login |-> "", v1 |-> v1_, layers |-> layers_]
MCImages ==
  {Image1("docker", FALSE, <<Of(C1, TRUE, "gzip"), Of(C2, TRUE, "zstd")>>),
   Image1("docker", TRUE, <<Of(C1, FALSE, ""), Of(C1, FALSE, "")>>),
   Image1("oci", FALSE, <<Of(C3, TRUE, Raw), Of(C1, TRUE, "gzip")>>),
   Image1("", FALSE, <<Of(C3, TRUE, Raw)>>),
   [Image1("oci", FALSE, <<Of(C3, TRUE, Raw), Of(C1, TRUE, "gzip")>>) EXCEPT !.trusted = FALSE],
   [Image1("docker", FALSE, <<Of(C1, TRUE, "gzip")>>) EXCEPT !.host = "h", !.trusted = FALSE],
   [Image1("docker", FALSE, <<Of(C1, TRUE, "gzip")>>) EXCEPT !.host = "g", !.login = "me"]}

MCFiles ==
  [plain |-> [store |-> "s", limit |-> 3, skip |-> TRUE, insecure |-> {"x"}],
   busy |-> [store |-> "s", tardis |-> "t", metron |-> "m", level |-> "info", log |-> "l",
             clean |-> TRUE, cleanLog |-> "k", threshold |-> 1, insecure |-> {"h"}],
   wrong |-> [limit |-> -1]]

\* Settings that meet a file's or stand alone, beside each of the limits.
MCFlags ==
  LET limits == {<<>>, [limit |-> 2], [limit |-> 4], [limit |-> 4, exclude |-> TRUE]}
      others ==
        {<<>>, [config |-> "plain"], [config |-> "busy"],
         [config |-> "busy", store |-> "r", log |-> "f", insecure |-> {"g"}, withoutClean |-> TRUE],
         [login |-> "me", withClean |-> TRUE, threshold |-> 2, withMount |-> TRUE],
         [insecure |-> {"h"}, login |-> "you", withClean |-> TRUE, cleanLog |-> "k", level |-> "error"]}
      wrong ==
        {[config |-> "none"], [config |-> "wrong", limit |-> 4], [limit |-> -1],
         [threshold |-> -1], [withClean |-> TRUE, withoutClean |-> TRUE],
         [withoutMount |-> TRUE, skip |-> TRUE]}
  IN wrong \cup {a @@ b : a \in limits, b \in others}
==============================================================================
