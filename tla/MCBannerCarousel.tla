-------------------------- MODULE MCBannerCarousel --------------------------
(* Constants for TLC: no banner, one, and enough for a page between the first *)
(* and the last; thirds of a page tell "nearer to" from "at" and "past".      *)
EXTENDS BannerCarousel

FewBanners == 0 .. 4
OneBanner == {1}
=============================================================================
