------------------------ MODULE MCStripeKYCValidator ------------------------
(* Two agents that change hands, two requests over two Stripe sessions or a  *)
(* URI that is not Stripe's, this validator or a user asked, two forwarders.  *)
EXTENDS StripeKYCValidator
=============================================================================
