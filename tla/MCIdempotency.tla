--------------------------- MODULE MCIdempotency ---------------------------
EXTENDS Idempotency
=============================================================================
