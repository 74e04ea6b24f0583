----------------------------- MODULE MCWebhook -----------------------------
EXTENDS Webhook, TLC

CONSTANTS d1, w1, w2, o1
=============================================================================
