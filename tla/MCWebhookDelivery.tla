--------------------------- MODULE MCWebhookDelivery ---------------------------
EXTENDS WebhookDelivery
CONSTANTS w1, w2, done, failed, none
OneWorker == {w1}
TwoWorkers == {w1, w2}
BothPayloads == {done, failed}
===============================================================================
