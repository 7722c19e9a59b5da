---------------------------- MODULE MCShopBill ----------------------------
EXTENDS ShopBill
CONSTANTS water, juice
=============================================================================
